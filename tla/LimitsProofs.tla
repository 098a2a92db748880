---------------------------- MODULE LimitsProofs ----------------------------
(***************************************************************************)
(* Proofs that the source chain accepts no message that the target cannot  *)
(* deliver and can confirm every inbound lane, for every pair of chains    *)
(* whose runtimes pass their tests and through every sequence of upgrades; *)
(* and that the weights of the calls cover the time they take.             *)
(***************************************************************************)
EXTENDS MessageLimits, SequenceTheorems, SumProofs, TLAPS

Message == [size : Int, weight : Int, payment : {AtSourceChain, AtTargetChain}]

\* What the source knows of the target was true once, and the target only grows.
KnownWithinTarget ==
    /\ known.max_extrinsic_size \in Int /\ known.max_extrinsic_weight \in Int
    /\ known.max_extrinsic_size <= target.max_extrinsic_size
    /\ known.max_extrinsic_weight <= target.max_extrinsic_weight

\* A message that no test of the runtime has to be afraid of.
WithinLimits(message, chain) ==
    /\ message \in Message
    /\ message.size <= MaximalIncomingMessageSize(chain.max_extrinsic_size)
    /\ message.weight <= MaximalIncomingDispatchWeight(chain.max_extrinsic_weight)

LimitsInv ==
    /\ target \in TargetRuntimes
    /\ KnownWithinTarget
    /\ outbox \in Seq(Message)
    /\ \A i \in 1..Len(outbox) : WithinLimits(outbox[i], target)

LEMMA LimitsType ==
    ASSUME NEW limits \in ChainLimits
    PROVE  limits.max_extrinsic_size \in Int /\ limits.max_extrinsic_weight \in Int
<1>1. PICK chain \in Chains : limits = Limits(chain)
  BY DEF ChainLimits
<1>2. chain.block_length \in Nat /\ chain.block_weight \in Nat /\ chain.on_initialize \in Nat
  BY LimitsAssumption DEF Chains, DarwiniaLike, PolkadotLike
<1>3. BaseExtrinsic \in Nat
  BY LimitsAssumption
<1>4. /\ NormalRatio(chain.block_length) \in Int /\ NormalRatio(chain.block_weight) \in Int
      /\ (chain.block_weight \div 100) * chain.on_initialize \in Int
  BY <1>2 DEF NormalRatio
<1>5. /\ limits.max_extrinsic_size = NormalRatio(chain.block_length)
      /\ limits.max_extrinsic_weight = NormalRatio(chain.block_weight) - BaseExtrinsic
                                          - (chain.block_weight \div 100) * chain.on_initialize
  BY <1>1 DEF Limits
<1> QED BY <1>3, <1>4, <1>5

-----------------------------------------------------------------------------
(* The weight of a delivery grows with the bytes of its proof. *)

LEMMA ProductMonotone ==
    ASSUME NEW a \in Int, NEW b \in Int, NEW c \in Int, a <= b, c > 0
    PROVE  a * c <= b * c
<1>1. (b - a) * c >= 0
  OBVIOUS
<1>2. (b - a) * c = b * c - a * c
  OBVIOUS
<1> QED BY <1>1, <1>2

LEMMA GrowTrieType ==
    ASSUME NEW size \in Int, NEW r, r.size \in Int
    PROVE  GrowTrie(size, r) \in Int
BY ProofSizesAssumption DEF GrowTrie

LEMMA ReceiveBenchmarkType ==
    ASSUME NEW c \in CallCosts, NEW messages \in Nat, NEW laneState \in Nat,
           NEW requirement, requirement.size \in Nat, NEW paid \in Nat
    PROVE  ReceiveBenchmark(c, messages, laneState, requirement, paid) \in Int
<1> DEFINE remark == IF requirement.kind = "Minimal" THEN requirement.size ELSE 0
           size == messages * (remark + BenchmarkProofOverhead) + laneState * OutboundLaneDataSize
           proof == PrepareMessageProof(messages, laneState, requirement)
<1>1. BenchmarkProofOverhead \in Nat /\ OutboundLaneDataSize \in Nat
  BY BenchmarksAssumption
<1>2. remark \in Nat
  OBVIOUS
<1>3. size \in Int
  <2> HIDE DEF remark
  <2> QED BY <1>1, <1>2
<1>4. proof = GrowTrie(size, requirement)
  BY DEF PrepareMessageProof, PrepareMessagesStorageProof
<1>5. proof \in Int
  <2> HIDE DEF size, proof
  <2> QED BY <1>3, <1>4, GrowTrieType
<1>6. /\ c.delivery \in Int /\ c.message \in Int /\ c.lane_state \in Int
      /\ c.pay_fee \in Int /\ c.proof_byte \in Int
  BY DEF CallCosts
<1> HIDE DEF proof
<1>7. DeliveryCost(c, messages, laneState, paid, proof) \in Int
  BY <1>5, <1>6 DEF DeliveryCost
<1> QED BY <1>7 DEF ReceiveBenchmark, proof

LEMMA WeightsType ==
    ASSUME NEW c \in CallCosts, NEW w, w = WeightInfo(c)
    PROVE  /\ w.receive_single_message_proof \in Int
           /\ w.receive_two_messages_proof \in Int
           /\ w.receive_single_message_proof_with_outbound_lane_state \in Int
           /\ w.receive_single_message_proof_1_kb \in Int
           /\ w.receive_single_message_proof_16_kb \in Int
<1>1. \A n \in Nat : Minimal(n).size = n /\ HasExtraNodes(n).size = n
  BY DEF Minimal, HasExtraNodes
<1>2. /\ w.receive_single_message_proof = receive_single_message_proof(c)
      /\ w.receive_two_messages_proof = receive_two_messages_proof(c)
      /\ w.receive_single_message_proof_with_outbound_lane_state
           = receive_single_message_proof_with_outbound_lane_state(c)
      /\ w.receive_single_message_proof_1_kb = receive_single_message_proof_1_kb(c)
      /\ w.receive_single_message_proof_16_kb = receive_single_message_proof_16_kb(c)
  BY DEF WeightInfo
<1>3. \A n \in Nat, messages \in Nat, laneState \in Nat :
        /\ ReceiveBenchmark(c, messages, laneState, Minimal(n), AtSourceChain) \in Int
        /\ ReceiveBenchmark(c, messages, laneState, HasExtraNodes(n), AtSourceChain) \in Int
  BY <1>1, ReceiveBenchmarkType DEF AtSourceChain
<1>4. EXPECTED_DEFAULT_MESSAGE_LENGTH \in Nat /\ 16 * 1024 \in Nat
  BY DEF EXPECTED_DEFAULT_MESSAGE_LENGTH
<1> QED
  BY <1>2, <1>3, <1>4
  DEF receive_single_message_proof, receive_two_messages_proof,
      receive_single_message_proof_with_outbound_lane_state,
      receive_single_message_proof_1_kb, receive_single_message_proof_16_kb

\* Of two deliveries of one message, the one with the smaller proof and the lighter
\* message is declared the lighter one.
LEMMA DeliveryWeightMonotone ==
    ASSUME NEW c \in Costs, NEW w, w = WeightInfo(c), EnsureWeightsAreCorrect(w),
           NEW size \in Int, NEW larger \in Int, size <= larger,
           NEW weight \in Int, NEW heavier \in Int, weight <= heavier
    PROVE  /\ ReceiveMessagesProofWeight(w, size, 1, weight)
                <= ReceiveMessagesProofWeight(w, larger, 1, heavier)
           /\ ReceiveMessagesProofWeight(w, size, 1, weight) \in Int
<1> DEFINE k == (w.receive_single_message_proof_16_kb - w.receive_single_message_proof_1_kb)
                  \div (15 * 1024)
           base == ReceiveMessagesProofOverhead(w) + LaneStateOverhead(w) + MessagesOverhead(w, 1)
           charged(s) == SaturatingSub(s, EXTRA_STORAGE_PROOF_SIZE)
<1>1. c \in CallCosts
  BY LimitsAssumption
<1>2. /\ w.receive_single_message_proof \in Int
      /\ w.receive_two_messages_proof \in Int
      /\ w.receive_single_message_proof_with_outbound_lane_state \in Int
      /\ w.receive_single_message_proof_1_kb \in Int
      /\ w.receive_single_message_proof_16_kb \in Int
  BY <1>1, WeightsType
<1>3. k \in Int
  BY <1>2
<1>4. base \in Int
  BY <1>2 DEF ReceiveMessagesProofOverhead, LaneStateOverhead, MessagesOverhead, SaturatingSub
<1>5. \A s \in Int : StorageProofSizeOverhead(w, s) = s * k
  BY DEF StorageProofSizeOverhead
<1> HIDE DEF k, base
<1>6. k > 0
  <2>1. StorageProofSizeOverhead(w, 1) > 0
    BY DEF EnsureWeightsAreCorrect
  <2> QED BY <1>3, <1>5, <2>1
<1>7. charged(size) \in Int /\ charged(larger) \in Int /\ charged(size) <= charged(larger)
  BY DEF SaturatingSub, EXTRA_STORAGE_PROOF_SIZE
<1>8. \A s \in Int, d \in Int :
        ReceiveMessagesProofWeight(w, s, 1, d) = base + d + StorageProofSizeOverhead(w, charged(s))
  <2>1. EXPECTED_DEFAULT_MESSAGE_LENGTH * SaturatingSub(1, 1) + EXTRA_STORAGE_PROOF_SIZE
          = EXTRA_STORAGE_PROOF_SIZE
    BY DEF EXPECTED_DEFAULT_MESSAGE_LENGTH, SaturatingSub, EXTRA_STORAGE_PROOF_SIZE
  <2> QED BY <2>1 DEF ReceiveMessagesProofWeight, base
<1> HIDE DEF charged
<1>9. charged(size) * k <= charged(larger) * k
  BY <1>3, <1>6, <1>7, ProductMonotone
<1>10. /\ ReceiveMessagesProofWeight(w, size, 1, weight) = base + weight + charged(size) * k
       /\ ReceiveMessagesProofWeight(w, larger, 1, heavier) = base + heavier + charged(larger) * k
  BY <1>5, <1>7, <1>8
<1>11. charged(size) * k \in Int /\ charged(larger) * k \in Int
  BY <1>3, <1>7
<1> QED BY <1>4, <1>9, <1>10, <1>11

-----------------------------------------------------------------------------
(* The proof of a single message. *)

LEMMA SingleMessage ==
    ASSUME NEW m, m.size \in Int, m.weight \in Int
    PROVE  ProofSize(<<m>>) = m.size + ProofOverhead /\ TotalDispatchWeight(<<m>>) = m.weight
<1> DEFINE sizes == [i \in 1..Len(<<m>>) |-> <<m>>[i].size + ProofOverhead]
           weights == [i \in 1..Len(<<m>>) |-> <<m>>[i].weight]
<1>1. 1..Len(<<m>>) = {1}
  OBVIOUS
<1>2. DOMAIN sizes = {1} /\ DOMAIN weights = {1}
  BY <1>1
<1>3. sizes[1] = m.size + ProofOverhead /\ weights[1] = m.weight
  BY <1>1
<1>4. ProofOverhead \in Int
  BY LimitsAssumption
<1>5. ProofSize(<<m>>) = SumFunctionOnSet(sizes, {1})
  BY <1>2 DEF ProofSize, SumFunction
<1>6. TotalDispatchWeight(<<m>>) = SumFunctionOnSet(weights, {1})
  BY <1>2 DEF TotalDispatchWeight, SumFunction
<1>7. sizes[1] \in Int /\ weights[1] \in Int
  BY <1>3, <1>4
<1> HIDE DEF sizes, weights
<1>8. SumFunctionOnSet(sizes, {1}) = sizes[1] /\ SumFunctionOnSet(weights, {1}) = weights[1]
  BY <1>7, SumSingleton
<1> QED BY <1>3, <1>5, <1>6, <1>8

\* A message within the limits fits a block of the target, whose tests pass.
LEMMA WithinLimitsDelivers ==
    ASSUME target \in TargetRuntimes, NEW m, WithinLimits(m, target)
    PROVE  DeliveryFits(<<m>>)
<1> DEFINE proof_size == MaximalIncomingMessageSize(target.max_extrinsic_size)
                           + EXTRA_STORAGE_PROOF_SIZE
           heaviest == MaximalIncomingDispatchWeight(target.max_extrinsic_weight)
           weight == TotalDispatchWeight(<<m>>)
<1>1. PICK limits \in ChainLimits, lane \in LaneLimits, c \in Costs :
        target = Runtime(limits, lane, c) /\ EnsureWeightsAreCorrect(WeightInfo(c))
  BY DEF TargetRuntimes, Runtimes
<1>2. target.weights = WeightInfo(c)
  BY <1>1 DEF Runtime
<1>3. target.max_extrinsic_size \in Int /\ target.max_extrinsic_weight \in Int
  BY <1>1, LimitsType DEF Runtime
<1>4. ProofOverhead \in 0..1024 /\ TransactionOverhead \in 0..1024
  BY LimitsAssumption DEF EXTRA_STORAGE_PROOF_SIZE, SIGNED_EXTENSIONS_SIZE
<1>5. m.size \in Int /\ m.weight \in Int
  BY DEF WithinLimits, Message
<1>6. ProofSize(<<m>>) = m.size + ProofOverhead
  BY <1>5, SingleMessage
<1>7. weight \in Int /\ heaviest \in Int /\ weight <= heaviest
  BY <1>3, <1>5, SingleMessage DEF WithinLimits, MaximalIncomingDispatchWeight
<1>8. proof_size \in Int /\ ProofSize(<<m>>) \in Int /\ ProofSize(<<m>>) <= proof_size
  BY <1>3, <1>4, <1>5, <1>6 DEF WithinLimits, MaximalIncomingMessageSize, EXTRA_STORAGE_PROOF_SIZE
<1>9. /\ proof_size + 1024 <= target.max_extrinsic_size
      /\ ReceiveMessagesProofWeight(target.weights, proof_size + EXTRA_STORAGE_PROOF_SIZE, 1, heaviest)
           <= target.max_extrinsic_weight
  BY DEF TargetRuntimes, EnsureAbleToReceiveMessage, SIGNED_EXTENSIONS_SIZE
<1> HIDE DEF proof_size, heaviest, weight
<1> DEFINE declared == ReceiveMessagesProofWeight(target.weights, ProofSize(<<m>>), 1, weight)
           tested == ReceiveMessagesProofWeight(target.weights,
                                                proof_size + EXTRA_STORAGE_PROOF_SIZE, 1, heaviest)
<1>10. /\ proof_size + EXTRA_STORAGE_PROOF_SIZE \in Int
       /\ ProofSize(<<m>>) <= proof_size + EXTRA_STORAGE_PROOF_SIZE
  BY <1>8 DEF EXTRA_STORAGE_PROOF_SIZE
<1>11. declared <= tested /\ declared \in Int
  BY <1>1, <1>2, <1>7, <1>8, <1>10, DeliveryWeightMonotone
<1>12. tested \in Int
  BY <1>1, <1>2, <1>7, <1>10, DeliveryWeightMonotone
<1>13. Len(<<m>>) = 1
  OBVIOUS
<1>14. DeclaredWeight(<<m>>) = declared
  BY <1>13 DEF DeclaredWeight, weight
<1> HIDE DEF declared, tested
<1>15. DeclaredWeight(<<m>>) <= target.max_extrinsic_weight
  BY <1>3, <1>9, <1>11, <1>12, <1>14 DEF tested
<1>16. ProofSize(<<m>>) + TransactionOverhead <= target.max_extrinsic_size
  BY <1>3, <1>4, <1>8, <1>9
<1> QED BY <1>15, <1>16 DEF DeliveryFits, Fits

-----------------------------------------------------------------------------
(* The invariant. *)

\* Limits grow, and so do the largest message and the heaviest one.
LEMMA WithinLargerLimits ==
    ASSUME NEW m, NEW small, NEW large, WithinLimits(m, small),
           small.max_extrinsic_size \in Int, large.max_extrinsic_size \in Int,
           small.max_extrinsic_weight \in Int, large.max_extrinsic_weight \in Int,
           small.max_extrinsic_size <= large.max_extrinsic_size,
           small.max_extrinsic_weight <= large.max_extrinsic_weight
    PROVE  WithinLimits(m, large)
BY DEF WithinLimits, Message, MaximalIncomingMessageSize, MaximalIncomingDispatchWeight

LEMMA RuntimeType ==
    ASSUME NEW runtime \in TargetRuntimes
    PROVE  runtime.max_extrinsic_size \in Int /\ runtime.max_extrinsic_weight \in Int
<1>1. PICK limits \in ChainLimits, lane \in LaneLimits, c \in Costs : runtime = Runtime(limits, lane, c)
  BY DEF TargetRuntimes, Runtimes
<1> QED BY <1>1, LimitsType DEF Runtime

LEMMA InitLimitsInv == Init => LimitsInv
<1> SUFFICES ASSUME Init PROVE LimitsInv
  OBVIOUS
<1>1. target \in TargetRuntimes /\ outbox = <<>>
  BY DEF Init
<1>2. KnownWithinTarget
  BY RuntimeType DEF Init, AssertChainConstants, KnownWithinTarget
<1>3. outbox \in Seq(Message) /\ Len(outbox) = 0
  BY <1>1
<1> QED BY <1>1, <1>2, <1>3 DEF LimitsInv

LEMMA SendKeepsLimits ==
    ASSUME LimitsInv, NEW message \in SomeMessages, SendMessage(message)
    PROVE  LimitsInv'
<1>1. target.max_extrinsic_size \in Int /\ target.max_extrinsic_weight \in Int
  BY RuntimeType DEF LimitsInv
<1>2. message \in Message
  BY DEF SomeMessages, Message, LimitsInv, KnownWithinTarget, MaximalIncomingMessageSize,
         MaximalIncomingDispatchWeight
<1>3. WithinLimits(message, known)
  BY <1>2 DEF SendMessage, VerifyChainMessage, MaximalMessageSize, WithinLimits
<1>4. WithinLimits(message, target)
  BY <1>1, <1>3, WithinLargerLimits DEF LimitsInv, KnownWithinTarget
<1>5. target' = target /\ known' = known /\ outbox' = Append(outbox, message) /\ outbox \in Seq(Message)
  BY DEF SendMessage, LimitsInv
<1>6. outbox' \in Seq(Message)
  BY <1>2, <1>5, AppendProperties
<1>7. ASSUME NEW i \in 1..Len(outbox')
      PROVE  WithinLimits(outbox'[i], target)
  <2>1. CASE i = Len(outbox) + 1
    BY <1>2, <1>4, <1>5, <2>1, AppendProperties
  <2>2. CASE i # Len(outbox) + 1
    <3>1. i \in 1..Len(outbox)
      BY <1>2, <1>5, <1>7, <2>2, AppendProperties, LenProperties
    <3> QED BY <1>2, <1>5, <3>1, AppendProperties DEF LimitsInv
  <2> QED BY <2>1, <2>2
<1>8. KnownWithinTarget'
  BY <1>5 DEF LimitsInv, KnownWithinTarget
<1>9. \A i \in 1..Len(outbox') : WithinLimits(outbox'[i], target')
  BY <1>5, <1>7
<1>10. target' \in TargetRuntimes
  BY <1>5 DEF LimitsInv
<1> QED BY <1>6, <1>8, <1>9, <1>10 DEF LimitsInv

LEMMA DeliveryKeepsLimits ==
    ASSUME LimitsInv, NEW n \in 1..MaxOutbox, NEW newEntry, DeliverMessages(n, newEntry)
    PROVE  LimitsInv'
<1>1. /\ target' = target /\ known' = known /\ outbox \in Seq(Message)
      /\ outbox' = SubSeq(outbox, n + 1, Len(outbox))
      /\ n \in 1..Len(outbox)
  BY LenProperties DEF DeliverMessages, LimitsInv
<1>2. outbox' \in Seq(Message)
  BY <1>1, SubSeqProperties, LenProperties
<1>3. ASSUME NEW i \in 1..Len(outbox')
      PROVE  WithinLimits(outbox'[i], target)
  <2>1. n + i \in 1..Len(outbox) /\ outbox'[i] = outbox[n + i]
    BY <1>1, <1>3, LenProperties
  <2> QED BY <2>1 DEF LimitsInv
<1>4. KnownWithinTarget' /\ target' \in TargetRuntimes
  BY <1>1 DEF LimitsInv, KnownWithinTarget
<1> QED BY <1>1, <1>2, <1>3, <1>4 DEF LimitsInv

LEMMA NextLimitsInv == LimitsInv /\ [Next]_vars => LimitsInv'
<1> SUFFICES ASSUME LimitsInv, [Next]_vars PROVE LimitsInv'
  OBVIOUS
<1>1. ASSUME NEW message \in SomeMessages, SendMessage(message) PROVE LimitsInv'
  BY <1>1, SendKeepsLimits
<1>2. ASSUME NEW n \in 1..MaxOutbox, NEW newEntry \in BOOLEAN, DeliverMessages(n, newEntry)
      PROVE  LimitsInv'
  BY <1>2, DeliveryKeepsLimits
<1>3. ASSUME UNCHANGED <<target, known, outbox>> PROVE LimitsInv'
  BY <1>3 DEF LimitsInv, KnownWithinTarget
<1>4. ASSUME NEW runtime \in TargetRuntimes, UpgradeTarget(runtime) PROVE LimitsInv'
  <2>1. /\ target' = runtime /\ known' = known /\ outbox' = outbox
        /\ target.max_extrinsic_size <= runtime.max_extrinsic_size
        /\ target.max_extrinsic_weight <= runtime.max_extrinsic_weight
    BY <1>4 DEF UpgradeTarget
  <2>2. /\ target.max_extrinsic_size \in Int /\ target.max_extrinsic_weight \in Int
        /\ runtime.max_extrinsic_size \in Int /\ runtime.max_extrinsic_weight \in Int
    BY RuntimeType DEF LimitsInv
  <2>3. \A i \in 1..Len(outbox) : WithinLimits(outbox[i], runtime)
    BY <2>1, <2>2, WithinLargerLimits DEF LimitsInv
  <2>4. KnownWithinTarget'
    BY <2>1, <2>2 DEF LimitsInv, KnownWithinTarget
  <2> QED BY <2>1, <2>3, <2>4 DEF LimitsInv
<1>5. ASSUME NEW constants \in ChainLimits, UpgradeSource(constants) PROVE LimitsInv'
  <2>1. /\ target' = target /\ known' = constants /\ outbox' = outbox
        /\ AssertChainConstants(constants, target)
    BY <1>5 DEF UpgradeSource
  <2>2. target.max_extrinsic_size \in Int /\ target.max_extrinsic_weight \in Int
    BY RuntimeType DEF LimitsInv
  <2>3. KnownWithinTarget'
    BY <2>1, <2>2 DEF KnownWithinTarget, AssertChainConstants
  <2> QED BY <2>1, <2>3 DEF LimitsInv
<1>6. ASSUME ConfirmMessages \/ \E gone \in 0..Len(entries) : ReceiveStateUpdate(gone)
      PROVE  LimitsInv'
  BY <1>3, <1>6 DEF ConfirmMessages, ReceiveStateUpdate
<1>7. CASE UNCHANGED vars
  BY <1>3, <1>7 DEF vars
<1> QED BY <1>1, <1>2, <1>4, <1>5, <1>6, <1>7 DEF Next

-----------------------------------------------------------------------------
(* The confirmation of an inbound lane. *)

Entries == Seq(Nat \ {0})

LaneInv ==
    /\ source \in SourceRuntimes
    /\ entries \in Entries
    /\ Len(entries) <= MaxRelayersInConfirmation
    /\ confirmed \in 0..1
    /\ received \in confirmed..TotalMessages(entries)
    /\ TotalMessages(entries) <= MaxMessagesInConfirmation + confirmed

LEMMA TotalIsSum ==
    ASSUME NEW lane \in Entries
    PROVE  /\ TotalMessages(lane) = SumFunctionOnSet(lane, 1..Len(lane))
           /\ TotalMessages(lane) \in Nat /\ Len(lane) \in Nat
           /\ IsFiniteSet(1..Len(lane)) /\ \A i \in 1..Len(lane) : lane[i] \in Nat \ {0}
<1>1. Len(lane) \in Nat /\ DOMAIN lane = 1..Len(lane) /\ \A i \in 1..Len(lane) : lane[i] \in Nat \ {0}
  BY LenProperties, ElementOfSeq DEF Entries
<1>2. IsFiniteSet(1..Len(lane))
  BY <1>1, FS_Interval
<1>3. TotalMessages(lane) = SumFunctionOnSet(lane, 1..Len(lane))
  BY <1>1 DEF TotalMessages, SumFunction
<1>4. \A i \in 1..Len(lane) : lane[i] \in Nat
  BY <1>1
<1>5. SumFunctionOnSet(lane, 1..Len(lane)) \in Nat
  BY <1>2, <1>4, SumNat
<1> QED BY <1>1, <1>2, <1>3, <1>5

\* An entry has two bytes for the number of its results and a bit for each of them.
LEMMA EntrySize ==
    ASSUME NEW n \in Nat \ {0}, n < 16384
    PROVE  /\ EncodedEntrySize(n) \in Nat
           /\ 8 * EncodedEntrySize(n) <= 8 * (RelayerIdSize + 19) + n - 1
<1>1. RelayerIdSize \in Nat
  BY LimitsAssumption
<1>2. CompactSize(n) \in 1..2
  BY DEF CompactSize
<1>3. (n + 7) \div 8 \in Nat /\ 8 * ((n + 7) \div 8) <= n + 7
  OBVIOUS
<1> QED BY <1>1, <1>2, <1>3 DEF EncodedEntrySize

EntrySizes(lane) == [i \in 1..Len(lane) |-> EncodedEntrySize(lane[i])]

LEMMA LaneSize ==
    ASSUME NEW lane \in Entries, TotalMessages(lane) < 16384
    PROVE  /\ SumFunction(EntrySizes(lane)) \in Nat
           /\ 8 * SumFunction(EntrySizes(lane))
                <= Len(lane) * (8 * (RelayerIdSize + 19)) + TotalMessages(lane) - Len(lane)
<1> DEFINE sizes == EntrySizes(lane)
           c == 8 * (RelayerIdSize + 19)
           Size(k) == SumFunctionOnSet(sizes, 1..k)
           Messages(k) == SumFunctionOnSet(lane, 1..k)
           Bounded(k) == k <= Len(lane) =>
                           8 * Size(k) <= k * c + Messages(k) - k
           N == {k \in Nat : Bounded(k)}
<1>1. /\ TotalMessages(lane) = Messages(Len(lane))
      /\ TotalMessages(lane) \in Nat /\ Len(lane) \in Nat
      /\ IsFiniteSet(1..Len(lane)) /\ \A i \in 1..Len(lane) : lane[i] \in Nat \ {0}
  BY TotalIsSum
<1>2. ASSUME NEW i \in 1..Len(lane) PROVE lane[i] \in Nat \ {0} /\ lane[i] < 16384
  <2>1. {i} \in SUBSET (1..Len(lane)) /\ lane[i] \in Nat \ {0} /\ lane[i] \in Int
    BY <1>1
  <2>2. SumFunctionOnSet(lane, {i}) = lane[i]
    BY <2>1, SumSingleton
  <2>3. SumFunctionOnSet(lane, {i}) <= Messages(Len(lane))
    <3>1. \A x \in {i} : lane[x] \in Int /\ lane[x] <= lane[x]
      BY <2>1
    <3>2. \A x \in 1..Len(lane) : lane[x] \in Nat
      BY <1>1
    <3> QED BY <1>1, <2>1, <3>1, <3>2, SumMonotone
  <2> HIDE DEF Messages
  <2> QED BY <1>1, <2>1, <2>2, <2>3
<1>3. /\ DOMAIN sizes = 1..Len(lane)
      /\ \A i \in 1..Len(lane) : sizes[i] \in Nat /\ 8 * sizes[i] <= c + lane[i] - 1
  <2>1. DOMAIN sizes = 1..Len(lane)
    BY DEF EntrySizes
  <2>2. ASSUME NEW i \in 1..Len(lane)
        PROVE  sizes[i] \in Nat /\ 8 * sizes[i] <= c + lane[i] - 1
    <3>1. lane[i] \in Nat \ {0} /\ lane[i] < 16384
      BY <1>2
    <3>2. sizes[i] = EncodedEntrySize(lane[i])
      BY DEF EntrySizes
    <3>3. /\ EncodedEntrySize(lane[i]) \in Nat
          /\ 8 * EncodedEntrySize(lane[i]) <= 8 * (RelayerIdSize + 19) + lane[i] - 1
      <4> DEFINE n == lane[i]
      <4>1. n \in Nat \ {0} /\ n < 16384
        BY <3>1
      <4> HIDE DEF n
      <4>2. /\ EncodedEntrySize(n) \in Nat
            /\ 8 * EncodedEntrySize(n) <= 8 * (RelayerIdSize + 19) + n - 1
        BY <4>1, EntrySize
      <4> QED BY <4>2 DEF n
    <3> HIDE DEF sizes
    <3> QED BY <3>2, <3>3
  <2> HIDE DEF sizes, c
  <2> QED BY <2>1, <2>2
<1>4. c \in Nat
  BY LimitsAssumption
<1> HIDE DEF sizes, c
<1>5. ASSUME NEW k \in Nat, k <= Len(lane)
      PROVE  Size(k) \in Nat /\ Messages(k) \in Nat
  <2>1. \A i \in 1..k : sizes[i] \in Nat /\ lane[i] \in Nat
    BY <1>1, <1>3, <1>5
  <2>2. IsFiniteSet(1..k)
    BY FS_Interval
  <2> QED BY <2>1, <2>2, SumNat
<1>6. Bounded(0)
  <2>1. 1..0 = {}
    OBVIOUS
  <2>2. Size(0) = 0 /\ Messages(0) = 0
    BY <2>1, SumEmpty
  <2> QED BY <1>4, <2>2
<1>7. ASSUME NEW k \in Nat, Bounded(k) PROVE Bounded(k + 1)
  <2> SUFFICES ASSUME k + 1 <= Len(lane)
               PROVE  8 * Size(k + 1) <= (k + 1) * c + Messages(k + 1) - (k + 1)
    OBVIOUS
  <2>1. \A i \in 1..(k + 1) : sizes[i] \in Int /\ lane[i] \in Int
    BY <1>1, <1>3
  <2>2. Size(k + 1) = sizes[k + 1] + Size(k) /\ Messages(k + 1) = lane[k + 1] + Messages(k)
    BY <2>1, SumNext
  <2>3. sizes[k + 1] \in Nat /\ lane[k + 1] \in Nat /\ 8 * sizes[k + 1] <= c + lane[k + 1] - 1
    BY <1>1, <1>3
  <2>4. Size(k) \in Nat /\ Messages(k) \in Nat /\ 8 * Size(k) <= k * c + Messages(k) - k
    BY <1>1, <1>5, <1>7
  <2>5. (k + 1) * c = k * c + c /\ k * c \in Nat
    BY <1>4
  <2> DEFINE kc == k * c
             a == sizes[k + 1]
             b == lane[k + 1]
             x == Size(k)
             y == Messages(k)
             new == 8 * Size(k + 1) <= (k + 1) * c + Messages(k + 1) - (k + 1)
  <2>6. new <=> 8 * (a + x) <= (kc + c) + (b + y) - (k + 1)
    BY <2>2, <2>5
  <2>7. kc \in Nat /\ a \in Nat /\ b \in Nat /\ x \in Nat /\ y \in Nat
        /\ 8 * a <= c + b - 1 /\ 8 * x <= kc + y - k
    BY <2>3, <2>4, <2>5
  <2> HIDE DEF kc, a, b, x, y, new
  <2>8. new
    BY <1>4, <2>6, <2>7
  <2> QED BY <2>8 DEF new
<1>8. N = Nat
  <2> HIDE DEF Bounded
  <2>1. N \in SUBSET Nat /\ 0 \in N /\ \A k \in N : k + 1 \in N
    BY <1>6, <1>7
  <2> HIDE DEF N
  <2> QED BY <2>1, SetOfAllNumbers
<1>9. Bounded(Len(lane))
  <2> HIDE DEF Bounded
  <2> QED BY <1>1, <1>8
<1>10. 8 * Size(Len(lane)) <= Len(lane) * c + Messages(Len(lane)) - Len(lane)
  BY <1>1, <1>9
<1>11. SumFunction(sizes) = Size(Len(lane)) /\ Size(Len(lane)) \in Nat
  BY <1>1, <1>3, <1>5 DEF SumFunction
<1> HIDE DEF Size, Messages
<1> QED BY <1>1, <1>10, <1>11 DEF sizes, c

\* encoded_size_hint of the fullest lane and the reserve for the proof cover any lane.
LEMMA SizeHintCovers ==
    ASSUME NEW lane \in Entries,
           Len(lane) <= MaxRelayersInConfirmation,
           TotalMessages(lane) <= MaxMessagesInConfirmation + 1
    PROVE  /\ EncodedLaneSize(lane) + ProofOverhead
                <= EncodedSizeHint(MaxRelayersInConfirmation, MaxMessagesInConfirmation)
                     + EXTRA_STORAGE_PROOF_SIZE
           /\ EncodedLaneSize(lane) + ProofOverhead \in Nat
           /\ EncodedSizeHint(MaxRelayersInConfirmation, MaxMessagesInConfirmation) \in Nat
<1> DEFINE sum == SumFunction(EntrySizes(lane))
           r == RelayerIdSize
           E == MaxRelayersInConfirmation
           M == MaxMessagesInConfirmation
<1>1. /\ r \in Nat /\ E \in Nat /\ M \in Nat /\ ProofOverhead \in Nat
      /\ ProofOverhead + 3 * E + 5 <= 1024
  BY LimitsAssumption DEF EXTRA_STORAGE_PROOF_SIZE
<1>2. Len(lane) \in Nat /\ TotalMessages(lane) \in Nat
  BY TotalIsSum
<1>3. sum \in Nat /\ 8 * sum <= Len(lane) * (8 * (r + 19)) + TotalMessages(lane) - Len(lane)
  <2>1. TotalMessages(lane) < 16384
    <3>1. MaxMessagesInConfirmation \in Nat /\ MaxMessagesInConfirmation < 16383
      BY LimitsAssumption
    <3> QED BY <1>2, <3>1
  <2> QED BY <2>1, LaneSize
<1>4. CompactSize(Len(lane)) \in 1..4
  BY <1>2 DEF CompactSize
<1>5. EncodedLaneSize(lane) = CompactSize(Len(lane)) + 8 + sum
  BY DEF EncodedLaneSize, EntrySizes
<1> HIDE DEF sum
<1>6. Len(lane) * (8 * (r + 19)) <= E * (8 * (r + 19)) /\ Len(lane) * (8 * (r + 19)) \in Int
  <2>1. 8 * (r + 19) \in Int /\ 8 * (r + 19) > 0
    BY <1>1
  <2> QED BY <1>1, <1>2, <2>1, ProductMonotone
<1>7. E * (8 * (r + 19)) = 8 * (E * (r + 16)) + 24 * E /\ E * (r + 16) \in Nat
  BY <1>1
<1>8. 8 * sum <= 8 * (E * (r + 16)) + 24 * E + M + 1
  BY <1>1, <1>2, <1>3, <1>6, <1>7
<1> DEFINE A == E * (r + 16)
<1>9. sum <= A + 3 * E + (M \div 8) + 1
  <2>1. A \in Nat /\ 8 * sum <= 8 * A + 24 * E + M + 1
    BY <1>7, <1>8
  <2> HIDE DEF A
  <2> QED BY <1>1, <1>3, <2>1
<1>10. EncodedSizeHint(E, M) = A + 8 + Greater(E, M \div 8)
  BY DEF EncodedSizeHint
<1>11. Greater(E, M \div 8) \in Nat /\ Greater(E, M \div 8) >= M \div 8
  BY <1>1 DEF Greater
<1>12. A \in Nat
  BY <1>7
<1> DEFINE bits == M \div 8
           hint == Greater(E, bits)
           compact == CompactSize(Len(lane))
<1>13. /\ hint \in Nat /\ bits \in Nat /\ hint >= bits /\ compact \in 1..4
       /\ sum <= A + 3 * E + bits + 1
       /\ EncodedLaneSize(lane) = compact + 8 + sum
       /\ EncodedSizeHint(E, M) = A + 8 + hint
  BY <1>1, <1>4, <1>5, <1>9, <1>10, <1>11
<1> HIDE DEF A, bits, hint, compact, E, M
<1>14. /\ compact + 8 + sum + ProofOverhead <= A + 8 + hint + 1024
       /\ compact + 8 + sum + ProofOverhead \in Nat /\ A + 8 + hint \in Nat
  BY <1>1, <1>3, <1>12, <1>13
<1> QED BY <1>13, <1>14 DEF EXTRA_STORAGE_PROOF_SIZE, E, M

\* The weights of the confirmations that are benchmarked.
LEMMA ConfirmationWeightsType ==
    ASSUME NEW c \in CallCosts, NEW w, w = WeightInfo(c)
    PROVE  /\ w.receive_delivery_proof_for_single_message \in Int
           /\ w.receive_delivery_proof_for_two_messages_by_single_relayer \in Int
           /\ w.receive_delivery_proof_for_two_messages_by_two_relayers \in Int
<1> DEFINE proof == PrepareDeliveryProof(Minimal(0))
<1>1. BenchmarkProofOverhead \in Int
  BY BenchmarksAssumption
<1>2. proof \in Int
  BY <1>1 DEF PrepareDeliveryProof, GrowTrie, Minimal
<1>3. c.confirmation \in Int /\ c.confirmed \in Int /\ c.relayer \in Int /\ c.proof_byte \in Int
  BY DEF CallCosts
<1> HIDE DEF proof
<1>4. \A n \in Nat, r \in Nat : ConfirmationCost(c, n, r, proof) \in Int
  BY <1>2, <1>3 DEF ConfirmationCost
<1>5. \A n \in Nat, r \in Nat : ConfirmBenchmark(c, n, r) \in Int
  BY <1>4 DEF ConfirmBenchmark, proof
<1>6. /\ w.receive_delivery_proof_for_single_message = ConfirmBenchmark(c, 1, 1)
      /\ w.receive_delivery_proof_for_two_messages_by_single_relayer = ConfirmBenchmark(c, 2, 1)
      /\ w.receive_delivery_proof_for_two_messages_by_two_relayers = ConfirmBenchmark(c, 2, 2)
  BY DEF WeightInfo, receive_delivery_proof_for_single_message,
         receive_delivery_proof_for_two_messages_by_single_relayer,
         receive_delivery_proof_for_two_messages_by_two_relayers
<1> QED BY <1>5, <1>6

LEMMA ProductsMonotone ==
    ASSUME NEW a \in Nat, NEW b \in Nat, NEW c \in Nat, a <= b
    PROVE  a * c <= b * c /\ a * c \in Nat /\ b * c \in Nat
<1>1. CASE c = 0
  BY <1>1
<1>2. CASE c > 0
  BY <1>2, ProductMonotone
<1> QED BY <1>1, <1>2

\* A confirmation of fewer messages by fewer relayers in a smaller proof is no heavier.
LEMMA ConfirmationWeightMonotone ==
    ASSUME NEW c \in Costs, NEW w, w = WeightInfo(c), EnsureWeightsAreCorrect(w),
           NEW size \in Nat, NEW larger \in Nat, size <= larger,
           NEW m \in Nat, NEW M \in Nat, m <= M,
           NEW e \in Nat, NEW E \in Nat, e <= E
    PROVE  LET small == [unrewarded_relayer_entries |-> e, total_messages |-> m]
               full == [unrewarded_relayer_entries |-> E, total_messages |-> M]
           IN  ReceiveDeliveryProofWeight(w, size, small) <= ReceiveDeliveryProofWeight(w, larger, full)
<1> DEFINE k == (w.receive_single_message_proof_16_kb - w.receive_single_message_proof_1_kb)
                  \div (15 * 1024)
           a == SaturatingSub(w.receive_delivery_proof_for_two_messages_by_single_relayer,
                              w.receive_delivery_proof_for_single_message)
           b == SaturatingSub(w.receive_delivery_proof_for_two_messages_by_two_relayers,
                              w.receive_delivery_proof_for_two_messages_by_single_relayer)
           base == DeliveryProofOverhead(w)
           charged(s) == SaturatingSub(s, EXTRA_STORAGE_PROOF_SIZE)
           State(x, y) == [unrewarded_relayer_entries |-> x, total_messages |-> y]
<1>1. c \in CallCosts /\ DbWeight \in Nat
  BY LimitsAssumption
<1>2. /\ w.receive_single_message_proof_1_kb \in Int
      /\ w.receive_single_message_proof_16_kb \in Int
  BY <1>1, WeightsType
<1>3. /\ w.receive_delivery_proof_for_single_message \in Int
      /\ w.receive_delivery_proof_for_two_messages_by_single_relayer \in Int
      /\ w.receive_delivery_proof_for_two_messages_by_two_relayers \in Int
  BY <1>1, ConfirmationWeightsType
<1>4. k \in Int
  BY <1>2
<1>5. a \in Nat /\ b \in Nat /\ base \in Int
  BY <1>3 DEF SaturatingSub, DeliveryProofOverhead
<1>6. \A s \in Int : StorageProofSizeOverhead(w, s) = s * k
  BY DEF StorageProofSizeOverhead
<1>7. charged(size) \in Nat /\ charged(larger) \in Nat /\ charged(size) <= charged(larger)
  BY DEF SaturatingSub, EXTRA_STORAGE_PROOF_SIZE
<1> HIDE DEF k
<1>8. k \in Nat
  <2>1. StorageProofSizeOverhead(w, 1) > 0
    BY DEF EnsureWeightsAreCorrect
  <2> QED BY <1>4, <1>6, <2>1
<1>9. \A s, x, y :
        ReceiveDeliveryProofWeight(w, s, State(x, y))
          = base + y * a + x * b + StorageProofSizeOverhead(w, charged(s)) + y * DbWeight
  BY DEF ReceiveDeliveryProofWeight, DeliveryProofMessagesOverhead, DeliveryProofRelayersOverhead
<1> HIDE DEF a, b, base, charged, State
<1>10. /\ ReceiveDeliveryProofWeight(w, size, State(e, m))
            = base + m * a + e * b + charged(size) * k + m * DbWeight
       /\ ReceiveDeliveryProofWeight(w, larger, State(E, M))
            = base + M * a + E * b + charged(larger) * k + M * DbWeight
  BY <1>6, <1>7, <1>9
<1>11. m * a <= M * a /\ m * a \in Nat /\ M * a \in Nat
  BY <1>5, ProductsMonotone
<1>12. e * b <= E * b /\ e * b \in Nat /\ E * b \in Nat
  BY <1>5, ProductsMonotone
<1>13. charged(size) * k <= charged(larger) * k /\ charged(size) * k \in Nat /\ charged(larger) * k \in Nat
  BY <1>7, <1>8, ProductsMonotone
<1>14. m * DbWeight <= M * DbWeight /\ m * DbWeight \in Nat /\ M * DbWeight \in Nat
  BY <1>1, ProductsMonotone
<1>15. ReceiveDeliveryProofWeight(w, size, State(e, m)) <= ReceiveDeliveryProofWeight(w, larger, State(E, M))
  BY <1>5, <1>10, <1>11, <1>12, <1>13, <1>14
<1> QED BY <1>15 DEF State

LEMMA ConfirmationWeightType ==
    ASSUME NEW c \in Costs, NEW w, w = WeightInfo(c),
           NEW size \in Nat, NEW m \in Nat, NEW e \in Nat
    PROVE  ReceiveDeliveryProofWeight(w, size, [unrewarded_relayer_entries |-> e, total_messages |-> m])
             \in Int
<1>1. c \in CallCosts /\ DbWeight \in Nat
  BY LimitsAssumption
<1>2. /\ w.receive_single_message_proof_1_kb \in Int
      /\ w.receive_single_message_proof_16_kb \in Int
  BY <1>1, WeightsType
<1>3. /\ w.receive_delivery_proof_for_single_message \in Int
      /\ w.receive_delivery_proof_for_two_messages_by_single_relayer \in Int
      /\ w.receive_delivery_proof_for_two_messages_by_two_relayers \in Int
  BY <1>1, ConfirmationWeightsType
<1>4. /\ DeliveryProofOverhead(w) \in Int
      /\ DeliveryProofMessagesOverhead(w, m) \in Int /\ DeliveryProofRelayersOverhead(w, e) \in Int
  BY <1>3 DEF SaturatingSub, DeliveryProofOverhead, DeliveryProofMessagesOverhead,
              DeliveryProofRelayersOverhead
<1>5. SaturatingSub(size, EXTRA_STORAGE_PROOF_SIZE) \in Nat
  BY DEF SaturatingSub, EXTRA_STORAGE_PROOF_SIZE
<1>6. StorageProofSizeOverhead(w, SaturatingSub(size, EXTRA_STORAGE_PROOF_SIZE)) \in Int
  BY <1>2, <1>5 DEF StorageProofSizeOverhead
<1>7. m * DbWeight \in Int
  BY <1>1
<1> QED BY <1>4, <1>6, <1>7 DEF ReceiveDeliveryProofWeight

\* A lane with as many messages as the source has tested, or fewer, can be confirmed.
LEMMA LaneInvConfirms ==
    ASSUME LaneInv, TotalMessages(entries) <= MaxMessagesInConfirmation
    PROVE  ConfirmationFits(entries)
<1> DEFINE proof_size == EncodedLaneSize(entries) + ProofOverhead
           E == MaxRelayersInConfirmation
           M == MaxMessagesInConfirmation
           tested_size == EncodedSizeHint(E, M) + EXTRA_STORAGE_PROOF_SIZE
           full == [unrewarded_relayer_entries |-> E, total_messages |-> M]
<1>1. PICK limits \in ChainLimits, lane \in LaneLimits, c \in Costs :
        source = Runtime(limits, lane, c) /\ EnsureWeightsAreCorrect(WeightInfo(c))
  BY DEF LaneInv, SourceRuntimes, Runtimes
<1>2. source.weights = WeightInfo(c)
  BY <1>1 DEF Runtime
<1>3. source.max_extrinsic_size \in Int /\ source.max_extrinsic_weight \in Int
  BY <1>1, LimitsType DEF Runtime
<1>4. proof_size <= tested_size /\ proof_size \in Nat /\ EncodedSizeHint(E, M) \in Nat
  <2>1. TotalMessages(entries) <= M + 1
    BY TotalIsSum, LimitsAssumption DEF LaneInv
  <2> QED BY <2>1, SizeHintCovers DEF LaneInv
<1>5. /\ Len(entries) \in Nat /\ TotalMessages(entries) \in Nat /\ E \in Nat /\ M \in Nat
      /\ Len(entries) <= E /\ TotalMessages(entries) <= M
  BY TotalIsSum, LimitsAssumption DEF LaneInv
<1>6. TransactionOverhead \in 0..1024
  BY LimitsAssumption DEF SIGNED_EXTENSIONS_SIZE
<1>7. /\ tested_size + 1024 <= source.max_extrinsic_size
      /\ ReceiveDeliveryProofWeight(source.weights, tested_size, full) <= source.max_extrinsic_weight
  BY DEF LaneInv, SourceRuntimes, EnsureAbleToReceiveConfirmation, Fits, SIGNED_EXTENSIONS_SIZE
<1>8. tested_size \in Nat
  BY <1>4 DEF EXTRA_STORAGE_PROOF_SIZE
<1> HIDE DEF proof_size, tested_size, E, M
<1> DEFINE declared == ReceiveDeliveryProofWeight(source.weights, proof_size, RelayersState(entries))
           tested == ReceiveDeliveryProofWeight(source.weights, tested_size, full)
<1>9. declared <= tested
  BY <1>1, <1>2, <1>4, <1>5, <1>8, ConfirmationWeightMonotone, ZenonT(30) DEF RelayersState
<1>10. declared \in Int /\ tested \in Int
  <2>1. \A s \in Nat, e \in Nat, m \in Nat :
          ReceiveDeliveryProofWeight(source.weights, s, [unrewarded_relayer_entries |-> e, total_messages |-> m]) \in Int
    BY <1>1, <1>2, ConfirmationWeightType
  <2> QED BY <1>4, <1>5, <1>8, <2>1 DEF RelayersState
<1> HIDE DEF declared, tested
<1>11. declared <= source.max_extrinsic_weight
  <2>1. tested <= source.max_extrinsic_weight
    BY <1>7 DEF tested
  <2> QED BY <1>3, <1>9, <1>10, <2>1
<1>12. proof_size + TransactionOverhead <= source.max_extrinsic_size
  BY <1>3, <1>4, <1>6, <1>7, <1>8
<1> QED BY <1>11, <1>12 DEF ConfirmationFits, Fits, declared, proof_size

\* Adding n messages to one entry changes that entry alone.
LEMMA EntryGrows ==
    ASSUME NEW I, NEW f \in [I -> Nat \ {0}], NEW k \in I, NEW n \in Nat \ {0}
    PROVE  /\ [f EXCEPT ![k] = @ + n] \in [I -> Nat \ {0}]
           /\ [f EXCEPT ![k] = @ + n][k] = f[k] + n
           /\ \A i \in I \ {k} : [f EXCEPT ![k] = @ + n][i] = f[i]
           /\ \A i \in I : f[i] \in Int /\ [f EXCEPT ![k] = @ + n][i] \in Int
<1>1. f[k] \in Nat \ {0}
  OBVIOUS
<1>2. f[k] + n \in Nat \ {0}
  BY <1>1
<1>3. [f EXCEPT ![k] = @ + n] \in [I -> Nat \ {0}]
  BY <1>2
<1>4. \A i \in I : f[i] \in Int
  OBVIOUS
<1>5. \A i \in I : [f EXCEPT ![k] = @ + n][i] \in Int
  BY <1>3
<1> QED BY <1>3, <1>4, <1>5

\* Deliveries keep within the limits of the lane, whatever the target was upgraded to.
LEMMA DeliveryKeepsLane ==
    ASSUME LimitsInv, LaneInv, NEW n \in 1..MaxOutbox, NEW newEntry \in BOOLEAN,
           DeliverMessages(n, newEntry)
    PROVE  LaneInv'
<1>1. /\ Len(entries) < target.lane.max_entries
      /\ TotalMessages(entries) - confirmed + n <= target.lane.max_messages
      /\ confirmed' = confirmed /\ received' = received
      /\ entries' = IF newEntry THEN Append(entries, n)
                    ELSE [entries EXCEPT ![Len(entries)] = @ + n]
      /\ source' = source
      /\ newEntry \/ entries # <<>>
  BY DEF DeliverMessages, AcceptsMessages
<1>2. /\ TotalMessages(entries) = SumFunctionOnSet(entries, 1..Len(entries))
      /\ TotalMessages(entries) \in Nat /\ Len(entries) \in Nat
      /\ IsFiniteSet(1..Len(entries)) /\ \A i \in 1..Len(entries) : entries[i] \in Nat \ {0}
  BY TotalIsSum DEF LaneInv
<1>3. entries \in Entries /\ n \in Nat \ {0}
  BY DEF LaneInv
<1>4. /\ target.lane.max_entries \in Nat /\ target.lane.max_messages \in Nat
      /\ target.lane.max_entries <= MaxRelayersInConfirmation
      /\ target.lane.max_messages <= MaxMessagesInConfirmation
  <2>1. PICK limits \in ChainLimits, lane \in LaneLimits, c \in Costs :
          target = Runtime(limits, lane, c) /\ AssertMessagesPalletConstants(lane)
    BY DEF LimitsInv, TargetRuntimes, Runtimes
  <2>2. target.lane = lane
    BY <2>1 DEF Runtime
  <2> QED BY <2>1, <2>2, LimitsAssumption DEF AssertMessagesPalletConstants
<1>5. /\ entries' \in Entries /\ Len(entries') <= Len(entries) + 1
      /\ TotalMessages(entries') = TotalMessages(entries) + n
  <2>1. CASE newEntry
    <3>1. entries' = Append(entries, n)
      BY <1>1, <2>1
    <3>2. /\ entries' \in Entries /\ Len(entries') = Len(entries) + 1
          /\ \A i \in 1..Len(entries) : entries'[i] = entries[i]
          /\ entries'[Len(entries) + 1] = n
      BY <1>3, <3>1, AppendProperties DEF Entries
    <3> DEFINE I == 1..Len(entries)
               new == Len(entries) + 1
    <3>3. \A i \in I : entries[i] \in Int /\ entries'[i] = entries[i]
      BY <1>2, <3>2
    <3>4. /\ new \notin I /\ IsFiniteSet(I) /\ entries'[new] = n /\ n \in Int
          /\ 1..Len(entries') = I \cup {new}
      BY <1>2, <1>3, <3>2
    <3>5. TotalMessages(entries') = SumFunctionOnSet(entries', I \cup {new})
      BY <3>2, <3>4, TotalIsSum
    <3> HIDE DEF I, new
    <3>6. SumFunctionOnSet(entries', I \cup {new}) = n + SumFunctionOnSet(entries, I)
      BY <3>3, <3>4, SumExtend
    <3>7. TotalMessages(entries) = SumFunctionOnSet(entries, I)
      BY <1>2 DEF I
    <3>8. TotalMessages(entries') = n + TotalMessages(entries)
      BY <3>5, <3>6, <3>7
    <3>9. TotalMessages(entries') = TotalMessages(entries) + n
      BY <1>2, <1>3, <3>8
    <3>10. Len(entries') <= Len(entries) + 1
      BY <1>2, <3>2
    <3> QED BY <3>2, <3>9, <3>10
  <2>2. CASE ~newEntry
    <3> DEFINE last == Len(entries)
               I == 1..Len(entries)
    <3>1. entries' = [entries EXCEPT ![last] = @ + n] /\ entries # <<>>
      BY <1>1, <2>2
    <3>2. last \in I
      BY <1>2, <1>3, <3>1, EmptySeq DEF Entries
    <3>3. entries \in [I -> Nat \ {0}]
      BY <1>3, LenProperties DEF Entries
    <3>4. /\ entries' \in [I -> Nat \ {0}]
          /\ entries'[last] = entries[last] + n
          /\ \A i \in I \ {last} : entries'[i] = entries[i]
          /\ \A i \in I : entries[i] \in Int /\ entries'[i] \in Int
      <4> HIDE DEF I, last
      <4>1. n \in Nat \ {0}
        BY <1>3
      <4> QED BY <3>1, <3>2, <3>3, <4>1, EntryGrows
    <3>5. entries' \in Entries /\ Len(entries') = Len(entries)
      BY <1>2, <3>4, LenProperties DEF Entries
    <3>6. \A i \in I : entries[i] \in Int /\ entries'[i] \in Int
      BY <3>4
    <3>7. IsFiniteSet(I) /\ TotalMessages(entries) = SumFunctionOnSet(entries, I)
      BY <1>2
    <3>8. TotalMessages(entries') = SumFunctionOnSet(entries', I)
      BY <3>5, TotalIsSum
    <3>9. entries[last] \in Nat
      BY <1>2, <3>2
    <3> HIDE DEF I, last
    <3>10. SumFunctionOnSet(entries', I) = SumFunctionOnSet(entries, I) - entries[last] + entries'[last]
      BY <3>2, <3>4, <3>6, <3>7, SumChange
    <3>11. TotalMessages(entries') = TotalMessages(entries) + n
      BY <1>2, <1>3, <3>4, <3>7, <3>8, <3>9, <3>10
    <3>12. Len(entries') <= Len(entries) + 1
      BY <1>2, <3>5
    <3> QED BY <3>5, <3>11, <3>12
  <2> QED BY <2>1, <2>2
<1>6. Len(entries') \in Nat /\ MaxRelayersInConfirmation \in Nat /\ MaxMessagesInConfirmation \in Nat
  BY <1>5, TotalIsSum, LimitsAssumption
<1>7. Len(entries') <= MaxRelayersInConfirmation
  BY <1>1, <1>2, <1>4, <1>5, <1>6
<1>8. /\ TotalMessages(entries') <= MaxMessagesInConfirmation + confirmed'
      /\ confirmed' \in 0..1 /\ received' \in confirmed'..TotalMessages(entries')
  <2>1. confirmed \in 0..1 /\ received \in confirmed..TotalMessages(entries)
    BY DEF LaneInv
  <2> QED BY <1>1, <1>2, <1>3, <1>4, <1>5, <1>6, <2>1
<1>9. source' \in SourceRuntimes
  BY <1>1 DEF LaneInv
<1>10. TotalMessages(entries)' = TotalMessages(entries')
  BY DEF TotalMessages
<1> QED BY <1>5, <1>7, <1>8, <1>9, <1>10 DEF LaneInv

\* The sum over an interval is the sum over its two parts.
LEMMA SumSplit ==
    ASSUME NEW f, NEW k \in Nat, NEW n \in Nat, k <= n, \A i \in 1..n : f[i] \in Int
    PROVE  SumFunctionOnSet(f, 1..n) = SumFunctionOnSet(f, 1..k) + SumFunctionOnSet(f, (k + 1)..n)
<1> DEFINE Splits(j) ==
             SumFunctionOnSet(f, 1..j) = SumFunctionOnSet(f, 1..k) + SumFunctionOnSet(f, (k + 1)..j)
           S == {j \in k..n : Splits(j)}
<1>1. ASSUME NEW a \in Nat \ {0}, NEW j \in 0..n PROVE SumFunctionOnSet(f, a..j) \in Int
  <2>1. IsFiniteSet(a..j)
    BY FS_Interval
  <2>2. \A i \in a..j : f[i] \in Int
    OBVIOUS
  <2> QED BY <2>1, <2>2, SumInt
<1>2. k \in S
  <2>1. (k + 1)..k = {} /\ SumFunctionOnSet(f, {}) = 0
    BY SumEmpty
  <2>2. SumFunctionOnSet(f, 1..k) \in Int
    BY <1>1
  <2> QED BY <2>1, <2>2
<1>3. ASSUME NEW j \in k..n, Splits(j), j < n PROVE Splits(j + 1) /\ j + 1 \in k..n
  <2>1. j \in 0..n /\ j \in Int /\ j + 1 \in 1..n /\ 1 <= j + 1 /\ k + 1 <= j + 1 /\ k \in 0..n
    BY <1>3
  <2>2. \A i \in 1..(j + 1) : f[i] \in Int
    <3>1. 1..(j + 1) \subseteq 1..n
      BY <2>1
    <3> QED BY <3>1
  <2>3. \A i \in (k + 1)..(j + 1) : f[i] \in Int
    <3>1. (k + 1)..(j + 1) \subseteq 1..n
      BY <2>1
    <3> QED BY <3>1
  <2>4. SumFunctionOnSet(f, 1..(j + 1)) = f[j + 1] + SumFunctionOnSet(f, 1..j)
    BY ONLY <2>1, <2>2, SumNext
  <2>5. SumFunctionOnSet(f, (k + 1)..(j + 1)) = f[j + 1] + SumFunctionOnSet(f, (k + 1)..j)
    BY ONLY <2>1, <2>3, k \in Nat, SumNext
  <2>6. /\ SumFunctionOnSet(f, 1..j) \in Int /\ SumFunctionOnSet(f, 1..k) \in Int
        /\ SumFunctionOnSet(f, (k + 1)..j) \in Int /\ f[j + 1] \in Int
    BY <1>1, <2>1
  <2>7. Splits(j + 1)
    BY ONLY <1>3, <2>4, <2>5, <2>6
  <2> QED BY <2>1, <2>7
<1>4. \A j \in k..n : j \in S /\ j < n => j + 1 \in S
  BY <1>3
<1> HIDE DEF S
<1>5. \A j \in k..n : j \in S
  BY ONLY <1>2, <1>4, k \in Nat, n \in Nat, k <= n, SetOfInterval
<1> QED BY <1>5 DEF S

\* What the first n entries have, and the ones after them.
LEMMA EntriesSplit ==
    ASSUME NEW lane \in Entries, NEW n \in 0..Len(lane)
    PROVE  /\ SubSeq(lane, n + 1, Len(lane)) \in Entries
           /\ Len(SubSeq(lane, n + 1, Len(lane))) = Len(lane) - n
           /\ \A i \in 1..(Len(lane) - n) : SubSeq(lane, n + 1, Len(lane))[i] = lane[n + i]
           /\ TotalMessages(SubSeq(lane, 1, n)) \in Nat
           /\ TotalMessages(SubSeq(lane, n + 1, Len(lane))) \in Nat
           /\ TotalMessages(lane)
                = TotalMessages(SubSeq(lane, 1, n)) + TotalMessages(SubSeq(lane, n + 1, Len(lane)))
<1> DEFINE len == Len(lane)
           m == len - n
           first == SubSeq(lane, 1, n)
           rest == SubSeq(lane, n + 1, len)
<1>1. /\ TotalMessages(lane) = SumFunctionOnSet(lane, 1..len)
      /\ TotalMessages(lane) \in Nat /\ len \in Nat
      /\ \A i \in 1..len : lane[i] \in Nat \ {0}
  BY TotalIsSum
<1>2. rest \in Entries /\ Len(rest) = m /\ \A i \in 1..m : rest[i] = lane[n + i]
  BY <1>1, SubSeqProperties, SMTT(40) DEF Entries
<1>3. first \in Entries /\ Len(first) = n /\ \A i \in 1..n : first[i] = lane[i]
  BY <1>1, SubSeqProperties, SMTT(40) DEF Entries
<1>4. \A i \in 1..len : lane[i] \in Int
  BY <1>1
<1>5. n \in Nat /\ m \in Nat /\ n <= len /\ n + m = len
  BY <1>1
<1>6. TotalMessages(first) = SumFunctionOnSet(first, 1..n) /\ TotalMessages(first) \in Nat
  BY <1>3, TotalIsSum
<1>7. TotalMessages(rest) = SumFunctionOnSet(rest, 1..m) /\ TotalMessages(rest) \in Nat
  BY <1>2, TotalIsSum
<1>8. \A i \in (n + 1)..(n + m) : lane[i] \in Int
  BY <1>4, <1>5
<1>9. IsFiniteSet(1..n)
  BY <1>5, FS_Interval
<1> HIDE DEF first, rest, m, len
<1>10. SumFunctionOnSet(first, 1..n) = SumFunctionOnSet(lane, 1..n)
  BY <1>3, <1>9, SumSame
<1>11. SumFunctionOnSet(rest, 1..m) = SumFunctionOnSet(lane, (n + 1)..len)
  <2>1. SumFunctionOnSet(rest, 1..m) = SumFunctionOnSet(lane, (n + 1)..(n + m))
    <3>1. IsPart(rest, lane, n, m)
      BY <1>2, <1>8 DEF IsPart
    <3> QED BY <1>5, <3>1, SumShift
  <2> QED BY <1>5, <2>1
<1>12. SumFunctionOnSet(lane, 1..len)
         = SumFunctionOnSet(lane, 1..n) + SumFunctionOnSet(lane, (n + 1)..len)
  BY <1>1, <1>4, <1>5, SumSplit
<1>13. TotalMessages(lane) = TotalMessages(first) + TotalMessages(rest)
  BY <1>1, <1>6, <1>7, <1>10, <1>11, <1>12
<1> QED BY <1>2, <1>6, <1>7, <1>13 DEF first, rest, m, len

\* The first entries, with one more.
LEMMA FirstEntries ==
    ASSUME NEW lane \in Entries, NEW n \in 0..Len(lane), n < Len(lane)
    PROVE  TotalMessages(SubSeq(lane, 1, n + 1)) = TotalMessages(SubSeq(lane, 1, n)) + lane[n + 1]
<1> DEFINE longer == SubSeq(lane, 1, n + 1)
           first == SubSeq(lane, 1, n)
<1>1. Len(lane) \in Nat /\ \A i \in 1..Len(lane) : lane[i] \in Nat \ {0}
  BY TotalIsSum
<1>2. longer \in Entries /\ Len(longer) = n + 1 /\ \A i \in 1..(n + 1) : longer[i] = lane[i]
  BY <1>1, SubSeqProperties, SMTT(40) DEF Entries
<1>3. first \in Entries /\ Len(first) = n /\ \A i \in 1..n : first[i] = lane[i]
  BY <1>1, SubSeqProperties, SMTT(40) DEF Entries
<1>4. TotalMessages(longer) = SumFunctionOnSet(longer, 1..(n + 1))
  BY <1>2, TotalIsSum
<1>5. TotalMessages(first) = SumFunctionOnSet(first, 1..n) /\ TotalMessages(first) \in Nat
  BY <1>3, TotalIsSum
<1>6. lane[n + 1] \in Int /\ longer[n + 1] = lane[n + 1] /\ \A i \in 1..(n + 1) : longer[i] \in Int
  BY <1>1, <1>2
<1>7. IsFiniteSet(1..n) /\ \A i \in 1..n : longer[i] = first[i]
  BY <1>2, <1>3, FS_Interval
<1> HIDE DEF longer, first
<1>8. SumFunctionOnSet(longer, 1..(n + 1)) = longer[n + 1] + SumFunctionOnSet(longer, 1..n)
  BY <1>6, SumNext
<1>9. SumFunctionOnSet(longer, 1..n) = SumFunctionOnSet(first, 1..n)
  BY <1>7, SumSame
<1> QED BY <1>4, <1>5, <1>6, <1>8, <1>9 DEF longer, first

\* The first entry loses some of its messages.
LEMMA EntryTrimmed ==
    ASSUME NEW lane \in Entries, Len(lane) > 0, NEW k \in Nat, k < lane[1]
    PROVE  /\ [lane EXCEPT ![1] = @ - k] \in Entries
           /\ Len([lane EXCEPT ![1] = @ - k]) = Len(lane)
           /\ TotalMessages([lane EXCEPT ![1] = @ - k]) = TotalMessages(lane) - k
<1> DEFINE I == 1..Len(lane)
           trimmed == [lane EXCEPT ![1] = @ - k]
<1>1. /\ TotalMessages(lane) = SumFunctionOnSet(lane, I)
      /\ TotalMessages(lane) \in Nat /\ Len(lane) \in Nat
      /\ IsFiniteSet(I) /\ \A i \in I : lane[i] \in Nat \ {0}
  BY TotalIsSum
<1>2. lane \in [I -> Nat \ {0}] /\ 1 \in I
  BY <1>1, LenProperties DEF Entries
<1>3. lane[1] \in Nat \ {0}
  BY <1>2
<1>4. lane[1] - k \in Nat \ {0}
  BY <1>3
<1>5. trimmed \in [I -> Nat \ {0}]
  BY <1>2, <1>4
<1>6. trimmed[1] = lane[1] - k /\ \A i \in I \ {1} : trimmed[i] = lane[i]
  BY <1>2
<1>7. trimmed \in Entries /\ Len(trimmed) = Len(lane)
  BY <1>1, <1>5, LenProperties DEF Entries
<1>8. TotalMessages(trimmed) = SumFunctionOnSet(trimmed, I)
  BY <1>7, TotalIsSum
<1>9. \A i \in I : lane[i] \in Int /\ trimmed[i] \in Int
  BY <1>1, <1>5
<1> HIDE DEF I, trimmed
<1>10. SumFunctionOnSet(trimmed, I) = SumFunctionOnSet(lane, I) - lane[1] + trimmed[1]
  BY <1>1, <1>2, <1>6, <1>9, SumChange
<1>11. TotalMessages(trimmed) = TotalMessages(lane) - k
  BY <1>1, <1>3, <1>6, <1>8, <1>10
<1> QED BY <1>7, <1>11 DEF trimmed

\* A state update takes the confirmed messages out of the lane, but for one at most.
LEMMA UpdateKeepsLane ==
    ASSUME LaneInv, NEW gone \in 0..Len(entries), ReceiveStateUpdate(gone)
    PROVE  LaneInv'
<1> DEFINE partly == received - FirstMessages(gone)
           left == SubSeq(entries, gone + 1, Len(entries))
           M == MaxMessagesInConfirmation
           E == MaxRelayersInConfirmation
<1>1. /\ confirmed < received /\ 0 <= partly
      /\ gone < Len(entries) => received < FirstMessages(gone + 1)
      /\ entries' = IF partly > 1 THEN [left EXCEPT ![1] = @ - partly] ELSE left
      /\ confirmed' = IF partly > 1 THEN 0 ELSE partly
      /\ received' = confirmed' /\ source' = source
  BY DEF ReceiveStateUpdate
<1>2. /\ entries \in Entries /\ Len(entries) <= E /\ confirmed \in 0..1
      /\ received \in confirmed..TotalMessages(entries)
      /\ TotalMessages(entries) <= M + confirmed
      /\ source \in SourceRuntimes
  BY DEF LaneInv
<1>3. E \in Nat /\ M \in Nat /\ Len(entries) \in Nat /\ TotalMessages(entries) \in Nat
  BY <1>2, TotalIsSum, LimitsAssumption
<1>4. /\ left \in Entries /\ Len(left) = Len(entries) - gone
      /\ \A i \in 1..(Len(entries) - gone) : left[i] = entries[gone + i]
      /\ FirstMessages(gone) \in Nat /\ TotalMessages(left) \in Nat
      /\ TotalMessages(entries) = FirstMessages(gone) + TotalMessages(left)
  BY <1>2, EntriesSplit DEF FirstMessages
<1>5. partly \in Nat /\ TotalMessages(left) = TotalMessages(entries) - received + partly
  BY <1>1, <1>2, <1>3, <1>4
<1>6. ASSUME gone < Len(entries) PROVE partly < left[1] /\ Len(left) > 0 /\ left[1] \in Nat
  <2>1. FirstMessages(gone + 1) = FirstMessages(gone) + entries[gone + 1]
    BY <1>2, <1>6, FirstEntries DEF FirstMessages
  <2>2. left[1] = entries[gone + 1] /\ Len(left) > 0
    BY <1>3, <1>4, <1>6
  <2>3. left[1] \in Nat
    <3>1. \A i \in 1..Len(left) : left[i] \in Nat \ {0}
      BY <1>4, TotalIsSum
    <3>2. 1 \in 1..Len(left)
      BY <1>3, <1>4, <2>2
    <3> QED BY <3>1, <3>2
  <2> QED BY <1>1, <1>2, <1>3, <1>4, <1>6, <2>1, <2>2, <2>3
<1>7. ASSUME gone = Len(entries) PROVE partly = 0
  <2>1. Len(left) = 0
    BY <1>3, <1>4, <1>7
  <2>2. TotalMessages(left) = 0
    <3>1. TotalMessages(left) = SumFunctionOnSet(left, 1..0)
      BY <1>4, <2>1, TotalIsSum
    <3>2. 1..0 = {}
      OBVIOUS
    <3> QED BY <3>1, <3>2, SumEmpty
  <2> QED BY <1>2, <1>3, <1>5, <2>2
<1>8. partly > 0 => partly < left[1] /\ Len(left) > 0
  BY <1>3, <1>5, <1>6, <1>7
<1>9. partly <= TotalMessages(left)
  BY <1>2, <1>3, <1>5
<1> HIDE DEF partly, left, M, E
<1>10. /\ entries' \in Entries /\ Len(entries') <= E
       /\ confirmed' \in 0..1 /\ received' \in confirmed'..TotalMessages(entries')
       /\ TotalMessages(entries') <= M + confirmed'
  <2>1. CASE partly > 1
    <3>1. /\ entries' = [left EXCEPT ![1] = @ - partly] /\ confirmed' = 0 /\ received' = 0
      BY <1>1, <2>1
    <3>2. /\ entries' \in Entries /\ Len(entries') = Len(left)
          /\ TotalMessages(entries') = TotalMessages(left) - partly
      <4>1. left \in Entries /\ Len(left) > 0 /\ partly \in Nat /\ partly < left[1]
        BY <1>4, <1>5, <1>8, <2>1
      <4> QED BY ONLY <3>1, <4>1, EntryTrimmed
    <3>3. TotalMessages(entries') \in Nat
      BY <3>2, TotalIsSum
    <3> DEFINE total == TotalMessages(entries')
               old == TotalMessages(entries)
    <3>4. /\ total \in Nat /\ old \in Nat /\ total = old - received /\ confirmed < received
          /\ confirmed \in 0..1 /\ received \in Nat /\ old <= M + confirmed /\ M \in Nat
      BY <1>1, <1>2, <1>3, <1>4, <1>5, <3>2, <3>3
    <3>5. Len(entries') <= E
      BY <1>2, <1>3, <1>4, <3>2
    <3> HIDE DEF total, old
    <3>6. total <= M
      BY ONLY <3>4
    <3> QED BY <3>1, <3>2, <3>4, <3>5, <3>6 DEF total
  <2>2. CASE ~(partly > 1)
    <3>1. entries' = left /\ confirmed' = partly /\ received' = partly
      BY <1>1, <2>2
    <3> DEFINE total == TotalMessages(left)
               old == TotalMessages(entries)
    <3>2. /\ total \in Nat /\ old \in Nat /\ total = old - received + partly /\ confirmed < received
          /\ confirmed \in 0..1 /\ received \in Nat /\ old <= M + confirmed /\ M \in Nat
          /\ partly \in Nat /\ partly <= total
      BY <1>1, <1>2, <1>3, <1>4, <1>5, <1>9
    <3>3. Len(left) <= E
      BY <1>2, <1>3, <1>4
    <3> HIDE DEF total, old
    <3>4. total <= M + partly /\ partly \in 0..1 /\ partly \in partly..total
      BY ONLY <2>2, <3>2
    <3> QED BY <1>4, <3>1, <3>3, <3>4 DEF total
  <2> QED BY <2>1, <2>2
<1>11. TotalMessages(entries)' = TotalMessages(entries')
  BY DEF TotalMessages
<1> QED BY <1>1, <1>2, <1>10, <1>11 DEF LaneInv, M, E

LEMMA InitLaneInv == Init => LaneInv
<1> SUFFICES ASSUME Init PROVE LaneInv
  OBVIOUS
<1>1. entries = <<>> /\ confirmed = 0 /\ received = 0 /\ source \in SourceRuntimes
  BY DEF Init
<1>2. entries \in Entries /\ Len(entries) = 0 /\ 1..Len(entries) = {}
  BY <1>1, EmptySeq DEF Entries
<1>3. TotalMessages(entries) = 0
  BY <1>2, TotalIsSum, SumEmpty
<1>4. MaxRelayersInConfirmation \in Nat /\ MaxMessagesInConfirmation \in Nat
  BY LimitsAssumption
<1> QED BY <1>1, <1>2, <1>3, <1>4 DEF LaneInv

LEMMA NextLaneInv == LimitsInv /\ LaneInv /\ [Next]_vars => LaneInv'
<1> SUFFICES ASSUME LimitsInv, LaneInv, [Next]_vars PROVE LaneInv'
  OBVIOUS
<1>1. ASSUME NEW n \in 1..MaxOutbox, NEW newEntry \in BOOLEAN, DeliverMessages(n, newEntry)
      PROVE  LaneInv'
  BY <1>1, DeliveryKeepsLane
<1>2. ASSUME NEW gone \in 0..Len(entries), ReceiveStateUpdate(gone) PROVE LaneInv'
  BY <1>2, UpdateKeepsLane
<1>3. ASSUME UNCHANGED <<source, lane_vars>> PROVE LaneInv'
  BY <1>3 DEF LaneInv, TotalMessages, lane_vars
<1>4. CASE \/ \E message \in SomeMessages : SendMessage(message)
           \/ \E runtime \in TargetRuntimes : UpgradeTarget(runtime)
           \/ \E constants \in ChainLimits : UpgradeSource(constants)
           \/ UNCHANGED vars
  BY <1>3, <1>4 DEF SendMessage, UpgradeTarget, UpgradeSource, vars, lane_vars
<1>5. CASE ConfirmMessages
  <2>1. /\ received' = TotalMessages(entries) /\ UNCHANGED <<source, entries, confirmed>>
        /\ received < TotalMessages(entries)
    BY <1>5 DEF ConfirmMessages
  <2>2. TotalMessages(entries)' = TotalMessages(entries)
    BY <2>1 DEF TotalMessages
  <2>3. TotalMessages(entries) \in Nat
    BY TotalIsSum DEF LaneInv
  <2> QED BY <2>1, <2>2, <2>3 DEF LaneInv
<1> QED BY <1>1, <1>2, <1>4, <1>5 DEF Next

-----------------------------------------------------------------------------
(* The weights that are extrapolated from the benchmarks, and the time. *)

LEMMA Quotient ==
    ASSUME NEW s \in Nat \ {0}, NEW q \in Int, NEW r \in Int, 0 <= r, r < s
    PROVE  (s * q + r) \div s = q
OBVIOUS

\* The proofs of the benchmarks of 1 KB and 16 KB differ by 15 KB.
LEMMA ExtraNodes ==
    GrowTrie(BenchmarkProofOverhead, HasExtraNodes(16 * 1024))
      - GrowTrie(BenchmarkProofOverhead, HasExtraNodes(1024)) = 15 * 1024
<1> DEFINE s == GrowStep
           B == BenchmarkProofOverhead
           d == 1024 - B
           q == (15 * 1024) \div s
           e == d \div s
           r == d % s
<1>1. s \in Nat \ {0} /\ B \in Nat /\ d \in Nat /\ 15360 % s = 0
  BY ProofSizesAssumption, BenchmarksAssumption
<1> HIDE DEF s, B, d
<1>2. q \in Int /\ 15360 = s * q
  BY <1>1
<1>3. e \in Int /\ r \in Int /\ d = s * e + r /\ 0 <= r /\ r < s
  BY <1>1
<1> HIDE DEF e, r, q
<1>4. 15360 + d = s * (q + e) + r
  <2>1. s * (q + e) = s * q + s * e
    BY <1>1, <1>2, <1>3
  <2>2. s * e \in Int /\ s * q \in Int
    BY <1>1, <1>2, <1>3
  <2> QED BY <1>1, <1>2, <1>3, <2>1, <2>2
<1>5. (15360 + d) \div s = q + e
  <2> DEFINE k == q + e
  <2>1. k \in Int
    BY <1>2, <1>3
  <2> HIDE DEF k
  <2>2. (s * k + r) \div s = k
    BY <1>1, <1>3, <2>1, Quotient
  <2>3. 15360 + d = s * k + r
    BY <1>4 DEF k
  <2>4. (15360 + d) \div s = k
    BY <2>2, <2>3
  <2> QED BY <2>4 DEF k
<1>6. 16384 - B = 15360 + d /\ 1024 - B = d /\ ~(B > 1024) /\ ~(B > 16384)
  BY <1>1 DEF d
<1>7. /\ GrowTrie(B, HasExtraNodes(16384)) = B + s * (q + e + 1)
      /\ GrowTrie(B, HasExtraNodes(1024)) = B + s * (e + 1)
  BY <1>5, <1>6 DEF GrowTrie, HasExtraNodes, e, s
<1>8. s * (q + e + 1) = s * q + s * e + s /\ s * (e + 1) = s * e + s /\ s * e \in Int /\ s * q \in Int
  BY <1>1, <1>2, <1>3
<1>9. GrowTrie(B, HasExtraNodes(16384)) - GrowTrie(B, HasExtraNodes(1024)) = 15360
  BY <1>1, <1>2, <1>7, <1>8
<1> QED BY <1>9 DEF B

\* The products of the costs with numbers.
LEMMA CostProducts ==
    ASSUME NEW c \in CallCosts
    PROVE  /\ c.send \in Nat /\ c.send_byte \in Nat /\ c.prune \in Nat /\ c.delivery \in Nat
           /\ c.message \in Nat /\ c.lane_state \in Nat /\ c.pay_fee \in Nat /\ c.confirmation \in Nat
           /\ c.confirmed \in Nat /\ c.relayer \in Nat /\ c.proof_byte \in Nat
BY DEF CallCosts

\* A byte of a proof weighs what it takes.
LEMMA ByteWeight ==
    ASSUME NEW c \in CallCosts, NEW w, w = WeightInfo(c), NEW bytes \in Int
    PROVE  StorageProofSizeOverhead(w, bytes) = bytes * c.proof_byte
<1> DEFINE B == BenchmarkProofOverhead
           large == GrowTrie(B, HasExtraNodes(16 * 1024))
           small == GrowTrie(B, HasExtraNodes(1024))
           base == c.delivery + c.message
           k == c.proof_byte
<1>1. c.delivery \in Nat /\ c.message \in Nat /\ c.lane_state \in Nat /\ c.pay_fee \in Nat /\ k \in Nat
  BY CostProducts
<1>2. B \in Nat /\ OutboundLaneDataSize \in Nat
  BY BenchmarksAssumption
<1>3. /\ PrepareMessageProof(1, 0, HasExtraNodes(16 * 1024)) = large
      /\ PrepareMessageProof(1, 0, HasExtraNodes(1024)) = small
  <2>1. 1 * (0 + B) + 0 * OutboundLaneDataSize = B
    BY <1>2
  <2>2. \A n : HasExtraNodes(n).kind = "HasExtraNodes"
    BY DEF HasExtraNodes
  <2> QED BY <2>1, <2>2 DEF PrepareMessageProof, PrepareMessagesStorageProof
<1>4. large \in Int /\ small \in Int /\ large - small = 15 * 1024
  <2>1. HasExtraNodes(16 * 1024).size \in Int /\ HasExtraNodes(1024).size \in Int
    BY DEF HasExtraNodes
  <2> QED BY <1>2, <2>1, GrowTrieType, ExtraNodes
<1> HIDE DEF large, small, B
<1>5. /\ w.receive_single_message_proof_16_kb = receive_single_message_proof_16_kb(c)
      /\ w.receive_single_message_proof_1_kb = receive_single_message_proof_1_kb(c)
  BY DEF WeightInfo
<1>6. /\ receive_single_message_proof_16_kb(c) = DeliveryCost(c, 1, 0, 0, large)
      /\ receive_single_message_proof_1_kb(c) = DeliveryCost(c, 1, 0, 0, small)
  BY <1>3 DEF receive_single_message_proof_16_kb, receive_single_message_proof_1_kb, ReceiveBenchmark,
              AtSourceChain
<1>7. \A n \in Int : DeliveryCost(c, 1, 0, 0, n) = base + n * k
  BY <1>1 DEF DeliveryCost
<1>8. /\ w.receive_single_message_proof_16_kb = base + large * k
      /\ w.receive_single_message_proof_1_kb = base + small * k
  BY <1>4, <1>5, <1>6, <1>7
<1>9. large * k - small * k = 15360 * k /\ large * k \in Int /\ small * k \in Int /\ base \in Int
  <2>1. large * k - small * k = (large - small) * k
    BY <1>1, <1>4
  <2> QED BY <1>1, <1>4, <2>1
<1> HIDE DEF base, k
<1>10. w.receive_single_message_proof_16_kb - w.receive_single_message_proof_1_kb = 15360 * k
  BY <1>8, <1>9
<1>11. (15360 * k) \div 15360 = k
  BY <1>1
<1> QED BY <1>10, <1>11 DEF StorageProofSizeOverhead, k

\* The overheads of a delivery, as the benchmarks with one and two messages give them.
LEMMA DeliveryOverheads ==
    ASSUME NEW c \in CallCosts, NEW w, w = WeightInfo(c)
    PROVE  /\ ReceiveMessagesProofOverhead(w) = c.delivery
           /\ \A n \in Int : MessagesOverhead(w, n)
                               = n * (c.message + (128 + BenchmarkProofOverhead) * c.proof_byte)
           /\ LaneStateOverhead(w) = c.lane_state + OutboundLaneDataSize * c.proof_byte
           /\ PayInboundDispatchFeeOverhead(w) = 0
<1> DEFINE B == BenchmarkProofOverhead
           L == OutboundLaneDataSize
           k == c.proof_byte
           a == c.delivery
           m == c.message
           D == 128 + B
           one == w.receive_single_message_proof
           two == w.receive_two_messages_proof
           lane == w.receive_single_message_proof_with_outbound_lane_state
           prepaid == w.receive_single_prepaid_message_proof
<1>1. a \in Nat /\ m \in Nat /\ c.lane_state \in Nat /\ c.pay_fee \in Nat /\ k \in Nat
  BY CostProducts
<1>2. B \in Nat /\ L \in Nat
  BY BenchmarksAssumption
<1>3. /\ one = ReceiveBenchmark(c, 1, 0, Minimal(128), 0) /\ prepaid = one
      /\ two = ReceiveBenchmark(c, 2, 0, Minimal(128), 0)
      /\ lane = ReceiveBenchmark(c, 1, 1, Minimal(128), 0)
  BY DEF WeightInfo, receive_single_message_proof, receive_two_messages_proof,
         receive_single_message_proof_with_outbound_lane_state, receive_single_prepaid_message_proof,
         EXPECTED_DEFAULT_MESSAGE_LENGTH, AtSourceChain
<1>4. \A n \in Nat, l \in Nat : PrepareMessageProof(n, l, Minimal(128)) = n * D + l * L
  BY DEF PrepareMessageProof, PrepareMessagesStorageProof, GrowTrie, Minimal
<1> HIDE DEF D, L, one, two, lane, prepaid
<1>5. D \in Nat /\ D * k \in Nat /\ L * k \in Nat
  BY <1>1, <1>2 DEF D
<1>6. /\ one = DeliveryCost(c, 1, 0, 0, D) /\ two = DeliveryCost(c, 2, 0, 0, 2 * D)
      /\ lane = DeliveryCost(c, 1, 1, 0, D + L)
  <2>1. 1 * D + 0 * L = D /\ 2 * D + 0 * L = 2 * D /\ 1 * D + 1 * L = D + L
    BY <1>2, <1>5 DEF L
  <2> QED BY <1>3, <1>4, <2>1 DEF ReceiveBenchmark
<1>7. one = a + m + D * k
  BY <1>1, <1>5, <1>6 DEF DeliveryCost
<1>8. two = a + 2 * m + 2 * (D * k)
  <2>1. two = a + 2 * m + (2 * D) * k
    BY <1>1, <1>5, <1>6 DEF DeliveryCost
  <2>2. (2 * D) * k = 2 * (D * k)
    BY <1>1, <1>5
  <2> QED BY <2>1, <2>2
<1>9. lane = a + m + c.lane_state + D * k + L * k
  <2>1. L \in Nat
    BY <1>2 DEF L
  <2>2. lane = a + m + c.lane_state + (D + L) * k
    BY <1>1, <1>5, <1>6, <2>1 DEF DeliveryCost
  <2>3. (D + L) * k = D * k + L * k
    BY <1>1, <1>5, <2>1
  <2> QED BY <1>1, <1>5, <2>2, <2>3
<1> DEFINE X == D * k
           Y == L * k
           s == c.lane_state
<1>10. X \in Nat /\ Y \in Nat /\ s \in Nat /\ one = a + m + X /\ two = a + 2 * m + 2 * X /\ lane = a + m + s + X + Y
  BY <1>1, <1>5, <1>7, <1>8, <1>9
<1> HIDE DEF X, Y, s, a, m, k
<1>11. /\ SaturatingSub(2 * one, two) = a /\ SaturatingSub(two, one) = m + X
       /\ SaturatingSub(lane, one) = s + Y /\ SaturatingSub(one, one) = 0
  BY <1>1, <1>10 DEF SaturatingSub
<1>12. ReceiveMessagesProofOverhead(w) = a /\ LaneStateOverhead(w) = s + Y
       /\ \A n \in Int : MessagesOverhead(w, n) = n * (m + X)
  BY <1>11 DEF ReceiveMessagesProofOverhead, LaneStateOverhead, MessagesOverhead, one, two, lane
<1>13. PayInboundDispatchFeeOverhead(w) = 0
  BY <1>3, <1>11 DEF PayInboundDispatchFeeOverhead, one, prepaid
<1> QED BY <1>12, <1>13 DEF X, Y, s, a, m, k, D, L

\* The weight of a delivery covers its time, but for the bytes that are for nothing.
LEMMA DeliveryTime ==
    ASSUME NEW c \in CallCosts, NEW w, w = WeightInfo(c),
           NEW n \in Nat \ {0}, NEW size \in Int, NEW dispatch \in Int
    PROVE  LET weight == ReceiveMessagesProofWeight(w, size, n, dispatch)
           IN  /\ weight \in Int /\ DeliveryCost(c, n, 1, 0, size) + dispatch \in Int
               /\ StorageProofSizeOverhead(w, EXTRA_STORAGE_PROOF_SIZE) \in Nat
               /\ DeliveryCost(c, n, 1, 0, size) + dispatch
                    <= weight + StorageProofSizeOverhead(w, EXTRA_STORAGE_PROOF_SIZE)
<1> DEFINE B == BenchmarkProofOverhead
           L == OutboundLaneDataSize
           k == c.proof_byte
           a == c.delivery
           m == c.message
           s == c.lane_state
           D == 128 + B
           expected == 128 * (n - 1) + 1024
           extra == SaturatingSub(size, expected)
<1>1. a \in Nat /\ m \in Nat /\ s \in Nat /\ c.pay_fee \in Nat /\ k \in Nat
  BY CostProducts
<1>2. B \in Nat /\ L \in Nat /\ D \in Nat
  BY BenchmarksAssumption
<1>3. expected \in Int /\ extra \in Nat
  BY DEF SaturatingSub
<1>4. /\ ReceiveMessagesProofOverhead(w) = a /\ LaneStateOverhead(w) = s + L * k
      /\ MessagesOverhead(w, n) = n * (m + D * k)
      /\ StorageProofSizeOverhead(w, extra) = extra * k
      /\ StorageProofSizeOverhead(w, EXTRA_STORAGE_PROOF_SIZE) = 1024 * k
  BY <1>3, DeliveryOverheads, ByteWeight DEF EXTRA_STORAGE_PROOF_SIZE
<1>5. EXPECTED_DEFAULT_MESSAGE_LENGTH * SaturatingSub(n, 1) + EXTRA_STORAGE_PROOF_SIZE = expected
  BY DEF EXPECTED_DEFAULT_MESSAGE_LENGTH, SaturatingSub, EXTRA_STORAGE_PROOF_SIZE
<1>6. size <= L + n * D + extra + 1024
  <2>1. n * D = n * 128 + n * B /\ n * B \in Nat
    BY <1>2
  <2>2. size <= expected + extra
    BY <1>3 DEF SaturatingSub
  <2> QED BY <1>2, <1>3, <2>1, <2>2
<1> DEFINE weight == ReceiveMessagesProofWeight(w, size, n, dispatch)
<1>7. weight = a + (s + L * k) + n * (m + D * k) + dispatch + extra * k
  BY <1>4, <1>5 DEF ReceiveMessagesProofWeight
<1> HIDE DEF extra, expected, D, L, weight
<1>8. DeliveryCost(c, n, 1, 0, size) = a + n * m + s + size * k
  BY <1>1 DEF DeliveryCost
<1> HIDE DEF k, a, m, s
<1>9. /\ L * k \in Nat /\ n * m \in Nat /\ (n * D) * k \in Nat /\ extra * k \in Nat /\ size * k \in Int
      /\ n * D \in Nat /\ L \in Nat
  BY <1>1, <1>2, <1>3 DEF L
<1>10. n * (m + D * k) = n * m + (n * D) * k
  BY <1>1, <1>2
<1>11. size * k <= L * k + (n * D) * k + extra * k + 1024 * k
  <2> DEFINE N == n * D
             bound == L + N + extra + 1024
  <2>1. N \in Nat /\ bound \in Int /\ size <= bound
    BY <1>3, <1>6, <1>9
  <2>2. bound * k = L * k + N * k + extra * k + 1024 * k
    <3> HIDE DEF N
    <3> QED BY <1>1, <1>3, <1>9, <2>1
  <2> HIDE DEF bound
  <2>3. size * k <= bound * k
    <3>1. CASE k = 0
      BY <2>1, <3>1
    <3>2. CASE k > 0
      BY <1>1, <2>1, <3>2, ProductMonotone
    <3> QED BY <1>1, <3>1, <3>2
  <2> QED BY <2>2, <2>3
<1>12. weight = a + s + L * k + n * m + (n * D) * k + dispatch + extra * k /\ weight \in Int
  <2> HIDE DEF D
  <2> QED BY <1>1, <1>7, <1>9, <1>10
<1> DEFINE p1 == L * k
           p2 == (n * D) * k
           p3 == extra * k
           p4 == 1024 * k
           p5 == size * k
           p6 == n * m
<1>13. p1 \in Nat /\ p2 \in Nat /\ p3 \in Nat /\ p4 \in Nat /\ p5 \in Int /\ p6 \in Nat
  BY <1>1, <1>9
<1>14. p5 <= p1 + p2 + p3 + p4
  BY <1>11
<1>15. weight = a + s + p1 + p6 + p2 + dispatch + p3
  BY <1>12
<1>16. DeliveryCost(c, n, 1, 0, size) = a + p6 + s + p5
  BY <1>8
<1>17. StorageProofSizeOverhead(w, EXTRA_STORAGE_PROOF_SIZE) = p4
  BY <1>4
<1> HIDE DEF p1, p2, p3, p4, p5, p6
<1>18. /\ DeliveryCost(c, n, 1, 0, size) + dispatch <= weight + p4
       /\ DeliveryCost(c, n, 1, 0, size) + dispatch \in Int
  BY <1>1, <1>13, <1>14, <1>15, <1>16
<1> QED BY <1>12, <1>13, <1>17, <1>18 DEF weight

\* The weight of sending a message covers its bytes and the pruning of as many
\* messages as send_message may prune.
LEMMA SendTime ==
    ASSUME NEW c \in CallCosts, NEW w, w = WeightInfo(c), NEW size \in Int
    PROVE  SendCost(c, size, MaxMessagesToPruneAtOnce) <= SendMessageWeight(w, size)
<1> DEFINE M == MaxMessagesToPruneAtOnce
           b == c.send_byte
           kb == (1024 + size) \div 1024
           Bench(n) == c.send + n * b + M * c.prune
<1>1. c.send \in Nat /\ b \in Nat /\ c.prune \in Nat /\ M \in Nat /\ DbWeight \in Nat
  BY CostProducts, BenchmarksAssumption, LimitsAssumption
<1>2. \A n \in Nat : SendBenchmark(c, n) = Bench(n)
  <2> DEFINE lane == ConfirmMessageDelivery(SendRegularMessages(M), M)
  <2>1. lane = [oldest_unpruned_nonce |-> 1, latest_received_nonce |-> M, latest_generated_nonce |-> M]
    BY DEF ConfirmMessageDelivery, SendRegularMessages
  <2>2. lane.latest_received_nonce + 1 - lane.oldest_unpruned_nonce = M
    BY <1>1, <2>1
  <2> HIDE DEF lane
  <2>3. PrunedBySend(lane) = M
    BY <1>1, <2>2 DEF PrunedBySend
  <2> QED BY <2>3 DEF SendBenchmark, SendCost, PrepareOutboundMessage, lane
<1>3. /\ w.send_minimal_message_worst_case = Bench(0)
      /\ w.send_1_kb_message_worst_case = Bench(1024)
      /\ w.send_16_kb_message_worst_case = Bench(16384)
  <2>1. /\ w.send_minimal_message_worst_case = SendBenchmark(c, 0)
        /\ w.send_1_kb_message_worst_case = SendBenchmark(c, 1024)
        /\ w.send_16_kb_message_worst_case = SendBenchmark(c, 16384)
    BY DEF WeightInfo, send_minimal_message_worst_case, send_1_kb_message_worst_case,
           send_16_kb_message_worst_case
  <2> HIDE DEF Bench
  <2> QED BY <1>2, <2>1
<1>4. M * c.prune \in Nat
  BY <1>1
<1>5. /\ w.send_minimal_message_worst_case = c.send + M * c.prune
      /\ w.send_16_kb_message_worst_case - w.send_1_kb_message_worst_case = 15360 * b
  BY <1>1, <1>3, <1>4
<1>6. (15360 * b) \div 15 = 1024 * b
  BY <1>1
<1>7. SendMessageSizeOverhead(w, size) = kb * (1024 * b)
  BY <1>5, <1>6 DEF SendMessageSizeOverhead
<1>8. kb \in Int /\ size <= kb * 1024
  OBVIOUS
<1> HIDE DEF kb, M, b
<1>9. kb * (1024 * b) = (kb * 1024) * b /\ kb * 1024 \in Int /\ (kb * 1024) * b \in Int /\ size * b \in Int
  BY <1>1, <1>8
<1>10. size * b <= (kb * 1024) * b
  <2>1. CASE b = 0
    BY <1>8, <1>9, <2>1
  <2>2. CASE b > 0
    <3> DEFINE x == kb * 1024
    <3>1. x \in Int /\ size <= x
      BY <1>8, <1>9
    <3> HIDE DEF x
    <3>2. size * b <= x * b
      BY <1>1, <2>2, <3>1, ProductMonotone
    <3> QED BY <3>2 DEF x
  <2> QED BY <1>1, <2>1, <2>2
<1>11. SendMessageWeight(w, size) = c.send + M * c.prune + (kb * 1024) * b + DbWeight
  BY <1>5, <1>7, <1>9 DEF SendMessageWeight
<1>12. SendCost(c, size, M) = c.send + size * b + M * c.prune
  BY DEF SendCost, b
<1> DEFINE p1 == M * c.prune
           p2 == (kb * 1024) * b
           p3 == size * b
<1>13. p1 \in Nat /\ p2 \in Int /\ p3 \in Int /\ p3 <= p2
  BY <1>4, <1>9, <1>10
<1>14. SendMessageWeight(w, size) = c.send + p1 + p2 + DbWeight /\ SendCost(c, size, M) = c.send + p3 + p1
  BY <1>11, <1>12
<1> HIDE DEF p1, p2, p3
<1>15. SendCost(c, size, M) <= SendMessageWeight(w, size)
  BY <1>1, <1>13, <1>14
<1> QED BY <1>15 DEF M

\* The weight of a confirmation covers its time, with the same exception.
LEMMA ConfirmationTime ==
    ASSUME NEW c \in CallCosts, NEW w, w = WeightInfo(c),
           NEW messages \in Nat, NEW relayers \in Nat, NEW size \in Int
    PROVE  ConfirmationCost(c, messages, relayers, size)
             <= ReceiveDeliveryProofWeight(w, size, [unrewarded_relayer_entries |-> relayers,
                                                     total_messages |-> messages])
                  + StorageProofSizeOverhead(w, EXTRA_STORAGE_PROOF_SIZE)
<1> DEFINE B == BenchmarkProofOverhead
           k == c.proof_byte
           a == c.confirmation
           m == c.confirmed
           r == c.relayer
           X == B * k
           one == w.receive_delivery_proof_for_single_message
           two == w.receive_delivery_proof_for_two_messages_by_single_relayer
           four == w.receive_delivery_proof_for_two_messages_by_two_relayers
           extra == SaturatingSub(size, 1024)
           state == [unrewarded_relayer_entries |-> relayers, total_messages |-> messages]
           weight == ReceiveDeliveryProofWeight(w, size, state)
<1>1. a \in Nat /\ m \in Nat /\ r \in Nat /\ k \in Nat /\ B \in Nat /\ DbWeight \in Nat
  BY CostProducts, BenchmarksAssumption, LimitsAssumption
<1>2. X \in Nat
  BY <1>1
<1>3. /\ one = ConfirmBenchmark(c, 1, 1) /\ two = ConfirmBenchmark(c, 2, 1)
      /\ four = ConfirmBenchmark(c, 2, 2)
  BY DEF WeightInfo, receive_delivery_proof_for_single_message,
         receive_delivery_proof_for_two_messages_by_single_relayer,
         receive_delivery_proof_for_two_messages_by_two_relayers
<1>4. PrepareDeliveryProof(Minimal(0)) = B
  BY DEF PrepareDeliveryProof, GrowTrie, Minimal
<1>5. one = a + m + r + X /\ two = a + 2 * m + r + X /\ four = a + 2 * m + 2 * r + X
  BY <1>1, <1>2, <1>3, <1>4 DEF ConfirmBenchmark, ConfirmationCost
<1> HIDE DEF X, one, two, four
<1>6. /\ SaturatingSub(2 * one, two) = a + r + X /\ SaturatingSub(two, one) = m
      /\ SaturatingSub(four, two) = r
  <2> HIDE DEF a, m, r
  <2> QED BY <1>1, <1>2, <1>5 DEF SaturatingSub
<1>7. extra \in Nat /\ size <= extra + 1024
  BY DEF SaturatingSub
<1>8. /\ StorageProofSizeOverhead(w, extra) = extra * k
      /\ StorageProofSizeOverhead(w, EXTRA_STORAGE_PROOF_SIZE) = 1024 * k
  BY <1>7, ByteWeight DEF EXTRA_STORAGE_PROOF_SIZE
<1>9. weight = a + r + X + messages * m + relayers * r + extra * k + messages * DbWeight
  BY <1>6, <1>8 DEF ReceiveDeliveryProofWeight, DeliveryProofOverhead, DeliveryProofMessagesOverhead,
                    DeliveryProofRelayersOverhead, EXTRA_STORAGE_PROOF_SIZE, one, two, four
<1>10. ConfirmationCost(c, messages, relayers, size) = a + messages * m + relayers * r + size * k
  BY DEF ConfirmationCost
<1> HIDE DEF extra, k, a, m, r, weight, state
<1>11. size * k <= extra * k + 1024 * k
  <2> DEFINE bound == extra + 1024
  <2>1. bound \in Int /\ size <= bound /\ bound * k = extra * k + 1024 * k
    BY <1>1, <1>7
  <2> HIDE DEF bound
  <2>2. size * k <= bound * k
    <3>1. CASE k = 0
      BY <2>1, <3>1
    <3>2. CASE k > 0
      BY <1>1, <2>1, <3>2, ProductMonotone
    <3> QED BY <1>1, <3>1, <3>2
  <2> QED BY <2>1, <2>2
<1> DEFINE p1 == messages * m
           p2 == relayers * r
           p3 == extra * k
           p4 == 1024 * k
           p5 == size * k
           p6 == messages * DbWeight
<1>12. p1 \in Nat /\ p2 \in Nat /\ p3 \in Nat /\ p4 \in Nat /\ p5 \in Int /\ p6 \in Nat
  BY <1>1, <1>7
<1>13. /\ p5 <= p3 + p4
       /\ weight = a + r + X + p1 + p2 + p3 + p6
       /\ ConfirmationCost(c, messages, relayers, size) = a + p1 + p2 + p5
       /\ StorageProofSizeOverhead(w, EXTRA_STORAGE_PROOF_SIZE) = p4
  BY <1>8, <1>9, <1>10, <1>11
<1> HIDE DEF p1, p2, p3, p4, p5, p6
<1>14. ConfirmationCost(c, messages, relayers, size) <= weight + p4
  BY <1>1, <1>2, <1>12, <1>13
<1> QED BY <1>13, <1>14 DEF weight, state

\* The sums over a batch of messages are numbers.
LEMMA BatchSums ==
    ASSUME NEW batch \in Seq(Message)
    PROVE  ProofSize(batch) \in Int /\ TotalDispatchWeight(batch) \in Int /\ FeesPaid(batch) \in Int
<1> DEFINE I == 1..Len(batch)
           sizes == [i \in I |-> batch[i].size + ProofOverhead]
           weights == [i \in I |-> batch[i].weight]
           fees == [i \in I |-> batch[i].payment]
<1>1. Len(batch) \in Nat /\ IsFiniteSet(I)
  BY LenProperties, FS_Interval
<1>2. \A i \in I : batch[i].size \in Int /\ batch[i].weight \in Int /\ batch[i].payment \in Int
  <2>1. \A i \in I : batch[i] \in Message
    BY ElementOfSeq
  <2> HIDE DEF I
  <2> QED BY <2>1 DEF Message, AtSourceChain, AtTargetChain
<1>3. ProofOverhead \in Int
  BY LimitsAssumption
<1>4. \A i \in I : sizes[i] \in Int /\ weights[i] \in Int /\ fees[i] \in Int
  BY <1>2, <1>3
<1>5. DOMAIN sizes = I /\ DOMAIN weights = I /\ DOMAIN fees = I
  OBVIOUS
<1> HIDE DEF I
<1>6. /\ ProofSize(batch) = SumFunctionOnSet(sizes, I)
      /\ TotalDispatchWeight(batch) = SumFunctionOnSet(weights, I)
      /\ FeesPaid(batch) = SumFunctionOnSet(fees, I)
  BY <1>5 DEF ProofSize, TotalDispatchWeight, FeesPaid, SumFunction, I
<1> HIDE DEF sizes, weights, fees
<1>7. /\ SumFunctionOnSet(sizes, I) \in Int /\ SumFunctionOnSet(weights, I) \in Int
      /\ SumFunctionOnSet(fees, I) \in Int
  BY <1>1, <1>4, SumInt
<1> QED BY <1>6, <1>7

LEMMA WeightsCover == LimitsInv /\ LaneInv => WeightsCoverTime
<1> SUFFICES ASSUME LimitsInv, LaneInv PROVE WeightsCoverTime
  OBVIOUS
<1>1. target.costs \in CallCosts /\ target.weights = WeightInfo(target.costs)
  <2>1. PICK limits \in ChainLimits, lane \in LaneLimits, c \in Costs : target = Runtime(limits, lane, c)
    BY DEF LimitsInv, TargetRuntimes, Runtimes
  <2> QED BY <2>1, LimitsAssumption DEF Runtime
<1>2. source.costs \in CallCosts /\ source.weights = WeightInfo(source.costs)
  <2>1. PICK limits \in ChainLimits, lane \in LaneLimits, c \in Costs : source = Runtime(limits, lane, c)
    BY DEF LaneInv, SourceRuntimes, Runtimes
  <2> QED BY <2>1, LimitsAssumption DEF Runtime
<1>3. outbox \in Seq(Message) /\ Len(outbox) \in Nat
  BY LenProperties DEF LimitsInv
<1>4. ASSUME NEW n \in 1..Len(outbox)
      PROVE  TimeTaken(SubSeq(outbox, 1, n), 0) <= ChargedWeight(SubSeq(outbox, 1, n)) + Reserve(target)
  <2> DEFINE batch == SubSeq(outbox, 1, n)
             size == ProofSize(batch)
             dispatch == TotalDispatchWeight(batch)
             weight == ReceiveMessagesProofWeight(target.weights, size, n, dispatch)
             reserve == StorageProofSizeOverhead(target.weights, EXTRA_STORAGE_PROOF_SIZE)
  <2>1. batch \in Seq(Message) /\ Len(batch) = n /\ n \in Nat \ {0}
    BY <1>3, SubSeqProperties, ElementOfSeq
  <2>2. size \in Int /\ dispatch \in Int /\ FeesPaid(batch) \in Int
    BY <2>1, BatchSums
  <2>3. DeclaredWeight(batch) = weight /\ Reserve(target) = reserve
    BY <2>1 DEF DeclaredWeight, Reserve
  <2>4. TimeTaken(batch, 0) = DeliveryCost(target.costs, n, 1, 0, size) + dispatch
    BY <2>1 DEF TimeTaken
  <2>5. (Len(batch) - FeesPaid(batch)) * PayInboundDispatchFeeOverhead(target.weights) = 0
    <3>1. PayInboundDispatchFeeOverhead(target.weights) = 0
      BY <1>1, DeliveryOverheads
    <3> QED BY <2>1, <2>2, <3>1
  <2> HIDE DEF size, dispatch, batch
  <2>6. /\ weight \in Int /\ reserve \in Nat
        /\ DeliveryCost(target.costs, n, 1, 0, size) + dispatch <= weight + reserve
    BY <1>1, <2>1, <2>2, DeliveryTime
  <2>7. ChargedWeight(batch) = SaturatingSub(weight, 0)
    BY <2>3, <2>5 DEF ChargedWeight
  <2> HIDE DEF weight, reserve
  <2>8. SaturatingSub(weight, 0) \in Int /\ weight <= SaturatingSub(weight, 0)
    BY <2>6 DEF SaturatingSub
  <2> DEFINE time == DeliveryCost(target.costs, n, 1, 0, size) + dispatch
             charged == SaturatingSub(weight, 0)
  <2>9. time \in Int
    BY <1>1, <2>1, <2>2, DeliveryTime
  <2> HIDE DEF time, charged
  <2>10. time <= charged + reserve
    BY <2>6, <2>8, <2>9 DEF time, charged
  <2> QED BY <2>3, <2>4, <2>7, <2>10 DEF time, charged, batch
<1>5. ASSUME NEW i \in 1..Len(outbox)
      PROVE  SendCost(source.costs, outbox[i].size, MaxMessagesToPruneAtOnce)
               <= SendMessageWeight(source.weights, outbox[i].size)
  <2>0. outbox[i] \in Message
    BY <1>3, ElementOfSeq
  <2>1. outbox[i].size \in Int
    BY <2>0 DEF Message
  <2> QED BY <1>2, <2>1, SendTime
<1>6. LET proof_size == EncodedLaneSize(entries) + ProofOverhead
      IN  ConfirmationCost(source.costs, TotalMessages(entries), Len(entries), proof_size)
            <= ReceiveDeliveryProofWeight(source.weights, proof_size, RelayersState(entries))
                 + Reserve(source)
  <2> DEFINE proof_size == EncodedLaneSize(entries) + ProofOverhead
  <2>1. proof_size \in Int
    <3>1. TotalMessages(entries) <= MaxMessagesInConfirmation + 1
      BY TotalIsSum, LimitsAssumption DEF LaneInv
    <3> QED BY <3>1, SizeHintCovers DEF LaneInv
  <2>2. TotalMessages(entries) \in Nat /\ Len(entries) \in Nat
    BY TotalIsSum DEF LaneInv
  <2> HIDE DEF proof_size
  <2>3. ConfirmationCost(source.costs, TotalMessages(entries), Len(entries), proof_size)
          <= ReceiveDeliveryProofWeight(source.weights, proof_size,
                                        [unrewarded_relayer_entries |-> Len(entries),
                                         total_messages |-> TotalMessages(entries)])
               + StorageProofSizeOverhead(source.weights, EXTRA_STORAGE_PROOF_SIZE)
    BY <1>2, <2>1, <2>2, ConfirmationTime
  <2> QED BY <2>3 DEF RelayersState, Reserve, proof_size
<1> QED BY <1>4, <1>5, <1>6 DEF WeightsCoverTime

-----------------------------------------------------------------------------
(* Theorems. *)

\* "Ok result" of verify_chain_message "means that the delivery transaction with this
\* message may be 'mined' by the target chain": proved for every pair of chains whose
\* tests pass, in whatever order the two are upgraded.
THEOREM AcceptedIsDeliverable == Spec => []AcceptedMessagesDeliverable
<1>1. LimitsInv => AcceptedMessagesDeliverable
  BY WithinLimitsDelivers DEF LimitsInv, AcceptedMessagesDeliverable
<1> QED BY <1>1, InitLimitsInv, NextLimitsInv, PTL DEF Spec

\* However relayers fill the inbound lane within its limits, and however state updates
\* trim it, the source can confirm it in one transaction, unless a full lane has one
\* confirmed message more: proved for all limits that
\* assert_bridge_messages_pallet_constants and the tests of the source accept.
THEOREM LaneIsConfirmable == Spec => []LaneConfirmable
<1>1. LaneInv => LaneConfirmable
  <2> SUFFICES ASSUME LaneInv PROVE LaneConfirmable
    OBVIOUS
  <2>1. CASE TotalMessages(entries) <= MaxMessagesInConfirmation
    BY <2>1, LaneInvConfirms DEF LaneConfirmable
  <2>2. CASE ~(TotalMessages(entries) <= MaxMessagesInConfirmation)
    <3>1. /\ TotalMessages(entries) \in Nat /\ MaxMessagesInConfirmation \in Nat
          /\ confirmed \in 0..1 /\ TotalMessages(entries) <= MaxMessagesInConfirmation + confirmed
      BY TotalIsSum, LimitsAssumption DEF LaneInv
    <3> QED BY <2>2, <3>1 DEF LaneConfirmable
  <2> QED BY <2>1, <2>2
<1>2. Init => LimitsInv /\ LaneInv
  BY InitLimitsInv, InitLaneInv
<1>3. (LimitsInv /\ LaneInv) /\ [Next]_vars => (LimitsInv /\ LaneInv)'
  BY NextLimitsInv, NextLaneInv
<1> QED BY <1>1, <1>2, <1>3, PTL DEF Spec

\* The weights that are extrapolated from the benchmarks of one and two messages cover
\* the time of every delivery, of every message that is sent and of every confirmation:
\* proved for every cost of the calls, not only for the ones that are tried.
THEOREM WeightsSuffice == Spec => []WeightsCoverTime
<1>1. Init => LimitsInv /\ LaneInv
  BY InitLimitsInv, InitLaneInv
<1>2. (LimitsInv /\ LaneInv) /\ [Next]_vars => (LimitsInv /\ LaneInv)'
  BY NextLimitsInv, NextLaneInv
<1> QED BY <1>1, <1>2, WeightsCover, PTL DEF Spec
=============================================================================
