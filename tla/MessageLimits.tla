---------------------------- MODULE MessageLimits ----------------------------
(***************************************************************************)
(* Sizes and weights: do the messages that the source chain accepts fit a  *)
(* block of the target chain, and does the confirmation of what the target *)
(* has delivered fit a block of the source chain?  The source knows the    *)
(* target's limits only as constants of its own build; the tests of either *)
(* runtime compare them with the weights and with each other.              *)
(*                                                                         *)
(* Sizes are in bytes, weights in nanoseconds of ref_time (the formulas    *)
(* treat both components of a weight alike).                               *)
(***************************************************************************)
EXTENDS Integers, Sequences, Functions, MessageBenchmarks

CONSTANTS
    OtherChains,                  \* chains besides the ones defined here
    Costs,                        \* costs of the calls at a chain, see MessageBenchmarks
    DbWeight,                     \* one read and one write
    BaseExtrinsic,                \* ExtrinsicBaseWeight
    ExpectedWeights,              \* weights that are hard-coded for relayers
    MaxRelayersInConfirmation,    \* limits of an inbound lane that the source reckons with
    MaxMessagesInConfirmation,
    LaneLimits,                   \* limits that the target's pallet may be given
    RelayerIdSize,                \* encoded size of InboundRelayer
    ProofOverhead,                \* a proof has so many more bytes than the call or lane in it
    TransactionOverhead,          \* a transaction has so many more bytes than its proof
    MaxOutbox                     \* bound: messages that wait for delivery

SIGNED_EXTENSIONS_SIZE == 1024
EXTRA_STORAGE_PROOF_SIZE == 1024

ASSUME LimitsAssumption ==
    /\ OtherChains \subseteq [block_length : Nat, block_weight : Nat, on_initialize : Nat]
    /\ Costs \subseteq CallCosts
    \* (the number of results in an entry takes at most two bytes)
    /\ MaxRelayersInConfirmation \in Nat
    /\ MaxMessagesInConfirmation \in Nat /\ MaxMessagesInConfirmation < 16383
    /\ LaneLimits \subseteq [max_entries : Nat, max_messages : Nat]
    /\ MaxMessagesToPruneAtOnce > 0
    /\ RelayerIdSize \in Nat /\ DbWeight \in Nat /\ BaseExtrinsic \in Nat
    /\ TransactionOverhead \in 0..SIGNED_EXTENSIONS_SIZE
    /\ ProofOverhead \in Nat
    \* encoded_size_hint is approximate: the reserve for the proof covers that too
    /\ ProofOverhead + 3 * MaxRelayersInConfirmation + 5 \in 0..EXTRA_STORAGE_PROOF_SIZE

VARIABLES
    target,   \* limits and weights of the target chain
    source,   \* limits and weights of the source chain
    known,    \* limits of the target chain as the source knows them (BridgedChain)
    outbox,   \* accepted messages that are not delivered
    entries,  \* unrewarded relayers of the inbound lane: their numbers of messages
    confirmed,\* last_confirmed_nonce: so many of these messages are known to be confirmed
    received  \* latest_received_nonce of the source: so many of them are confirmed

vars == <<target, source, known, outbox, entries, confirmed, received>>
lane_vars == <<entries, confirmed, received>>

SaturatingSub(a, b) == IF a > b THEN a - b ELSE 0
Greater(a, b) == IF a > b THEN a ELSE b

-----------------------------------------------------------------------------
(* Chains: the length and weight of a block, and the percentage of the weight *)
(* that on_initialize handlers take on average.                               *)

DarwiniaLike == [block_length |-> 5 * 1024 * 1024, block_weight |-> 500000000, on_initialize |-> 5]
PolkadotLike == [block_length |-> 5 * 1024 * 1024, block_weight |-> 2000000000, on_initialize |-> 1]
Chains == {DarwiniaLike, PolkadotLike} \cup OtherChains

\* NORMAL_DISPATCH_RATIO: 75 percent of a block are for Normal extrinsics.
NormalRatio(limit) == (limit \div 4) * 3

\* Chain::max_extrinsic_size and Chain::max_extrinsic_weight
Limits(chain) ==
    [max_extrinsic_size |-> NormalRatio(chain.block_length),
     max_extrinsic_weight |-> NormalRatio(chain.block_weight) - BaseExtrinsic
                                - (chain.block_weight \div 100) * chain.on_initialize]
ChainLimits == {Limits(chain) : chain \in Chains}

\* Does a transaction fit a block of the chain?
Fits(limits, size, weight) ==
    size <= limits.max_extrinsic_size /\ weight <= limits.max_extrinsic_weight

-----------------------------------------------------------------------------
(* WeightInfoExt: the weights of the calls from the benchmarked ones (w). *)

\* storage_proof_size_overhead
StorageProofSizeOverhead(w, bytes) ==
    bytes * ((w.receive_single_message_proof_16_kb - w.receive_single_message_proof_1_kb)
               \div (15 * 1024))

\* send_message_overhead, send_message_size_overhead, send_message_weight
SendMessageSizeOverhead(w, size) ==
    ((1024 + size) \div 1024) * ((w.send_16_kb_message_worst_case - w.send_1_kb_message_worst_case) \div 15)
SendMessageWeight(w, size) ==
    w.send_minimal_message_worst_case + SendMessageSizeOverhead(w, size) + DbWeight

\* receive_messages_proof_overhead and the overheads of messages and lane state
ReceiveMessagesProofOverhead(w) ==
    SaturatingSub(2 * w.receive_single_message_proof, w.receive_two_messages_proof)
MessagesOverhead(w, n) ==
    n * SaturatingSub(w.receive_two_messages_proof, w.receive_single_message_proof)
LaneStateOverhead(w) ==
    SaturatingSub(w.receive_single_message_proof_with_outbound_lane_state,
                  w.receive_single_message_proof)

\* receive_messages_proof_weight
ReceiveMessagesProofWeight(w, proof_size, messages_count, dispatch_weight) ==
    LET expected == EXPECTED_DEFAULT_MESSAGE_LENGTH * SaturatingSub(messages_count, 1)
                      + EXTRA_STORAGE_PROOF_SIZE
    IN  ReceiveMessagesProofOverhead(w) + LaneStateOverhead(w)
          + MessagesOverhead(w, messages_count) + dispatch_weight
          + StorageProofSizeOverhead(w, SaturatingSub(proof_size, expected))

\* receive_messages_delivery_proof_overhead and the overheads of messages and relayers
DeliveryProofOverhead(w) ==
    SaturatingSub(2 * w.receive_delivery_proof_for_single_message,
                  w.receive_delivery_proof_for_two_messages_by_single_relayer)
DeliveryProofMessagesOverhead(w, n) ==
    n * SaturatingSub(w.receive_delivery_proof_for_two_messages_by_single_relayer,
                      w.receive_delivery_proof_for_single_message)
DeliveryProofRelayersOverhead(w, n) ==
    n * SaturatingSub(w.receive_delivery_proof_for_two_messages_by_two_relayers,
                      w.receive_delivery_proof_for_two_messages_by_single_relayer)

\* receive_messages_delivery_proof_weight; state is the UnrewardedRelayersState.
ReceiveDeliveryProofWeight(w, proof_size, state) ==
    DeliveryProofOverhead(w)
      + DeliveryProofMessagesOverhead(w, state.total_messages)
      + DeliveryProofRelayersOverhead(w, state.unrewarded_relayer_entries)
      + StorageProofSizeOverhead(w, SaturatingSub(proof_size, EXTRA_STORAGE_PROOF_SIZE))
      + state.total_messages * DbWeight

\* pay_inbound_dispatch_fee_overhead
PayInboundDispatchFeeOverhead(w) ==
    SaturatingSub(w.receive_single_message_proof, w.receive_single_prepaid_message_proof)

-----------------------------------------------------------------------------
(* The inbound lane in bytes. *)

\* InboundLaneData::encoded_size_hint
EncodedSizeHint(entries_count, messages_count) ==
    entries_count * (RelayerIdSize + 16) + 8 + Greater(entries_count, messages_count \div 8)

\* Its SCALE encoding: compact lengths, and the results of an entry as bits.
CompactSize(n) == IF n < 64 THEN 1 ELSE IF n < 16384 THEN 2 ELSE 4
EncodedEntrySize(n) == RelayerIdSize + 16 + CompactSize(n) + (n + 7) \div 8
EncodedLaneSize(lane) ==
    CompactSize(Len(lane)) + 8 + SumFunction([i \in 1..Len(lane) |-> EncodedEntrySize(lane[i])])

TotalMessages(lane) == SumFunction(lane)

\* UnrewardedRelayersState of a lane
RelayersState(lane) ==
    [unrewarded_relayer_entries |-> Len(lane), total_messages |-> TotalMessages(lane)]

-----------------------------------------------------------------------------
(* The tests of a runtime. *)

\* maximal_incoming_message_dispatch_weight, maximal_incoming_message_size
MaximalIncomingDispatchWeight(max_extrinsic_weight) == max_extrinsic_weight \div 2
MaximalIncomingMessageSize(max_extrinsic_size) == (max_extrinsic_size \div 3) * 2

\* ensure_weights_are_correct: no component is free, and the hard-coded weights cover
\* the delivery of a default message, its bytes, and its confirmation.
EnsureWeightsAreCorrect(w) ==
    /\ w.send_minimal_message_worst_case > 0
    /\ SendMessageSizeOverhead(w, 0) > 0
    /\ ReceiveMessagesProofOverhead(w) > 0
    /\ MessagesOverhead(w, 1) > 0
    /\ LaneStateOverhead(w) > 0
    /\ StorageProofSizeOverhead(w, 1) > 0
    /\ DeliveryProofOverhead(w) > 0
    /\ ReceiveMessagesProofWeight(w, EXPECTED_DEFAULT_MESSAGE_LENGTH + EXTRA_STORAGE_PROOF_SIZE, 1, 0)
         <= ExpectedWeights.default_message_delivery
    /\ StorageProofSizeOverhead(w, 1) <= ExpectedWeights.additional_byte
    /\ ReceiveDeliveryProofWeight(w, EXTRA_STORAGE_PROOF_SIZE,
                                  [unrewarded_relayer_entries |-> 1, total_messages |-> 1])
         <= ExpectedWeights.delivery_confirmation
    /\ PayInboundDispatchFeeOverhead(w) <= ExpectedWeights.pay_inbound_dispatch_fee

\* ensure_able_to_receive_message, for the largest and heaviest message
EnsureAbleToReceiveMessage(chain) ==
    LET proof_size == MaximalIncomingMessageSize(chain.max_extrinsic_size) + EXTRA_STORAGE_PROOF_SIZE
    IN  /\ proof_size + SIGNED_EXTENSIONS_SIZE <= chain.max_extrinsic_size
        /\ ReceiveMessagesProofWeight(
              chain.weights, proof_size + EXTRA_STORAGE_PROOF_SIZE, 1,
              MaximalIncomingDispatchWeight(chain.max_extrinsic_weight))
             <= chain.max_extrinsic_weight

\* ensure_able_to_receive_confirmation, for the fullest inbound lane
EnsureAbleToReceiveConfirmation(chain) ==
    LET proof_size == EncodedSizeHint(MaxRelayersInConfirmation, MaxMessagesInConfirmation)
                        + EXTRA_STORAGE_PROOF_SIZE
        state == [unrewarded_relayer_entries |-> MaxRelayersInConfirmation,
                  total_messages |-> MaxMessagesInConfirmation]
    IN  Fits(chain, proof_size + SIGNED_EXTENSIONS_SIZE,
             ReceiveDeliveryProofWeight(chain.weights, proof_size, state))

\* assert_bridge_messages_pallet_constants: the lane stays within what the bridged
\* chain can confirm in one transaction.
AssertMessagesPalletConstants(lane) ==
    /\ lane.max_entries <= MaxRelayersInConfirmation
    /\ lane.max_messages <= MaxMessagesInConfirmation

\* A runtime: its limits, costs and weights.  Only runtimes that pass their tests
\* are built.
Runtime(limits, lane, c) ==
    [lane |-> lane,
     max_extrinsic_size |-> limits.max_extrinsic_size,
     max_extrinsic_weight |-> limits.max_extrinsic_weight,
     costs |-> c, weights |-> WeightInfo(c)]
Runtimes ==
    {Runtime(limits, lane, c) :
        limits \in ChainLimits,
        lane \in {lane \in LaneLimits : AssertMessagesPalletConstants(lane)},
        c \in {c \in Costs : EnsureWeightsAreCorrect(WeightInfo(c))}}
TargetRuntimes == {r \in Runtimes : EnsureAbleToReceiveMessage(r)}
SourceRuntimes == {r \in Runtimes : EnsureAbleToReceiveConfirmation(r)}

\* assert_chain_constants: the copy is what the chain has.
AssertChainConstants(constants, runtime) ==
    /\ constants.max_extrinsic_size = runtime.max_extrinsic_size
    /\ constants.max_extrinsic_weight = runtime.max_extrinsic_weight

-----------------------------------------------------------------------------
(* Actions. *)

\* Mutant: a message may be as large as an extrinsic.
MaximalExtrinsicMessageSize(constants) == constants.max_extrinsic_size

\* maximal_message_size
MaximalMessageSize(constants) == MaximalIncomingMessageSize(constants.max_extrinsic_size)

\* verify_chain_message, with the verify_dispatch_weight that the runtime gives it.
VerifyChainMessage(message) ==
    /\ message.weight <= MaximalIncomingDispatchWeight(known.max_extrinsic_weight)
    /\ message.size <= MaximalMessageSize(known)

\* The messages that are tried: the smallest and lightest, those at a limit that the
\* source knows, and those above it (a bound).
SomeMessages ==
    LET size == MaximalIncomingMessageSize(known.max_extrinsic_size)
        weight == MaximalIncomingDispatchWeight(known.max_extrinsic_weight)
    IN  [size : {0, size, size + 1, known.max_extrinsic_size}, weight : {0, weight, weight + 1},
         payment : {AtSourceChain, AtTargetChain}]

\* send_message: the transaction itself has to fit a block of the source.
SendMessage(message) ==
    /\ Len(outbox) < MaxOutbox
    /\ Fits(source, message.size + TransactionOverhead, SendMessageWeight(source.weights, message.size))
    /\ VerifyChainMessage(message)
    /\ outbox' = Append(outbox, message)
    /\ UNCHANGED <<target, source, known, lane_vars>>

\* The delivery transaction of a batch of messages and its declared weight.
ProofSize(batch) == SumFunction([i \in 1..Len(batch) |-> batch[i].size + ProofOverhead])
TotalDispatchWeight(batch) == SumFunction([i \in 1..Len(batch) |-> batch[i].weight])
DeclaredWeight(batch) ==
    ReceiveMessagesProofWeight(target.weights, ProofSize(batch), Len(batch), TotalDispatchWeight(batch))

\* It fits a block of the target.
DeliveryFits(batch) == Fits(target, ProofSize(batch) + TransactionOverhead, DeclaredWeight(batch))

\* Does the inbound lane take n more messages, in the last entry or in a new one?  What
\* is limited is nonce - last_confirmed_nonce, not the number of messages in the lane.
AcceptsMessages(n, newEntry) ==
    /\ Len(entries) < target.lane.max_entries
    /\ newEntry \/ entries # <<>>
    /\ newEntry /\ Len(entries) + 1 = target.lane.max_entries => n = 1
    /\ TotalMessages(entries) - confirmed + n <= target.lane.max_messages

\* receive_messages_proof with the next n messages, as far as the lane is concerned.
DeliverMessages(n, newEntry) ==
    /\ n <= Len(outbox) /\ n <= target.lane.max_messages
    /\ AcceptsMessages(n, newEntry)
    /\ DeliveryFits(SubSeq(outbox, 1, n))
    /\ outbox' = SubSeq(outbox, n + 1, Len(outbox))
    /\ entries' = IF newEntry THEN Append(entries, n)
                  ELSE [entries EXCEPT ![Len(entries)] = @ + n]
    /\ UNCHANGED <<target, source, known, confirmed, received>>

\* The transaction that confirms the lane fits a block of the source.
ConfirmationFits(lane) ==
    LET proof_size == EncodedLaneSize(lane) + ProofOverhead
    IN  Fits(source, proof_size + TransactionOverhead,
             ReceiveDeliveryProofWeight(source.weights, proof_size, RelayersState(lane)))

\* receive_messages_delivery_proof: all messages that are delivered are now confirmed.
ConfirmMessages ==
    /\ received < TotalMessages(entries)
    /\ ConfirmationFits(entries)
    /\ received' = TotalMessages(entries)
    /\ UNCHANGED <<target, source, known, outbox, entries, confirmed>>

\* The messages of the first n entries.
FirstMessages(n) == TotalMessages(SubSeq(entries, 1, n))

\* Mutant: an entry that is partly confirmed is kept as a whole.
ReceiveStateUpdateWithoutSplit(gone) ==
    LET partly == received - FirstMessages(gone)
    IN  /\ confirmed < received
        /\ 0 <= partly
        /\ gone < Len(entries) => received < FirstMessages(gone + 1)
        /\ entries' = SubSeq(entries, gone + 1, Len(entries))
        /\ confirmed' = partly
        /\ received' = partly
        /\ UNCHANGED <<target, source, known, outbox>>

\* receive_state_update with latest_received_nonce: the entries that are confirmed as a
\* whole, gone in number, leave the lane, and the next one loses its confirmed messages,
\* unless it has just one of them.
ReceiveStateUpdate(gone) ==
    LET partly == received - FirstMessages(gone)
        left == SubSeq(entries, gone + 1, Len(entries))
    IN  /\ confirmed < received
        /\ 0 <= partly
        /\ gone < Len(entries) => received < FirstMessages(gone + 1)
        /\ entries' = IF partly > 1 THEN [left EXCEPT ![1] = @ - partly] ELSE left
        /\ confirmed' = IF partly > 1 THEN 0 ELSE partly
        /\ received' = confirmed'
        /\ UNCHANGED <<target, source, known, outbox>>

\* An upgrade of the target, whose tests pass.  Constants that are "smaller than
\* before" may "lead to undeliverable messages": here they only grow.
UpgradeTarget(runtime) ==
    /\ target.max_extrinsic_size <= runtime.max_extrinsic_size
    /\ target.max_extrinsic_weight <= runtime.max_extrinsic_weight
    /\ target' = runtime
    /\ UNCHANGED <<source, known, outbox, lane_vars>>

\* Later, an upgrade of the source with the new constants.
UpgradeSource(constants) ==
    /\ AssertChainConstants(constants, target)
    /\ known # constants
    /\ known' = constants
    /\ UNCHANGED <<target, source, outbox, lane_vars>>

Init ==
    /\ target \in TargetRuntimes
    /\ source \in SourceRuntimes
    /\ known \in {l \in ChainLimits : AssertChainConstants(l, target)}
    /\ outbox = <<>>
    /\ entries = <<>>
    /\ confirmed = 0
    /\ received = 0

Next ==
    \/ \E message \in SomeMessages : SendMessage(message)
    \/ \E n \in 1..MaxOutbox, newEntry \in BOOLEAN : DeliverMessages(n, newEntry)
    \/ ConfirmMessages
    \/ \E gone \in 0..Len(entries) : ReceiveStateUpdate(gone)
    \/ \E runtime \in TargetRuntimes : UpgradeTarget(runtime)
    \/ \E constants \in ChainLimits : UpgradeSource(constants)

Spec == Init /\ [][Next]_vars

-----------------------------------------------------------------------------
(* Properties. *)

\* "Ok result from this function means that the delivery transaction with this
\* message may be 'mined' by the target chain" (verify_chain_message): a message that
\* the source accepted can be delivered on its own, with the proof of the lane state,
\* through all upgrades that may follow.
AcceptedMessagesDeliverable ==
    \A i \in 1..Len(outbox) : DeliveryFits(<<outbox[i]>>)

\* However the relayers fill the inbound lane, the source can confirm it in one
\* transaction, with the weight of rewarding every relayer for every message: otherwise
\* the lane could never be emptied again.  Only a full lane that still has a message
\* which is known to be confirmed may have one message too many for that.
LaneConfirmable ==
    \/ ConfirmationFits(entries)
    \/ confirmed = 1 /\ TotalMessages(entries) = MaxMessagesInConfirmation + 1

\* modules/messages/src/weights_ext.rs:151 says of ensure_able_to_receive_confirmation
\* "Ensure that we're able to receive maximal confirmation from other chain": every
\* inbound lane can be confirmed.
MaximalConfirmationFits == ConfirmationFits(entries)

\* The time of a delivery that pays some dispatch fees, with the dispatched calls, and
\* the weight that its relayer is charged: every prepaid message gives some back.
TimeTaken(batch, fees) ==
    DeliveryCost(target.costs, Len(batch), 1, fees, ProofSize(batch)) + TotalDispatchWeight(batch)
FeesPaid(batch) == SumFunction([i \in 1..Len(batch) |-> batch[i].payment])
ChargedWeight(batch) ==
    SaturatingSub(DeclaredWeight(batch),
                  (Len(batch) - FeesPaid(batch)) * PayInboundDispatchFeeOverhead(target.weights))
Reserve(runtime) == StorageProofSizeOverhead(runtime.weights, EXTRA_STORAGE_PROOF_SIZE)

\* The weights that relayers and senders pay for, extrapolated from the benchmarks of
\* one and two messages, cover the time of the calls for every batch of waiting
\* messages and every inbound lane, but for the bytes that a proof may have for
\* nothing and the payment of dispatch fees.  Otherwise blocks would take longer than
\* the weights of their transactions allow.
WeightsCoverTime ==
    /\ \A n \in 1..Len(outbox) :
         LET batch == SubSeq(outbox, 1, n)
         IN  TimeTaken(batch, 0) <= ChargedWeight(batch) + Reserve(target)
    /\ \A i \in 1..Len(outbox) :
         SendCost(source.costs, outbox[i].size, MaxMessagesToPruneAtOnce)
           <= SendMessageWeight(source.weights, outbox[i].size)
    /\ LET proof_size == EncodedLaneSize(entries) + ProofOverhead
       IN  ConfirmationCost(source.costs, TotalMessages(entries), Len(entries), proof_size)
             <= ReceiveDeliveryProofWeight(source.weights, proof_size, RelayersState(entries))
                  + Reserve(source)
=============================================================================
