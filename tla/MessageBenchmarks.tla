-------------------------- MODULE MessageBenchmarks --------------------------
(***************************************************************************)
(* Where the weights of the messages pallet come from: benchmarks run its  *)
(* calls on a few prepared inputs and measure them.  Here a call takes a   *)
(* time (in nanoseconds) that depends linearly on its input, by costs that *)
(* differ from chain to chain, and a benchmark is the time for its input.  *)
(***************************************************************************)
EXTENDS Integers, ProofSizes

CONSTANTS
    MaxMessagesToPruneAtOnce,
    BenchmarkProofOverhead,   \* bytes that a benchmark's proof has besides each call or lane
    OutboundLaneDataSize      \* bytes of an outbound lane state in a proof

ASSUME BenchmarksAssumption ==
    /\ {MaxMessagesToPruneAtOnce, BenchmarkProofOverhead, OutboundLaneDataSize} \subseteq Nat
    \* otherwise the proof of "1 KB" is larger, and not 15 KB smaller than that of 16 KB
    /\ BenchmarkProofOverhead <= 1024

EXPECTED_DEFAULT_MESSAGE_LENGTH == 128

-----------------------------------------------------------------------------
(* The time the calls take, by the costs c of a chain. *)

CallCosts ==
    [send : Nat, send_byte : Nat, prune : Nat,
     delivery : Nat, message : Nat, lane_state : Nat, pay_fee : Nat,
     confirmation : Nat, confirmed : Nat, relayer : Nat, proof_byte : Nat]

SendCost(c, size, pruned) == c.send + size * c.send_byte + pruned * c.prune

DeliveryCost(c, messages, laneState, paidAtTarget, proof_size) ==
    c.delivery + messages * c.message + laneState * c.lane_state + paidAtTarget * c.pay_fee
      + proof_size * c.proof_byte

ConfirmationCost(c, messages, relayers, proof_size) ==
    c.confirmation + messages * c.confirmed + relayers * c.relayer + proof_size * c.proof_byte

-----------------------------------------------------------------------------
(* The inputs of the benchmarks. *)

\* prepare_messages_storage_proof: the size of a proof of some messages with the same
\* payload, and of a lane state or none.
PrepareMessagesStorageProof(messages, payload, laneState, requirement) ==
    GrowTrie(messages * (payload + BenchmarkProofOverhead) + laneState * OutboundLaneDataSize,
             requirement)

\* prepare_message_proof: the payload is a remark, as long as the minimal size asks for.
PrepareMessageProof(messages, laneState, requirement) ==
    LET remark == IF requirement.kind = "Minimal" THEN requirement.size ELSE 0
    IN  PrepareMessagesStorageProof(messages, remark, laneState, requirement)

\* prepare_message_delivery_proof: the size of a proof of an inbound lane.
PrepareDeliveryProof(requirement) == GrowTrie(BenchmarkProofOverhead, requirement)

ReceiveBenchmark(c, messages, laneState, requirement, paidAtTarget) ==
    DeliveryCost(c, messages, laneState, paidAtTarget,
                 PrepareMessageProof(messages, laneState, requirement))
ConfirmBenchmark(c, messages, relayers) ==
    ConfirmationCost(c, messages, relayers, PrepareDeliveryProof(Minimal(0)))

AtSourceChain == 0
AtTargetChain == 1

\* prepare_outbound_message
PrepareOutboundMessage(size) == [size |-> size, weight |-> size, payment |-> AtSourceChain]

\* send_regular_message, n times: the outbound lane of the benchmarks of send_message.
SendRegularMessages(n) ==
    [oldest_unpruned_nonce |-> 1, latest_received_nonce |-> 0, latest_generated_nonce |-> n]

\* Mutant: the messages stay unconfirmed.
ConfirmNothing(lane, nonce) == lane

\* confirm_message_delivery
ConfirmMessageDelivery(lane, nonce) == [lane EXCEPT !.latest_received_nonce = nonce]

\* prune_messages: the messages that the next send_message prunes.
PrunedBySend(lane) ==
    LET confirmed == lane.latest_received_nonce + 1 - lane.oldest_unpruned_nonce
    IN  IF confirmed < MaxMessagesToPruneAtOnce THEN confirmed ELSE MaxMessagesToPruneAtOnce

SendBenchmark(c, size) ==
    LET lane == ConfirmMessageDelivery(SendRegularMessages(MaxMessagesToPruneAtOnce),
                                       MaxMessagesToPruneAtOnce)
    IN  SendCost(c, PrepareOutboundMessage(size).size, PrunedBySend(lane))

-----------------------------------------------------------------------------
(* The benchmarks. *)

send_minimal_message_worst_case(c) == SendBenchmark(c, 0)
send_1_kb_message_worst_case(c) == SendBenchmark(c, 1024)
send_16_kb_message_worst_case(c) == SendBenchmark(c, 16 * 1024)

receive_single_message_proof(c) ==
    ReceiveBenchmark(c, 1, 0, Minimal(EXPECTED_DEFAULT_MESSAGE_LENGTH), AtSourceChain)
receive_two_messages_proof(c) ==
    ReceiveBenchmark(c, 2, 0, Minimal(EXPECTED_DEFAULT_MESSAGE_LENGTH), AtSourceChain)
receive_single_message_proof_with_outbound_lane_state(c) ==
    ReceiveBenchmark(c, 1, 1, Minimal(EXPECTED_DEFAULT_MESSAGE_LENGTH), AtSourceChain)
receive_single_message_proof_1_kb(c) ==
    ReceiveBenchmark(c, 1, 0, HasExtraNodes(1024), AtSourceChain)
receive_single_message_proof_16_kb(c) ==
    ReceiveBenchmark(c, 1, 0, HasExtraNodes(16 * 1024), AtSourceChain)
receive_single_prepaid_message_proof(c) ==
    ReceiveBenchmark(c, 1, 0, Minimal(EXPECTED_DEFAULT_MESSAGE_LENGTH), AtSourceChain)

receive_delivery_proof_for_single_message(c) == ConfirmBenchmark(c, 1, 1)

receive_delivery_proof_for_two_messages_by_single_relayer(c) == ConfirmBenchmark(c, 2, 1)
receive_delivery_proof_for_two_messages_by_two_relayers(c) == ConfirmBenchmark(c, 2, 2)

\* WeightInfo: what the benchmarks measure at a chain.
WeightInfo(c) ==
    [send_minimal_message_worst_case |-> send_minimal_message_worst_case(c),
     send_1_kb_message_worst_case |-> send_1_kb_message_worst_case(c),
     send_16_kb_message_worst_case |-> send_16_kb_message_worst_case(c),
     receive_single_message_proof |-> receive_single_message_proof(c),
     receive_two_messages_proof |-> receive_two_messages_proof(c),
     receive_single_message_proof_with_outbound_lane_state |->
         receive_single_message_proof_with_outbound_lane_state(c),
     receive_single_message_proof_1_kb |-> receive_single_message_proof_1_kb(c),
     receive_single_message_proof_16_kb |-> receive_single_message_proof_16_kb(c),
     receive_single_prepaid_message_proof |-> receive_single_prepaid_message_proof(c),
     receive_delivery_proof_for_single_message |-> receive_delivery_proof_for_single_message(c),
     receive_delivery_proof_for_two_messages_by_single_relayer |->
         receive_delivery_proof_for_two_messages_by_single_relayer(c),
     receive_delivery_proof_for_two_messages_by_two_relayers |->
         receive_delivery_proof_for_two_messages_by_two_relayers(c)]
=============================================================================
