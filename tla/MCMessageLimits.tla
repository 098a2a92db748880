--------------------------- MODULE MCMessageLimits ---------------------------
(***************************************************************************)
(* MessageLimits for chains as large as the real ones and for small ones,  *)
(* whose limits are just enough, or too small, for what the tests ask for. *)
(***************************************************************************)
EXTENDS MessageLimits

MCOtherChains ==
    {[block_length |-> 8192, block_weight |-> 256400, on_initialize |-> 5],
     [block_length |-> 2892, block_weight |-> 188564, on_initialize |-> 5],
     [block_length |-> 2868, block_weight |-> 287500, on_initialize |-> 5],
     [block_length |-> 8192, block_weight |-> 188500, on_initialize |-> 5],
     [block_length |-> 8188, block_weight |-> 2000000, on_initialize |-> 1]}

\* Nanoseconds; free proof bytes are what the tests do not allow.
CostsWith(proof_byte) ==
    [send |-> 15000, send_byte |-> 1, prune |-> 500,
     delivery |-> 25000, message |-> 24000, lane_state |-> 8000, pay_fee |-> 20000,
     confirmation |-> 20000, confirmed |-> 10000, relayer |-> 15000,
     proof_byte |-> proof_byte]

MCCosts == {CostsWith(5), CostsWith(0), CostsWith(6)}

\* Costs of 6 per byte are above what is hard-coded.
MCExpectedWeights ==
    [default_message_delivery |-> 60000, additional_byte |-> 5,
     delivery_confirmation |-> 61100, pay_inbound_dispatch_fee |-> 0]

\* The last limits are larger than the source allows.
MCLaneLimits == [max_entries : {1, 3}, max_messages : {4}] \cup [max_entries : {4}, max_messages : {4}]
=============================================================================
