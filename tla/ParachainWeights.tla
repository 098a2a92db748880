-------------------------- MODULE ParachainWeights --------------------------
(***************************************************************************)
(* The weight of submit_parachain_heads: benchmarks measure the call for a *)
(* few proofs, and WeightInfoExt extrapolates from them.  As in            *)
(* MessageBenchmarks, the time of a call depends linearly on its input.    *)
(***************************************************************************)
EXTENDS ProofSizes

CONSTANTS
    SubmitTime, HeadTime, WriteTime, ProofByteTime,  \* of a call, a head, a write, a proof byte
    HeadProofOverhead                                \* bytes a proof has besides each head

\* Size of the heads in the benchmarks, and the bytes that a proof has for nothing.
DEFAULT_PARACHAIN_HEAD_SIZE == 384
EXTRA_STORAGE_PROOF_SIZE == 1024

ASSUME ParachainWeightsAssumption ==
    /\ {SubmitTime, HeadTime, WriteTime, ProofByteTime, HeadProofOverhead} \subseteq Nat
    \* otherwise the proof of "1 KB" is larger, and not 15 KB smaller than that of 16 KB
    /\ DEFAULT_PARACHAIN_HEAD_SIZE + HeadProofOverhead <= 1024

\* The time of a call with some heads, of which it writes and prunes some; a head is
\* written with its hash.
SubmitCost(heads, written, pruned, proof_size) ==
    SubmitTime + heads * HeadTime + (2 * written + pruned) * WriteTime + proof_size * ProofByteTime

\* prepare_parachain_heads_proof: the size of a proof of n heads.
PrepareParachainHeadsProof(n, parachain_head_size, requirement) ==
    GrowTrie(n * (parachain_head_size + HeadProofOverhead), requirement)

-----------------------------------------------------------------------------
(* The benchmarks: all heads are new, and nothing is pruned. *)

submit_parachain_heads_with_n_parachains(n) ==
    SubmitCost(n, n, 0, PrepareParachainHeadsProof(n, DEFAULT_PARACHAIN_HEAD_SIZE, Minimal(0)))
submit_parachain_heads_with_1kb_proof ==
    SubmitCost(1, 1, 0, PrepareParachainHeadsProof(1, DEFAULT_PARACHAIN_HEAD_SIZE, HasExtraNodes(1024)))
submit_parachain_heads_with_16kb_proof ==
    SubmitCost(1, 1, 0, PrepareParachainHeadsProof(1, DEFAULT_PARACHAIN_HEAD_SIZE, HasExtraNodes(16 * 1024)))

-----------------------------------------------------------------------------
(* WeightInfoExt. *)

\* storage_proof_size_overhead
StorageProofSizeOverhead(bytes) ==
    bytes * ((submit_parachain_heads_with_16kb_proof - submit_parachain_heads_with_1kb_proof)
               \div (15 * 1024))

\* parachain_head_storage_write_weight, parachain_head_pruning_weight
HeadStorageWriteWeight == 2 * WriteTime
HeadPruningWeight == WriteTime

\* Mutant: the declared weight has no pruning in it.
DeclaredWithoutPruning(parachains_count, proof_size) ==
    LET expected == parachains_count * DEFAULT_PARACHAIN_HEAD_SIZE + EXTRA_STORAGE_PROOF_SIZE
        extra == IF proof_size > expected THEN proof_size - expected ELSE 0
    IN  submit_parachain_heads_with_n_parachains(parachains_count) + StorageProofSizeOverhead(extra)

\* submit_parachain_heads_weight
DeclaredWeight(parachains_count, proof_size) ==
    LET expected == parachains_count * DEFAULT_PARACHAIN_HEAD_SIZE + EXTRA_STORAGE_PROOF_SIZE
        extra == IF proof_size > expected THEN proof_size - expected ELSE 0
    IN  submit_parachain_heads_with_n_parachains(parachains_count)
          + StorageProofSizeOverhead(extra)
          + parachains_count * HeadPruningWeight
=============================================================================
