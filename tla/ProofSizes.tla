----------------------------- MODULE ProofSizes -----------------------------
(***************************************************************************)
(* The sizes (in bytes) of the storage proofs that benchmarks are run on.  *)
(***************************************************************************)
EXTENDS Integers

CONSTANT GrowStep   \* bytes that grow_trie adds to a proof at a time

ASSUME ProofSizesAssumption ==
    /\ GrowStep \in 1..1024
    \* otherwise the weight of a byte, of 15 KB, is only approximate
    /\ (15 * 1024) % GrowStep = 0

\* StorageProofSize
Minimal(size) == [kind |-> "Minimal", size |-> size]
HasExtraNodes(size) == [kind |-> "HasExtraNodes", size |-> size]

\* grow_trie: nodes are added until the proof is larger than it has to be.
GrowTrie(size, requirement) ==
    IF requirement.kind = "Minimal" \/ size > requirement.size THEN size
    ELSE size + GrowStep * ((requirement.size - size) \div GrowStep + 1)
=============================================================================
