--------------------------- MODULE MCStorageProofs ---------------------------
(* StorageProofs with lanes as model values, which are interchangeable. *)
EXTENDS StorageProofs, TLC

CONSTANTS l1, l2

LaneSymmetry == Permutations({l1, l2})
=============================================================================
