--------------------------- MODULE MCMessageLane ---------------------------
(***************************************************************************)
(* MessageLane and its loops for TLC.                                      *)
(***************************************************************************)
EXTENDS LaneLoops, TLC

\* Odd messages weigh 1, even ones 2; every third dispatch fails; a dispatch leaves the
\* part above 1 of its weight unspent.
Weights == [n \in Nonces |-> IF n % 2 = 0 THEN 2 ELSE 1]
Unspent == [n \in Nonces |-> Weights[n] - 1]
Results == [n \in Nonces |-> n % 3 # 0]

\* Relayers are interchangeable.
RelayerSymmetry == Permutations(Relayers)

=============================================================================
