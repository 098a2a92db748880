-------------------------- MODULE MCJustification --------------------------
(* The headers 3 and 4 descend from the finalized header 2, header 5 is on *)
(* a fork:                                                                 *)
(*                                                                         *)
(*    1 <- 2 <- 3 <- 4        1 <- 5                                        *)
(*                                                                         *)
(* Authority a and one of the others reach the threshold, b and c do not.  *)
EXTENDS Justification, TLC

CONSTANTS a, b, c, stranger

MCAuthorityWeight == [x \in {a, b, c} |-> IF x = a THEN 2 ELSE 1]
MCParent == <<0, 1, 2, 3, 1>>
LightAuthorities == Permutations({b, c})

=============================================================================
