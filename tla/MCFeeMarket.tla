----------------------------- MODULE MCFeeMarket -----------------------------
(* Alice quotes less or more than Bob, and has collateral for one order or *)
(* two; Bob, who also delivers, has it for two.  All of Alice's balance    *)
(* may be locked elsewhere as well.                                        *)
EXTENDS FeeMarket

CONSTANTS alice, bob

MCCollaterals == [who \in {alice, bob} |-> IF who = alice THEN {5, 10} ELSE {10}]
MCFees == [who \in {alice, bob} |-> IF who = alice THEN {3, 7} ELSE {5}]
MCOtherLocks == [who \in {alice, bob} |-> IF who = alice THEN {0, 10} ELSE {}]

=============================================================================
