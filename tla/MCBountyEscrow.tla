--------------------------- MODULE MCBountyEscrow ---------------------------
(***************************************************************************)
(* Instances of BountyEscrow for TLC: two milestones of different worth,   *)
(* so that a sum identifies the milestones in it.                          *)
(***************************************************************************)
EXTENDS BountyEscrow

MCAmounts == [i \in 0..7 |-> IF i = 0 THEN 1 ELSE IF i = 1 THEN 2 ELSE 0]
============================================================================
