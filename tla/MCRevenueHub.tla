---------------------------- MODULE MCRevenueHub ----------------------------
(***************************************************************************)
(* An instance of RevenueHub for TLC: two members with shares of one and   *)
(* two thirds, and batches below and above the limit.                      *)
(***************************************************************************)
EXTENDS RevenueHub

CONSTANTS m1, m2, m3

MCManagers == {m1, m2, m3}
MCWeights == [i \in 0..1 |-> i + 1]
MCKeys == [i \in 0..1 |-> IF i = 0 THEN m1 ELSE m2]
MCNoBallots == {}
============================================================================
