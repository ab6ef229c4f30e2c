--------------------------- MODULE MCRevenueVault ---------------------------
(***************************************************************************)
(* Instances of RevenueVault for TLC: shares of one and two thirds, so     *)
(* that deposits leave dust which later deposits make claimable.           *)
(***************************************************************************)
EXTENDS RevenueVault, TLC

CONSTANTS m1, m2, m3

MCManagers == {m1, m2, m3}

\* The first member is also a manager.
MCWeights == [i \in 0..1 |-> i + 1]
MCKeys == [i \in 0..1 |-> IF i = 0 THEN m1 ELSE Other]

MCOneWeight == [i \in 0..0 |-> 3]
MCOneKey == [i \in 0..0 |-> Other]

\* Managers who hold no member key are interchangeable.
MCSymmetry == Permutations(MCManagers)

MCNoBallots == {}
MCPauses == {<<PAUSE, 0>>}
MCBallots == {<<PAUSE, 0>>, <<SET_FUEL, 2>>}
============================================================================
