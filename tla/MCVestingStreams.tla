--------------------------- MODULE MCVestingStreams ---------------------------
(***************************************************************************)
(* Instances of VestingStreams for TLC.  The graded stream has a cliff   *)
(* that hides a step already passed, a total its duration does not divide, *)
(* and a last step shorter than the others; the plain one cannot be        *)
(* cancelled.                                                              *)
(***************************************************************************)
EXTENDS VestingStreams

Graded == [total |-> 4, start |-> 1, cliff |-> 4, end |-> 6, step |-> 2, revocable |-> TRUE]
Plain  == [total |-> 1, start |-> 2, cliff |-> 2, end |-> 4, step |-> 1, revocable |-> FALSE]

MCStreams == [i \in 0..1 |-> IF i = 0 THEN Graded ELSE Plain]

\* Only the refund receiver of the irrevocable stream is never needed.
MCBound == {<<0, 0>>, <<0, 1>>, <<1, 0>>}

MCKeys == [i \in 0..1 |-> IF i = 0 THEN Other ELSE Owner]

\* The graded stream alone, for longer histories of its two lanes.
MCOneStream == [i \in 0..0 |-> Graded]
MCOneBound == {<<0, 0>>, <<0, 1>>}
MCOneKey == [i \in 0..0 |-> Other]
===============================================================================
