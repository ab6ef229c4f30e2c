------------------------- MODULE MCCausalContracts -------------------------
(***************************************************************************)
(* An instance of CausalContracts for TLC: an account of either version of *)
(* contract A, a receiver that exists, one that only a deploy creates,     *)
(* and the batch patch contract.                                           *)
(***************************************************************************)
EXTENDS CausalContracts, TLC

CONSTANTS a1, a2, B, C

MCInstalled == (a1 :> 1) @@ (a2 :> 2)
MCRoutes == {<<B, "receive">>, <<B, "drain">>, <<Patcher, "patch">>}
============================================================================
