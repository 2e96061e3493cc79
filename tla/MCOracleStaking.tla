-------------------------- MODULE MCOracleStaking --------------------------
(* Two operators who can both be active only while maxNodes allows it, two *)
(* rounds to be slashed for, a cap of half the stake so that one or two    *)
(* slashes cross the floor.                                                *)
EXTENDS OracleStaking, TLC

MCSymmetry == Permutations(Nodes)
=============================================================================
