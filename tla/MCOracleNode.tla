---------------------------- MODULE MCOracleNode ----------------------------
(* Instances of OracleNode for TLC: what each is for is in its .cfg.       *)
EXTENDS OracleNode

(* Rounds too short for the headroom meet no other obstacle; and where one *)
(* is met, the other node answers the second round only.                   *)
MCCases ==
  faults' > 0 => roundDuration > 2 /\ submitted'[1] \subseteq {Self}
=============================================================================
