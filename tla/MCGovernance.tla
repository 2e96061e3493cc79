---------------------------- MODULE MCGovernance ----------------------------
(* Instances of Governance for TLC: what each is for is in its .cfg.       *)
EXTENDS Governance

MCInitialVotes == [v \in Voters |-> IF v = "alice" THEN 2 ELSE 1]

MCInitialParams ==
  [votingDelay |-> 0, votingPeriod |-> 1, proposalThreshold |-> 2,
   quorumNumerator |-> 67, delay |-> 2, routed |-> TRUE]

MCSettings ==
  [votingDelay |-> {0, 1}, votingPeriod |-> {1, 2},
   proposalThreshold |-> {1, 2}, quorumNumerator |-> {34, 67},
   delay |-> {1, 2}, routed |-> BOOLEAN]

(* A local call that shortens the delay, and a message for another chain.  *)
MCActions ==
  {[chain |-> "arbitrum", name |-> "delay", value |-> 1],
   [chain |-> "solana", name |-> "pay", value |-> 1]}

MCAdminSettings ==
  {[name |-> "quorumNumerator", value |-> 34], [name |-> "delay", value |-> 1],
   [name |-> "routed", value |-> FALSE]}
=============================================================================
