--------------------------- MODULE MCChainMirror ---------------------------
(* The indexer on small chains. *)
EXTENDS ChainMirror, TLC

CONSTANTS a, b

MCWeight == a :> 1 @@ b :> 2

MCMaxCalls ==
  [k \in Kinds |-> CASE k \in {"governor", "rounds"} -> 4 [] k = "vault" -> 2 [] OTHER -> 3]

MCMaxId == [k \in Kinds |-> 1]

MCPerBlock == [k \in Kinds |-> IF k \in {"receiver", "vault"} THEN 2 ELSE 1]

MCFailures ==
  [k \in Kinds |-> CASE k = "zk" -> 3 [] k \in {"governor", "receiver"} -> 1 [] OTHER -> 2]

(* Nodes differ only in name: the first to join is a. *)
MCFirstIsA ==
  contract = "staking" /\ ledger' # <<>> =>
      \E e \in Range(ledger'[1].events) : e.who = a
============================================================================
