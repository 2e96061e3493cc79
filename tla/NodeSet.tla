------------------------------ MODULE NodeSet ------------------------------
(***************************************************************************)
(* What the node registry promises the contracts that read it: the view of *)
(* IOracleStaking that OracleRounds uses (isEligibleAt, activeNodeCount,   *)
(* nodeSetVersion).  Nodes join and leave a set; every change of the set   *)
(* takes a fresh version, and a node carries the version it last joined    *)
(* at.  OracleStaking implements this specification, and OracleRounds is   *)
(* composed with it instead of with the whole registry.                    *)
(***************************************************************************)
EXTENDS Naturals, FiniteSets

CONSTANTS
  Nodes,       \* node operator addresses
  Ceiling,     \* _MAX_NODES_CEILING: no configuration admits more active nodes
  MaxVersion   \* bound on the number of membership changes

VARIABLES
  active,       \* the nodes in the set
  activatedAt,  \* the version at which a node last joined
  version       \* the number of membership changes so far

vars == <<active, activatedAt, version>>

(* isEligibleAt: the members that were already members at version v and    *)
(* have not left since.                                                    *)
EligibleAt(v) == {n \in active : activatedAt[n] <= v}

Init ==
  /\ active = {}
  /\ activatedAt = [n \in Nodes |-> 0]
  /\ version = 0

(* _activate, whichever operation calls it. *)
Join(n) ==
  /\ n \notin active
  /\ Cardinality(active) < Ceiling
  /\ version < MaxVersion
  /\ active' = active \cup {n}
  /\ version' = version + 1
  /\ activatedAt' = [activatedAt EXCEPT ![n] = version + 1]

(* _deactivate, whichever operation calls it. *)
Leave(n) ==
  /\ n \in active
  /\ version < MaxVersion
  /\ active' = active \ {n}
  /\ version' = version + 1
  /\ UNCHANGED activatedAt

Next == \E n \in Nodes : Join(n) \/ Leave(n)

Spec == Init /\ [][Next]_vars

TypeOK ==
  /\ active \subseteq Nodes
  /\ activatedAt \in [Nodes -> 0..MaxVersion]
  /\ version \in 0..MaxVersion

(* Nobody joined later than now, and the set never exceeds the ceiling     *)
(* that bounds the settlement sort.                                        *)
VersionsSound ==
  /\ \A n \in Nodes : activatedAt[n] <= version
  /\ Cardinality(active) <= Ceiling

(* The set a past version stands for can only lose members.  A node that   *)
(* leaves and joins again carries a newer version, so it does not come     *)
(* back into a snapshot it has left: a round's numerator can never outgrow *)
(* the denominator frozen when it opened.                                  *)
Shrinks == \A v \in 0..version : EligibleAt(v)' \subseteq EligibleAt(v)

SnapshotOnlyShrinks == [][Shrinks]_vars
=============================================================================
