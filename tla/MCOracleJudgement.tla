------------------------- MODULE MCOracleJudgement -------------------------
(* Instances of OracleJudgement for TLC.  Node 1 is the one that goes      *)
(* silent, lies or is removed; the others make the round a round.          *)
EXTENDS OracleJudgement, TLC

MCNodeOrder == <<1, 2, 3>>

Heard(nodes, price) == [n \in nodes |-> price]

Silent == [Open EXCEPT !.expected = {1, 2, 3}, !.values = Heard({2, 3}, 100)]
Outlying == [Open EXCEPT !.expected = {1, 2, 3},
                         !.values = (1 :> 200) @@ Heard({2, 3}, 100)]
Outage == [Open EXCEPT !.expected = {1, 2}]
ClosedEarly == [Silent EXCEPT !.closedEarly = TRUE, !.noNonce = {2}]
Removed == [Open EXCEPT !.expected = {1, 2, 3}, !.values = Heard({3}, 100),
                        !.forged = {3}, !.removed = {2}]

MCShapes == <<{Silent, Outage}, {Silent, Outlying, ClosedEarly}, {Removed}>>
MCTwo == <<{Silent, Outlying}, {Silent}>>

MCLate == {{}, {2}}
MCByHand == {{}, {<<1, 2>>}}
MCNobody == {{}}

(* A slash by hand and a signature that fails to load, in different        *)
(* behaviours.                                                             *)
MCOneTrouble == ManualIn(RoundIds) => unread' = 0
=============================================================================
