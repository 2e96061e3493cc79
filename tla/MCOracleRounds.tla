--------------------------- MODULE MCOracleRounds ---------------------------
(* OracleRounds for TLC. *)
EXTENDS OracleRounds, TLC

CONSTANTS n1, n2, n3, f1, f2

(* Two cases of one instance: rounds of two feeds that overlap (the first  *)
(* one opened is called f1), with two nodes and one price; and one round   *)
(* of one feed, with three nodes and prices, so that order, outliers and   *)
(* an even count all occur.                                                *)
MCTwoFeeds ==
  /\ n3 \notin active' /\ rounds'[1].feedId # f2
  /\ \A r \in RoundIds : \A i \in DOMAIN roundValues'[r] : roundValues'[r][i] = 2

MCThreeNodes ==
  /\ nextRoundId' <= 2
  /\ ~feeds'[f2].registered /\ feeds'[f2].currentRoundId = 0

MCCases == MCTwoFeeds \/ MCThreeNodes
=============================================================================
