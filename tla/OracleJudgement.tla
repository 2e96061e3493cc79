-------------------------- MODULE OracleJudgement --------------------------
(***************************************************************************)
(* The aggregation service's judgement of finished rounds:                 *)
(* backend/internal/oracle/aggregator.go and missed.go over the tables     *)
(* written by db/oracle_aggregation.go and db/oracle_misses.go.  One       *)
(* process alternates Step (signatures and outliers, in settlement order)  *)
(* and JudgeMisses (silence, in round order).  Each SQL statement is one   *)
(* action and the process may stop between any two of them.                *)
(***************************************************************************)
EXTENDS Integers, FiniteSets, Sequences, FiniteSetsExt, MedianPrice

CONSTANTS
  NodeOrder,        \* node addresses in the order verdicts are sorted
  MaxRounds,        \* bound on the number of rounds opened
  Shapes,           \* how each round may go
  Late,             \* sets of nodes whose submissions may be indexed late
  ByHand,           \* sets of <<node, round>> an operator may have slashed
  Threshold,        \* OutlierThreshBps
  BatchSize,
  MissLimit,        \* ConsecutiveMissLimit
  Dust,             \* nodes whose stake rounds every penalty to nothing
  MaxUnread,        \* bound on signatures that fail to load
  MaxCrashes        \* bound on restarts of the service

BPS == 10000
Nodes == Range(NodeOrder)
RoundIds == 1..MaxRounds
Keys == Nodes \X RoundIds

(* What the chain recorded of a round.  `expected`: the nodes with an      *)
(* interval that contains the round's version; `values`: the price of each *)
(* node that submitted; `forged`, `noNonce`: submissions whose signature   *)
(* does not verify, or cannot be checked; `removed`: nodes that an admin   *)
(* or the floor removed before the deadline.                               *)
Open == [expected |-> {}, values |-> <<>>, forged |-> {}, noNonce |-> {},
         closedEarly |-> FALSE, removed |-> {}]

ASSUME JudgementAssumption ==
  /\ NodeOrder \in Seq(Nodes) /\ IsInjective(NodeOrder)
  /\ MaxRounds \in Nat
  /\ \A s \in UNION {Shapes[r] : r \in RoundIds} :
       /\ DOMAIN s = DOMAIN Open
       /\ DOMAIN s.values \subseteq s.expected /\ s.expected \subseteq Nodes
       /\ s.forged \subseteq DOMAIN s.values
       /\ s.noNonce \subseteq DOMAIN s.values
  /\ {} \in Late /\ \A l \in Late : l \subseteq Nodes
  /\ ByHand # {} /\ \A h \in ByHand : h \subseteq Keys
  /\ Dust \subseteq Nodes
  /\ Threshold \in Nat
  /\ BatchSize \in Nat \ {0}
  /\ MissLimit \in Nat \ {0}
  /\ MaxUnread \in Nat
  /\ MaxCrashes \in Nat

VARIABLES
  opened,           \* db: rounds 1..opened have a row
  closed,           \* db: finished rounds, in the order they settled
  shape,            \* what the chain recorded of each round
  unindexed,        \* submissions of a finished round not yet in the db
  aggregated,       \* db: rounds with aggregated_at
  judged,           \* db: rounds with misses_judged_at
  outcomes,         \* db: oracle_round_outcomes
  reasons,          \* db: oracle_slashings, the reason of the row if any
  phase,            \* service: "step" or "judge"
  batch,            \* service: rounds Step still has to analyse
  round,            \* service: the round in hand, 0 if none
  verdicts,         \* service: verdicts still to be recorded
  penalties,        \* service: penalties still to be decided
  handled,          \* service: rounds judged in this call of JudgeMisses
  unread, crashes

history == <<opened, closed, shape, unindexed>>
tables  == <<aggregated, judged, outcomes, reasons>>
memory  == <<phase, batch, round, verdicts, penalties, handled>>
vars == <<history, tables, memory, unread, crashes>>

IsClosed(r) == \E i \in 1..Len(closed) : closed[i] = r
Submitters(r) == DOMAIN shape[r].values

-----------------------------------------------------------------------------
(* What the service reads of a round. *)

(* Both lists hold what is indexed so far; no round has more submissions   *)
(* than MaxSubmissions.                                                    *)
ListOracleSubmissions(r) == Submitters(r) \ unindexed[r]
RoundSubmitters(r) == Submitters(r) \ unindexed[r]

(* The nodes whose interval contains the version the round froze. *)
NodeIntervalsAt(r) == shape[r].expected

(* A load of a stored signature may fail. *)
LostSignatures(nodes) ==
  {lost \in SUBSET nodes : unread + Cardinality(lost) <= MaxUnread}

(* Finished and not analysed, in the order they settled, BatchSize of them.*)
UnaggregatedRounds ==
  LET todo == {i \in DOMAIN closed : closed[i] \notin aggregated}
  IN {closed[i] : i \in {x \in todo :
                          Cardinality({j \in todo : j <= x}) <= BatchSize}}

NextOf(rounds) ==
  LET places == {i \in DOMAIN closed : closed[i] \in rounds}
  IN closed[CHOOSE i \in places : \A j \in places : i <= j]

-----------------------------------------------------------------------------
(* Pure judgement.  Operators named Mutant... are variants with a bug the  *)
(* code could have had, none is part of Next.                              *)

(* JudgeRound, for one node the round expected to hear from. *)
Verdict(r, submitters, n) ==
  CASE n \in submitters -> "submitted"
    [] n \notin submitters /\ \/ submitters = {}
                              \/ shape[r].closedEarly
                              \/ n \in shape[r].removed -> "excused"
    [] OTHER -> "missed"

(* One turn of PenaltiesFor: the streak after a round.  It restarts at a   *)
(* submission and at the miss that completes it; a round that did not      *)
(* expect the node has no outcome and no turn.                             *)
StreakAfter(streak, outcome) ==
  CASE outcome = "submitted" -> 0
    [] outcome \in {"excused", "none"} -> streak
    [] outcome = "missed" -> IF streak + 1 >= MissLimit THEN 0 ELSE streak + 1

Streaks(outcome) ==
  LET streak[r \in 0..MaxRounds] ==
        IF r = 0 THEN 0 ELSE StreakAfter(streak[r - 1], outcome[r])
  IN streak

(* PenaltiesFor: the penalty for the last outcome of a history that ends   *)
(* in a miss.                                                              *)
LastPenalty(outcome) ==
  LET recorded == {r \in RoundIds : outcome[r] # "none"}
      last == CHOOSE r \in recorded : \A q \in recorded : q <= r
  IN IF Streaks(outcome)[last - 1] + 1 >= MissLimit
     THEN "CONSECUTIVE_MISSES" ELSE "MISSED_ROUND"

(* What is recorded of a node, by round. *)
NodeOutcomeHistory(n) == [r \in RoundIds |-> outcomes[<<n, r>>]]

(* Prices are positive, so the median of a round is. *)
Deviation(value, median) ==
  LET diff == IF value > median THEN value - median ELSE median - value
  IN (diff * BPS) \div median

(* The values that count, in some order, and the service's own median.     *)
CountedValues(r, counted) ==
  FoldSet(LAMBDA n, seq : Append(seq, shape[r].values[n]), <<>>, counted)

ServiceValue(values) == IF values = <<>> THEN 0 ELSE ServiceMedian(values)

DetectOutliers(r, counted, median) ==
  {n \in counted : Deviation(shape[r].values[n], median) > Threshold}

Decision(n, reason) == [node |-> n, reason |-> reason]

(* Invalid signatures come before outliers, nodes in the order of their    *)
(* addresses.                                                              *)
Turn(d) ==
  (CHOOSE i \in DOMAIN NodeOrder : NodeOrder[i] = d.node) +
    (IF d.reason = "OUTLIER_SUBMISSION" THEN Len(NodeOrder) ELSE 0)

First(decisions) ==
  CHOOSE d \in decisions : \A e \in decisions : Turn(d) <= Turn(e)

-----------------------------------------------------------------------------
(* The rounds the service looks at. *)

OpenRound ==
  /\ opened < MaxRounds
  /\ opened' = opened + 1
  /\ UNCHANGED <<closed, shape, unindexed, tables, memory, unread, crashes>>

(* Rounds of different feeds finish in any order. *)
CloseRound(r, s) ==
  /\ r <= opened
  /\ ~IsClosed(r)
  /\ closed' = Append(closed, r)
  /\ shape' = [shape EXCEPT ![r] = s]
  /\ \E late \in Late :
       unindexed' = [unindexed EXCEPT ![r] = late \cap DOMAIN s.values]
  /\ UNCHANGED <<opened, tables, memory, unread, crashes>>

IndexSubmissions(r) ==
  /\ unindexed[r] # {}
  /\ unindexed' = [unindexed EXCEPT ![r] = {}]
  /\ UNCHANGED <<opened, closed, shape, tables, memory, unread, crashes>>

-----------------------------------------------------------------------------
(* decide and RecordSlashDecision.  A penalty that rounds to nothing is    *)
(* skipped.  The same reason again inserts nothing; another reason runs    *)
(* into the index of one row per node and round, the error ends the call,  *)
(* and the loop goes on with the other half.                               *)

Forget ==
  /\ batch' = {}
  /\ round' = 0
  /\ verdicts' = {}
  /\ penalties' = {}
  /\ handled' = 0

OtherHalf(p) == IF p = "step" THEN "judge" ELSE "step"

(* Without the NOT EXISTS, a replay runs into the index as well. *)
MutantRecorded(k, reason) == FALSE

Recorded(k, reason) == reasons[k] = reason

RecordSlashDecision(k, reason) ==
  \/ Recorded(k, reason) /\ UNCHANGED reasons
  \/ reasons[k] = "none" /\ reasons' = [reasons EXCEPT ![k] = reason]

DecideNext ==
  LET d == First(penalties)
      k == <<d.node, round>>
  IN /\ round # 0
     /\ verdicts = {}
     /\ penalties # {}
     /\ d.reason # "miss"
     /\ \/ /\ \/ d.node \in Dust /\ UNCHANGED reasons
              \/ d.node \notin Dust /\ RecordSlashDecision(k, d.reason)
           /\ penalties' = penalties \ {d}
           /\ UNCHANGED <<phase, batch, round, verdicts, handled>>
        \/ /\ d.node \notin Dust
           /\ reasons[k] # "none" /\ ~Recorded(k, d.reason)
           /\ phase' = OtherHalf(phase)
           /\ Forget
           /\ UNCHANGED reasons
     /\ UNCHANGED <<history, aggregated, judged, outcomes, unread, crashes>>

-----------------------------------------------------------------------------
(* Aggregator.Step *)

LoadUnaggregated ==
  /\ phase = "step" /\ batch = {} /\ round = 0
  /\ batch' = UnaggregatedRounds
  /\ phase' = IF UnaggregatedRounds = {} THEN "judge" ELSE "step"
  /\ UNCHANGED <<history, tables, round, verdicts, penalties, handled, unread,
                 crashes>>

(* Whether a stored signature is its node's, over this very submission.    *)
Verifies(n, r) == n \notin shape[r].forged

(* analyse, up to its first decision.  `lost` are the signatures whose     *)
(* load failed: the code files them with the invalid ones.  (Quantifiers   *)
(* name the values and their median so that TLC computes them once.)       *)
Analyse ==
  /\ phase = "step" /\ batch # {} /\ round = 0
  /\ LET r == NextOf(batch)
         known == ListOracleSubmissions(r)
     IN \E lost \in LostSignatures(known) :
          LET unverifiable == (known \cap shape[r].noNonce) \ lost
              invalid == lost \cup
                {n \in known \ unverifiable : ~Verifies(n, r)}
              counted == known \ invalid
          IN \E values \in {CountedValues(r, counted)} :
             \E median \in {ServiceValue(values)} :
               /\ unread' = unread + Cardinality(lost)
               /\ round' = r
               /\ penalties' =
                    {Decision(n, "INVALID_SIGNATURE") : n \in invalid} \cup
                    {Decision(n, "OUTLIER_SUBMISSION") :
                       n \in DetectOutliers(r, counted, median)}
  /\ UNCHANGED <<history, tables, phase, batch, verdicts, handled, crashes>>

MarkRoundAggregated ==
  /\ phase = "step" /\ round # 0 /\ penalties = {}
  /\ aggregated' = aggregated \cup {round}
  /\ batch' = batch \ {round}
  /\ round' = 0
  /\ phase' = IF batch = {round} THEN "judge" ELSE "step"
  /\ UNCHANGED <<history, judged, outcomes, reasons, verdicts, penalties,
                 handled, unread, crashes>>

-----------------------------------------------------------------------------
(* Aggregator.JudgeMisses *)

Unjudged == {r \in 1..opened : r \notin judged}

(* Rounds that are still open are passed over. *)
MutantNextRoundToJudge ==
  LET ready == {r \in Unjudged : IsClosed(r)}
  IN IF ready = {} THEN 0 ELSE CHOOSE r \in ready : \A q \in ready : r <= q

NextRoundToJudge ==
  IF Unjudged = {} THEN 0
  ELSE CHOOSE r \in Unjudged : \A q \in Unjudged : r <= q

(* Rounds are taken as they open. *)
MutantReadyOpen(r) == r # 0 /\ unindexed[r] = {}

(* A submission that is not indexed yet does not hold judgement back. *)
MutantReady(r) == r # 0 /\ IsClosed(r)

(* Waits for the first unfinished round, and for the indexer. *)
Ready(r) == r # 0 /\ IsClosed(r) /\ unindexed[r] = {}

StopJudging ==
  /\ phase = "judge" /\ round = 0
  /\ handled = BatchSize \/ ~Ready(NextRoundToJudge)
  /\ phase' = "step"
  /\ handled' = 0
  /\ UNCHANGED <<history, tables, batch, round, verdicts, penalties, unread,
                 crashes>>

JudgeRound ==
  LET r == NextRoundToJudge
      heard == RoundSubmitters(r)
  IN /\ phase = "judge" /\ round = 0
     /\ handled < BatchSize
     /\ Ready(r)
     /\ round' = r
     /\ verdicts' =
          {Decision(n, Verdict(r, heard, n)) : n \in NodeIntervalsAt(r)}
     /\ penalties' =
          {Decision(n, "miss") : n \in {m \in NodeIntervalsAt(r) :
                                         Verdict(r, heard, m) = "missed"}}
     /\ UNCHANGED <<history, tables, phase, batch, handled, unread, crashes>>

(* RecordRoundOutcomes: one insert per verdict, none twice. *)
RecordOutcome ==
  LET v == First(verdicts)
      k == <<v.node, round>>
  IN /\ verdicts # {}
     /\ verdicts' = verdicts \ {v}
     /\ outcomes' = [outcomes EXCEPT ![k] = IF @ = "none" THEN v.reason ELSE @]
     /\ UNCHANGED <<history, aggregated, judged, reasons, phase, batch, round,
                    penalties, handled, unread, crashes>>

(* The node's whole history is read when its penalty is due. *)
ReadHistory ==
  LET d == First(penalties)
      penalty == LastPenalty(NodeOutcomeHistory(d.node))
  IN /\ phase = "judge" /\ round # 0
     /\ verdicts = {} /\ penalties # {}
     /\ d.reason = "miss"
     /\ penalties' = (penalties \ {d}) \cup {Decision(d.node, penalty)}
     /\ UNCHANGED <<history, tables, phase, batch, round, verdicts, handled,
                    unread, crashes>>

MarkMissesJudged ==
  /\ phase = "judge" /\ round # 0 /\ verdicts = {} /\ penalties = {}
  /\ judged' = judged \cup {round}
  /\ round' = 0
  /\ handled' = handled + 1
  /\ UNCHANGED <<history, aggregated, outcomes, reasons, phase, batch,
                 verdicts, penalties, unread, crashes>>

(* A restart, or a statement that fails and ends the call it is in: what   *)
(* is in memory is gone.                                                   *)
Crash ==
  /\ crashes < MaxCrashes
  /\ crashes' = crashes + 1
  /\ phase' \in {"step", OtherHalf(phase)}
  /\ Forget
  /\ UNCHANGED <<history, tables, unread>>

-----------------------------------------------------------------------------
Init ==
  /\ opened = 0
  /\ closed = <<>>
  /\ shape = [r \in RoundIds |-> Open]
  /\ unindexed = [r \in RoundIds |-> {}]
  /\ aggregated = {}
  /\ judged = {}
  /\ outcomes = [k \in Keys |-> "none"]
  /\ \E hand \in ByHand :
       reasons = [k \in Keys |-> IF k \in hand THEN "MANUAL" ELSE "none"]
  /\ phase = "step"
  /\ batch = {}
  /\ round = 0
  /\ verdicts = {}
  /\ penalties = {}
  /\ handled = 0
  /\ unread = 0
  /\ crashes = 0

ServiceStep ==
  \/ LoadUnaggregated
  \/ Analyse
  \/ MarkRoundAggregated
  \/ StopJudging
  \/ JudgeRound
  \/ RecordOutcome
  \/ ReadHistory
  \/ DecideNext
  \/ MarkMissesJudged

Next ==
  \/ OpenRound
  \/ \E r \in RoundIds : \E s \in Shapes[r] : CloseRound(r, s)
  \/ \E r \in RoundIds : IndexSubmissions(r)
  \/ ServiceStep
  \/ Crash

Spec == Init /\ [][Next]_vars

(* The service's loop and the indexer's run for ever. *)
Fairness ==
  /\ WF_vars(ServiceStep)
  /\ \A r \in RoundIds : WF_vars(IndexSubmissions(r))

FairSpec == Spec /\ Fairness

-----------------------------------------------------------------------------
(* Properties. *)

MissReasons == {"MISSED_ROUND", "CONSECUTIVE_MISSES"}
SignatureReasons == {"INVALID_SIGNATURE", "OUTLIER_SUBMISSION"}
Outcomes == {"submitted", "missed", "excused"}

TypeOK ==
  /\ opened \in 0..MaxRounds
  /\ IsInjective(closed) /\ Range(closed) \subseteq 1..opened
  /\ \A r \in RoundIds : shape[r] \in Shapes[r] \/ ~IsClosed(r)
  /\ \A r \in RoundIds : unindexed[r] \subseteq Submitters(r)
  /\ aggregated \cup judged \subseteq Range(closed)
  /\ outcomes \in [Keys -> Outcomes \cup {"none"}]
  /\ reasons \in
       [Keys -> MissReasons \cup SignatureReasons \cup {"MANUAL", "none"}]
  /\ phase \in {"step", "judge"}
  /\ Cardinality(batch) <= BatchSize /\ batch \subseteq Range(closed)
  /\ round \in Range(closed) \cup {0}
  /\ verdicts \subseteq [node : Nodes, reason : Outcomes]
  /\ penalties \subseteq
       [node : Nodes, reason : MissReasons \cup SignatureReasons \cup {"miss"}]
  /\ handled \in 0..BatchSize
  /\ unread \in 0..MaxUnread
  /\ crashes \in 0..MaxCrashes

(* What a node did in a round, from the chain's record alone. *)
Missed(n, r) ==
  /\ n \in shape[r].expected \ Submitters(r)
  /\ Submitters(r) # {}
  /\ ~shape[r].closedEarly
  /\ n \notin shape[r].removed

MissesSinceHeard(n, r) ==
  {q \in 1..r : Missed(n, q) /\ \A h \in q..r : n \notin Submitters(h)}

(* "strictly in round order": whatever order rounds settle in, however     *)
(* late a submission is indexed and wherever the service stops, a judged   *)
(* round costs a silent node the single penalty, or the streak penalty at  *)
(* every MissLimit-th miss since it was last heard, as if the rounds had   *)
(* been judged one after another.                                          *)
PenaltiesFollowRoundOrder ==
  \A r \in judged, n \in Nodes \ Dust :
    Missed(n, r) =>
      reasons[<<n, r>>] =
        IF Cardinality(MissesSinceHeard(n, r)) % MissLimit = 0
        THEN "CONSECUTIVE_MISSES" ELSE "MISSED_ROUND"

(* A node whose submission is on chain, or that could not submit (an       *)
(* outage, a round closed early, its removal), is never charged for        *)
(* silence, not even while its submission is still to be indexed.          *)
NoMissForHeard ==
  \A n \in Nodes, r \in RoundIds :
    reasons[<<n, r>>] \in MissReasons => Missed(n, r)

ManualIn(rounds) == \E k \in Nodes \X rounds : reasons[k] = "MANUAL"

(* Judgement waits for unfinished rounds and for nothing else: once all    *)
(* rounds up to r are finished, and nobody slashed by hand in them, r is   *)
(* judged, whatever Step is stuck on and however often the service stops.  *)
(* (What is finished, judged, analysed or slashed for remains so: that the *)
(* one leads to the other is that again and again it does not lag behind.) *)
EveryRoundJudged ==
  \A r \in RoundIds :
    []<>((\A q \in 1..r : IsClosed(q)) /\ ~ManualIn(1..r) => r \in judged)

(* "a crash mid-analysis leaves the round unmarked and it is retried       *)
(* rather than skipped.  Every write above is idempotent for exactly that  *)
(* reason" (aggregator.go:259-260): without slashes by hand every finished *)
(* round is analysed in the end.                                           *)
EveryRoundRetried ==
  \A r \in RoundIds : IsClosed(r) /\ ~ManualIn(RoundIds) ~> r \in aggregated

(* A signature that could not be loaded was filed as an invalid one, which *)
(* it is not, and slashed for, at a price that is an outlier.              *)
OutlierChargedUnread ==
  \E n \in Nodes, r \in RoundIds :
    /\ reasons[<<n, r>>] = "INVALID_SIGNATURE" /\ n \notin shape[r].forged
    /\ LET counted == Submitters(r) \ (shape[r].forged \ shape[r].noNonce)
       IN n \in DetectOutliers(r, counted,
                              ServiceValue(CountedValues(r, counted)))

(* What is left of the claim: a round is analysed in the end unless such a *)
(* node stands in its way or in that of an earlier one.  Analysed again,   *)
(* the node has a second reason, which the index of one row per node and   *)
(* round refuses for ever.                                                 *)
EveryRoundAnalysed ==
  \A r \in RoundIds :
    []<>(IsClosed(r) /\ ~ManualIn(RoundIds)
           => r \in aggregated \/ OutlierChargedUnread)

(* The two loops of the service over the same rows: neither starves the    *)
(* other or a round behind the one it works on, wherever it is stopped.    *)
EveryRoundHandled == EveryRoundJudged /\ EveryRoundAnalysed
=============================================================================
