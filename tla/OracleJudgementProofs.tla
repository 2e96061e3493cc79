----------------------- MODULE OracleJudgementProofs -----------------------
(***************************************************************************)
(* Theorems about OracleJudgement, for any number of nodes and rounds, any *)
(* shapes of a round, any limit of misses and any number of restarts.      *)
(***************************************************************************)
EXTENDS OracleJudgement, DataFacts, TLAPS

(* What JudgeRound must find of a node once everything is indexed. *)
TrueOutcome(n, r) ==
  IF n \in shape[r].expected THEN Verdict(r, Submitters(r), n) ELSE "none"

(* The penalty of a missed round, from the chain's record alone. *)
Due(n, r) ==
  IF Cardinality(MissesSinceHeard(n, r)) % MissLimit = 0
  THEN "CONSECUTIVE_MISSES" ELSE "MISSED_ROUND"

(* Every round before this one is judged. *)
Reached(r) == \A q \in 1..r - 1 : q \in judged

AllClosed(r) == \A q \in 1..r : IsClosed(q)

WellShaped(s) == DOMAIN s.values \subseteq s.expected /\ s.expected \subseteq Nodes

HistoryInv ==
  /\ opened \in 0..MaxRounds
  /\ closed \in Seq(RoundIds)
  /\ IsInjective(closed)
  /\ \A i \in 1..Len(closed) : closed[i] <= opened
  /\ DOMAIN shape = RoundIds
  /\ \A r \in RoundIds : WellShaped(shape[r])
  /\ \A r \in RoundIds : shape[r] \in Shapes[r] \/ ~IsClosed(r)
  /\ DOMAIN unindexed = RoundIds
  /\ \A r \in RoundIds : unindexed[r] \subseteq Submitters(r)

(* Whatever is recorded is the truth, in the order of rounds: all of it up *)
(* to the rounds judged, part of it in the next one.                       *)
OutcomesTrue ==
  /\ \A n \in Nodes, r \in judged : outcomes[<<n, r>>] = TrueOutcome(n, r)
  /\ \A n \in Nodes, r \in RoundIds : outcomes[<<n, r>>] # "none" =>
       /\ outcomes[<<n, r>>] = TrueOutcome(n, r)
       /\ IsClosed(r) /\ Reached(r)

PenaltiesDue ==
  /\ \A n \in Nodes, r \in RoundIds : reasons[<<n, r>>] \in MissReasons =>
       /\ Missed(n, r) /\ reasons[<<n, r>>] = Due(n, r)
       /\ AllClosed(r)
  /\ \A r \in judged, n \in Nodes \ Dust :
       Missed(n, r) => reasons[<<n, r>>] = Due(n, r)

TablesInv ==
  /\ aggregated \subseteq RoundIds /\ \A r \in aggregated : IsClosed(r)
  /\ judged \subseteq RoundIds /\ \A r \in judged : IsClosed(r) /\ Reached(r)
  /\ outcomes \in [Keys -> Outcomes \cup {"none"}]
  /\ reasons \in
       [Keys -> MissReasons \cup SignatureReasons \cup {"MANUAL", "none"}]
  /\ OutcomesTrue
  /\ PenaltiesDue

(* A round in judgement: what is recorded and what is still to be recorded *)
(* cover the round, and both are right.                                    *)
Judging ==
  /\ handled < BatchSize
  /\ round \notin judged /\ Reached(round)
  /\ \A v \in verdicts : /\ v.node \in Nodes /\ v.reason \in Outcomes
                         /\ v.reason = TrueOutcome(v.node, round)
  /\ \A n \in shape[round].expected :
       \/ outcomes[<<n, round>>] = TrueOutcome(n, round)
       \/ \E v \in verdicts : v.node = n
  /\ \A d \in penalties : /\ d.node \in Nodes /\ Missed(d.node, round)
                          /\ d.reason \in {"miss", Due(d.node, round)}
  /\ \A n \in Nodes \ Dust : Missed(n, round) =>
       \/ reasons[<<n, round>>] = Due(n, round)
       \/ \E d \in penalties : d.node = n

DecisionsOf(reason) == [node : Nodes, reason : reason]

ServiceInv ==
  /\ phase \in {"step", "judge"}
  /\ IsFiniteSet(batch) /\ Cardinality(batch) <= BatchSize
  /\ \A r \in batch : IsClosed(r)
  /\ round \in RoundIds \cup {0}
  /\ round = 0 => verdicts = {} /\ penalties = {}
  /\ round # 0 => IsClosed(round)
  /\ verdicts \subseteq DecisionsOf(Outcomes)
  /\ phase = "step" => /\ verdicts = {}
                       /\ penalties \subseteq DecisionsOf(SignatureReasons)
  /\ phase = "judge" =>
       penalties \subseteq DecisionsOf(MissReasons \cup {"miss"})
  /\ handled \in 0..BatchSize
  /\ phase = "judge" /\ round # 0 => Judging

LimitsInv == unread \in 0..MaxUnread /\ crashes \in 0..MaxCrashes

JudgementInv == HistoryInv /\ TablesInv /\ ServiceInv /\ LimitsInv
-----------------------------------------------------------------------------
(* Streaks: PenaltiesFor counts modulo the limit. *)

LEMMA ModStep ==
  ASSUME NEW c \in Nat, NEW L \in Nat \ {0}
  PROVE (c + 1) % L = IF (c % L) + 1 >= L THEN 0 ELSE (c % L) + 1
<1> DEFINE q == c \div L
           s == c % L
<1>1. q \in Nat /\ s \in 0..L - 1
  OBVIOUS
<1>2. c = (L * q) + s
  OBVIOUS
<1>3. \A z \in Int, t \in 0..L - 1 : ((L * z) + t) % L = t
  OBVIOUS
<1> HIDE DEF q, s
<1>4. CASE s + 1 >= L
  <2>1. s + 1 = L
    BY <1>1, <1>4
  <2>2. c + 1 = (L * (q + 1)) + 0
    BY <1>1, <1>2, <2>1
  <2>3. q + 1 \in Int /\ 0 \in 0..L - 1
    BY <1>1
  <2>4. ((L * (q + 1)) + 0) % L = 0
    BY <1>3, <2>3
  <2> QED
    BY <1>4, <2>2, <2>4 DEF s
<1>5. CASE ~ (s + 1 >= L)
  <2>1. s + 1 \in 0..L - 1 /\ q \in Int
    BY <1>1, <1>5
  <2>2. c + 1 = (L * q) + (s + 1)
    BY <1>1, <1>2
  <2>3. ((L * q) + (s + 1)) % L = s + 1
    BY <1>3, <2>1
  <2> QED
    BY <1>5, <2>2, <2>3 DEF s
<1> QED
  BY <1>4, <1>5

(* The recorded misses since the last recorded submission. *)
MissesRecorded(h, r) ==
  {q \in 1..r : h[q] = "missed" /\ \A x \in q..r : h[x] # "submitted"}

Streak(h) ==
  [r \in 0..MaxRounds |-> Cardinality(MissesRecorded(h, r)) % MissLimit]

LEMMA MissesCount ==
  ASSUME NEW h, NEW r \in Nat
  PROVE  /\ IsFiniteSet(MissesRecorded(h, r))
         /\ Cardinality(MissesRecorded(h, r)) \in Nat
<1>1. IsFiniteSet(1..r)
  BY IntervalCount
<1>2. MissesRecorded(h, r) \in SUBSET (1..r)
  BY DEF MissesRecorded
<1> HIDE DEF MissesRecorded
<1> QED
  BY <1>1, <1>2, FS_Subset, FS_CardinalityType

(* One more round: the set of misses is kept, emptied or grows by one. *)
LEMMA MissesTurn ==
  ASSUME NEW h, NEW r \in Nat \ {0}
  PROVE  LET old == MissesRecorded(h, r - 1)
             new == MissesRecorded(h, r)
         IN /\ h[r] = "submitted" => new = {}
            /\ h[r] = "missed" =>
                 Cardinality(new) = Cardinality(old) + 1
            /\ h[r] \notin {"submitted", "missed"} => new = old
<1> DEFINE old == MissesRecorded(h, r - 1)
           new == MissesRecorded(h, r)
<1>1. \A q \in 1..r : r \in q..r
  OBVIOUS
<1>2. ASSUME h[r] = "submitted" PROVE new = {}
  BY <1>1, <1>2 DEF MissesRecorded
<1>3. \A q \in 1..r - 1 : \A x : x \in q..r <=> x \in q..r - 1 \/ x = r
  OBVIOUS
<1>4. \A q : q \in 1..r <=> q \in 1..r - 1 \/ q = r
  OBVIOUS
<1>5. ASSUME h[r] # "submitted", NEW q \in 1..r - 1
      PROVE  q \in new <=> q \in old
  BY <1>3, <1>4, <1>5 DEF MissesRecorded
<1>6. new \subseteq 1..r /\ old \subseteq 1..r - 1
  BY DEF MissesRecorded
<1>7. r \in new <=> h[r] = "missed"
  <2>1. \A x : x \in r..r <=> x = r
    OBVIOUS
  <2> QED
    BY <1>4, <2>1 DEF MissesRecorded
<1>8. r - 1 \in Nat /\ r \notin 1..r - 1
  OBVIOUS
<1>9. IsFiniteSet(old)
  BY <1>8, MissesCount
<1> HIDE DEF old, new
<1>10. ASSUME h[r] = "missed" PROVE Cardinality(new) = Cardinality(old) + 1
  <2>1. new = old \cup {r} /\ r \notin old
    BY <1>4, <1>5, <1>6, <1>7, <1>8, <1>10
  <2> QED
    BY <1>9, <2>1, FS_AddElement
<1>11. ASSUME h[r] \notin {"submitted", "missed"} PROVE new = old
  BY <1>4, <1>5, <1>6, <1>7, <1>8, <1>11
<1> QED
  BY <1>2, <1>10, <1>11 DEF old, new

OutcomesOnly(h) == \A r \in RoundIds : h[r] \in Outcomes \cup {"none"}

LEMMA StreakTurn ==
  ASSUME NEW h, OutcomesOnly(h), NEW r \in RoundIds
  PROVE  Streak(h)[r] = StreakAfter(Streak(h)[r - 1], h[r])
<1> DEFINE c == Cardinality(MissesRecorded(h, r - 1))
           d == Cardinality(MissesRecorded(h, r))
<1>1. /\ MaxRounds \in Nat /\ MissLimit \in Nat \ {0}
      /\ r \in Nat \ {0} /\ r - 1 \in Nat
      /\ r \in 0..MaxRounds /\ r - 1 \in 0..MaxRounds
  BY JudgementAssumption DEF RoundIds
<1>2. c \in Nat
  BY <1>1, MissesCount
<1>3. /\ h[r] = "submitted" => MissesRecorded(h, r) = {}
      /\ h[r] = "missed" => d = c + 1
      /\ h[r] \notin {"submitted", "missed"} =>
           MissesRecorded(h, r) = MissesRecorded(h, r - 1)
  BY <1>1, MissesTurn
<1>4. Streak(h)[r] = d % MissLimit /\ Streak(h)[r - 1] = c % MissLimit
  BY <1>1 DEF Streak
<1>5. h[r] \in {"submitted", "missed", "excused", "none"}
  BY DEF OutcomesOnly, Outcomes
<1>6. CASE h[r] = "submitted"
  <2>1. d = 0
    BY <1>3, <1>6, FS_EmptySet
  <2>2. 0 % MissLimit = 0
    BY <1>1
  <2> HIDE DEF c, d
  <2> QED
    BY <1>4, <1>6, <2>1, <2>2 DEF StreakAfter
<1>7. CASE h[r] = "missed"
  <2> HIDE DEF c, d
  <2>1. (c + 1) % MissLimit =
          IF (c % MissLimit) + 1 >= MissLimit THEN 0
          ELSE (c % MissLimit) + 1
    BY <1>1, <1>2, ModStep
  <2>2. StreakAfter(c % MissLimit, h[r]) =
          IF (c % MissLimit) + 1 >= MissLimit THEN 0
          ELSE (c % MissLimit) + 1
    BY <1>7 DEF StreakAfter
  <2> QED
    BY <1>3, <1>4, <1>7, <2>1, <2>2
<1>8. CASE h[r] \in {"excused", "none"}
  <2>1. d = c
    BY <1>3, <1>8
  <2> HIDE DEF c, d
  <2> QED
    BY <1>4, <1>8, <2>1 DEF StreakAfter
<1> QED
  BY <1>5, <1>6, <1>7, <1>8

(* The recursion of PenaltiesFor computes the count of misses, modulo the  *)
(* limit: it has one solution.                                             *)
LEMMA StreaksCount ==
  ASSUME NEW h, OutcomesOnly(h)
  PROVE  Streaks(h) = Streak(h)
<1> DEFINE Turns(g) ==
             g = [r \in 0..MaxRounds |->
                    IF r = 0 THEN 0 ELSE StreakAfter(g[r - 1], h[r])]
           f == CHOOSE g : Turns(g)
<1>1. MaxRounds \in Nat /\ MissLimit \in Nat \ {0}
  BY JudgementAssumption
<1>2. Streak(h)[0] = 0
  <2>1. MissesRecorded(h, 0) = {}
    BY DEF MissesRecorded
  <2>2. Cardinality(MissesRecorded(h, 0)) = 0
    BY <2>1, FS_EmptySet
  <2>3. 0 % MissLimit = 0
    BY <1>1
  <2>4. 0 \in 0..MaxRounds
    BY <1>1
  <2> QED
    BY <2>2, <2>3, <2>4 DEF Streak
<1>3. \A r \in 0..MaxRounds :
        Streak(h)[r] = IF r = 0 THEN 0 ELSE StreakAfter(Streak(h)[r - 1], h[r])
  <2> SUFFICES ASSUME NEW r \in 0..MaxRounds, r # 0
               PROVE  Streak(h)[r] = StreakAfter(Streak(h)[r - 1], h[r])
    BY <1>2
  <2>1. r \in RoundIds
    BY <1>1 DEF RoundIds
  <2> QED
    BY <2>1, StreakTurn
<1>4. Turns(Streak(h))
  <2>1. Streak(h) = [r \in 0..MaxRounds |-> Streak(h)[r]]
    BY DEF Streak
  <2> QED
    BY <1>3, <2>1
<1>5. Turns(f)
  <2> HIDE DEF Turns
  <2> QED
    BY <1>4
<1>6. Streaks(h) = f
  BY DEF Streaks
<1> HIDE DEF f
<1>7. /\ f = [r \in 0..MaxRounds |-> f[r]]
      /\ f[0] = 0
      /\ \A r \in 0..MaxRounds :
           r # 0 => f[r] = StreakAfter(f[r - 1], h[r])
  <2>1. \A r \in 0..MaxRounds :
          f[r] = IF r = 0 THEN 0 ELSE StreakAfter(f[r - 1], h[r])
    BY <1>5
  <2>2. DOMAIN f = 0..MaxRounds
    BY <1>5
  <2>3. f = [r \in DOMAIN f |-> f[r]]
    BY <1>5
  <2>4. 0 \in 0..MaxRounds
    BY <1>1
  <2> QED
    BY <2>1, <2>2, <2>3, <2>4
<1> DEFINE Wrong == {r \in 0..MaxRounds : f[r] # Streak(h)[r]}
<1>8. ASSUME NEW x \in Wrong PROVE FALSE
  <2> DEFINE m == Min(Wrong)
  <2>1. Wrong \in SUBSET Nat
    BY <1>1
  <2> HIDE DEF Wrong
  <2>2. m \in Wrong /\ \A y \in Wrong : m <= y
    BY <1>8, <2>1, LowestIsLeast
  <2> HIDE DEF m
  <2>3. m \in 0..MaxRounds /\ f[m] # Streak(h)[m]
    BY <2>2 DEF Wrong
  <2>4. m # 0
    BY <1>2, <1>7, <2>3
  <2>5. m - 1 \in 0..MaxRounds /\ ~ (m <= m - 1)
    BY <1>1, <2>3, <2>4
  <2>6. f[m - 1] = Streak(h)[m - 1]
    BY <2>2, <2>5 DEF Wrong
  <2> QED
    BY <1>3, <1>7, <2>3, <2>4, <2>6
<1>9. \A r \in 0..MaxRounds : f[r] = Streak(h)[r]
  BY <1>8
<1>10. Streak(h) = [r \in 0..MaxRounds |-> Streak(h)[r]]
  BY DEF Streak
<1>11. [r \in 0..MaxRounds |-> f[r]] = [r \in 0..MaxRounds |-> Streak(h)[r]]
  BY <1>9, Zenon
<1> QED
  BY <1>6, <1>7, <1>10, <1>11, Zenon

(* The penalty of a history that ends in a miss. *)
LEMMA PenaltyOfLast ==
  ASSUME NEW h, OutcomesOnly(h), NEW r \in RoundIds, h[r] = "missed",
         \A q \in RoundIds : q > r => h[q] = "none"
  PROVE  LastPenalty(h) =
           IF Cardinality(MissesRecorded(h, r)) % MissLimit = 0
           THEN "CONSECUTIVE_MISSES" ELSE "MISSED_ROUND"
<1> DEFINE recorded == {q \in RoundIds : h[q] # "none"}
           last == CHOOSE q \in recorded : \A p \in recorded : p <= q
           c == Cardinality(MissesRecorded(h, r - 1))
<1>1. /\ MaxRounds \in Nat /\ MissLimit \in Nat \ {0}
      /\ r \in Nat \ {0} /\ r - 1 \in Nat /\ r - 1 \in 0..MaxRounds
      /\ RoundIds \subseteq Nat
  BY JudgementAssumption DEF RoundIds
<1>2. r \in recorded /\ \A p \in recorded : p \in Nat /\ p <= r
  BY <1>1
<1> HIDE DEF recorded
<1>3. \A q \in recorded : (\A p \in recorded : p <= q) => q = r
  BY <1>1, <1>2
<1>4. last = r
  BY <1>2, <1>3
<1>5. LastPenalty(h) = IF Streak(h)[last - 1] + 1 >= MissLimit
                       THEN "CONSECUTIVE_MISSES" ELSE "MISSED_ROUND"
  <2>1. Streaks(h) = Streak(h)
    BY StreaksCount
  <2> QED
    BY <2>1 DEF LastPenalty, recorded
<1> HIDE DEF last
<1>6. Streak(h)[r - 1] = c % MissLimit
  BY <1>1 DEF Streak
<1>7. c \in Nat /\ Cardinality(MissesRecorded(h, r)) = c + 1
  BY <1>1, MissesCount, MissesTurn
<1> HIDE DEF c
<1>8. (c + 1) % MissLimit =
        IF (c % MissLimit) + 1 >= MissLimit THEN 0
        ELSE (c % MissLimit) + 1
  BY <1>1, <1>7, ModStep
<1>9. (c + 1) % MissLimit = 0 <=> (c % MissLimit) + 1 >= MissLimit
  <2>1. c % MissLimit \in Nat
    BY <1>1, <1>7
  <2> QED
    BY <1>8, <2>1
<1> QED
  BY <1>4, <1>5, <1>6, <1>7, <1>9

-----------------------------------------------------------------------------
(* What is recorded of a node, and what it means. *)

(* An outcome that is the truth says what the node did. *)
LEMMA OutcomeMeans ==
  ASSUME NEW n, NEW r, WellShaped(shape[r])
  PROVE  /\ TrueOutcome(n, r) = "missed" <=> Missed(n, r)
         /\ TrueOutcome(n, r) = "submitted" <=> n \in Submitters(r)
         /\ TrueOutcome(n, r) = "none" <=> n \notin shape[r].expected
         /\ TrueOutcome(n, r) \in Outcomes \cup {"none"}
<1>1. n \in Submitters(r) => n \in shape[r].expected
  BY DEF WellShaped, Submitters
<1>2. CASE n \notin shape[r].expected
  <2>1. TrueOutcome(n, r) = "none"
    BY <1>2 DEF TrueOutcome
  <2> QED
    BY <1>1, <1>2, <2>1 DEF Missed
<1>3. CASE n \in shape[r].expected /\ n \in Submitters(r)
  <2>1. TrueOutcome(n, r) = "submitted"
    BY <1>3 DEF TrueOutcome, Verdict
  <2> QED
    BY <1>3, <2>1 DEF Missed, Outcomes
<1>4. CASE n \in shape[r].expected /\ n \notin Submitters(r)
  <2> DEFINE Excuse == \/ Submitters(r) = {}
                       \/ shape[r].closedEarly
                       \/ n \in shape[r].removed
  <2>1. TrueOutcome(n, r) = IF Excuse THEN "excused" ELSE "missed"
    BY <1>4 DEF TrueOutcome, Verdict
  <2>2. Missed(n, r) <=> ~Excuse
    BY <1>4 DEF Missed
  <2> HIDE DEF Excuse
  <2> QED
    BY <1>4, <2>1, <2>2 DEF Outcomes
<1> QED
  BY <1>2, <1>3, <1>4

(* In judgement the history of a node is the truth up to the round in hand *)
(* and empty after it: the penalty read from it is the one due.            *)
LEMMA PenaltyIsDue ==
  ASSUME HistoryInv, TablesInv, NEW r \in RoundIds, NEW n \in Nodes,
         r \notin judged, Reached(r), Missed(n, r),
         outcomes[<<n, r>>] = TrueOutcome(n, r)
  PROVE  LastPenalty(NodeOutcomeHistory(n)) = Due(n, r)
<1> DEFINE h == NodeOutcomeHistory(n)
<1>1. /\ r \in Nat \ {0} /\ 1..r \subseteq RoundIds
      /\ RoundIds \subseteq Nat \ {0}
      /\ \A q \in RoundIds : q > r => r \in 1..q - 1
      /\ \A q \in 1..r : q \in 1..r - 1 \/ q = r
  BY JudgementAssumption DEF RoundIds
<1>2. \A q \in RoundIds : h[q] = outcomes[<<n, q>>] /\ <<n, q>> \in Keys
  BY DEF NodeOutcomeHistory, Keys
<1>3. OutcomesOnly(h)
  BY <1>2 DEF OutcomesOnly, TablesInv
<1> HIDE DEF h
<1>4. \A q \in 1..r : h[q] = TrueOutcome(n, q)
  BY <1>1, <1>2 DEF TablesInv, OutcomesTrue, Reached
<1>5. \A q \in RoundIds : q > r => h[q] = "none"
  BY <1>1, <1>2 DEF TablesInv, OutcomesTrue, Reached
<1>6. \A q \in 1..r : /\ h[q] = "missed" <=> Missed(n, q)
                      /\ h[q] = "submitted" <=> n \in Submitters(q)
  <2>1. \A q \in 1..r : WellShaped(shape[q])
    BY <1>1 DEF HistoryInv
  <2> QED
    BY <1>4, <2>1, OutcomeMeans
<1>7. MissesRecorded(h, r) = MissesSinceHeard(n, r)
  <2>1. \A q \in 1..r : q..r \subseteq 1..r
    BY <1>1
  <2> QED
    BY <1>6, <2>1 DEF MissesRecorded, MissesSinceHeard
<1>8. h[r] = "missed"
  BY <1>1, <1>6
<1>9. LastPenalty(h) = IF Cardinality(MissesRecorded(h, r)) % MissLimit = 0
                       THEN "CONSECUTIVE_MISSES" ELSE "MISSED_ROUND"
  BY <1>3, <1>5, <1>8, PenaltyOfLast
<1> QED
  BY <1>7, <1>9 DEF h, Due

-----------------------------------------------------------------------------
(* What the service takes next is there. *)

LEMMA FirstIsOne ==
  ASSUME NEW R, NEW S \in SUBSET DecisionsOf(R), S # {}
  PROVE  First(S) \in S /\ First(S) \in DecisionsOf(R)
<1> DEFINE T == {Turn(d) : d \in S}
<1>1. Len(NodeOrder) \in Nat /\ DOMAIN NodeOrder = 1..Len(NodeOrder)
  BY JudgementAssumption
<1>2. ASSUME NEW d \in S PROVE Turn(d) \in Nat
  <2> DEFINE i == CHOOSE i \in DOMAIN NodeOrder : NodeOrder[i] = d.node
  <2>1. d.node \in Nodes
    BY DEF DecisionsOf
  <2>2. i \in DOMAIN NodeOrder
    BY <2>1 DEF Nodes, Range
  <2>3. Turn(d) = i + (IF d.reason = "OUTLIER_SUBMISSION"
                       THEN Len(NodeOrder) ELSE 0)
    BY DEF Turn
  <2> HIDE DEF i
  <2> QED
    BY <1>1, <2>2, <2>3
<1>3. PICK e \in S : TRUE
  OBVIOUS
<1>4. T \in SUBSET Nat /\ Turn(e) \in T
  BY <1>2
<1> HIDE DEF T
<1>5. Min(T) \in T /\ \A x \in T : Min(T) <= x
  BY <1>4, LowestIsLeast
<1>6. \E d \in S : \A c \in S : Turn(d) <= Turn(c)
  <2>1. PICK d \in S : Turn(d) = Min(T)
    BY <1>5 DEF T
  <2>2. \A c \in S : Turn(c) \in T
    BY DEF T
  <2> QED
    BY <1>5, <2>1, <2>2
<1>7. First(S) \in S
  BY <1>6 DEF First
<1> QED
  BY <1>7

LEMMA NextIsOne ==
  ASSUME HistoryInv, NEW S, S # {}, \A r \in S : IsClosed(r)
  PROVE  NextOf(S) \in S
<1> DEFINE places == {i \in DOMAIN closed : closed[i] \in S}
<1>1. DOMAIN closed = 1..Len(closed) /\ Len(closed) \in Nat
  BY DEF HistoryInv
<1>2. places \in SUBSET Nat
  BY <1>1
<1>3. places # {}
  BY <1>1 DEF IsClosed
<1> HIDE DEF places
<1>4. Min(places) \in places /\ \A x \in places : Min(places) <= x
  BY <1>2, <1>3, LowestIsLeast
<1>5. (CHOOSE i \in places : \A j \in places : i <= j) \in places
  BY <1>4
<1> QED
  BY <1>5 DEF NextOf, places

(* The counts of places up to one tell the rounds of a batch apart, and    *)
(* none is greater than BatchSize.                                         *)
LEMMA BatchFits ==
  ASSUME HistoryInv
  PROVE  /\ IsFiniteSet(UnaggregatedRounds)
         /\ Cardinality(UnaggregatedRounds) <= BatchSize
         /\ \A r \in UnaggregatedRounds : IsClosed(r)
<1> DEFINE todo == {i \in DOMAIN closed : closed[i] \notin aggregated}
           upTo(x) == {j \in todo : j <= x}
           taken == {x \in todo : Cardinality(upTo(x)) <= BatchSize}
           B == UnaggregatedRounds
           place(r) == CHOOSE i \in taken : closed[i] = r
           f == [r \in B |-> Cardinality(upTo(place(r)))]
<1>1. /\ DOMAIN closed = 1..Len(closed) /\ Len(closed) \in Nat
      /\ BatchSize \in Nat \ {0}
  BY JudgementAssumption DEF HistoryInv
<1>2. IsFiniteSet(todo) /\ todo \subseteq Nat
  <2>1. IsFiniteSet(1..Len(closed))
    BY <1>1, IntervalCount
  <2>2. todo \in SUBSET (1..Len(closed)) /\ todo \subseteq Nat
    BY <1>1
  <2> HIDE DEF todo
  <2> QED
    BY <2>1, <2>2, FS_Subset
<1>3. B = {closed[i] : i \in taken}
  BY DEF UnaggregatedRounds
<1>4. \A r \in B : IsClosed(r)
  <2>1. taken \subseteq 1..Len(closed)
    BY <1>1
  <2> HIDE DEF taken
  <2> QED
    BY <1>3, <2>1 DEF IsClosed
<1> HIDE DEF B
<1>5. \A r \in B : place(r) \in taken /\ closed[place(r)] = r
  BY <1>3
<1> HIDE DEF place
<1>6. ASSUME NEW x \in todo
      PROVE  /\ IsFiniteSet(upTo(x)) /\ x \in upTo(x)
             /\ Cardinality(upTo(x)) \in Nat \ {0}
  <2>1. x \in upTo(x) /\ upTo(x) \in SUBSET todo
    BY <1>2
  <2> HIDE DEF upTo, todo
  <2>2. IsFiniteSet(upTo(x))
    BY <1>2, <2>1, FS_Subset
  <2> QED
    BY <2>1, <2>2, FS_EmptySet, FS_CardinalityType
<1>7. ASSUME NEW x \in todo, NEW y \in todo, x < y
      PROVE  Cardinality(upTo(x)) # Cardinality(upTo(y))
  <2>1. upTo(x) \in SUBSET upTo(y) /\ y \notin upTo(x)
    BY <1>2, <1>7
  <2>2. IsFiniteSet(upTo(y)) /\ y \in upTo(y)
    BY <1>6
  <2> HIDE DEF upTo, todo
  <2> QED
    BY <2>1, <2>2, FS_Subset
<1>8. f \in [B -> 1..BatchSize]
  <2> SUFFICES ASSUME NEW r \in B
               PROVE  Cardinality(upTo(place(r))) \in 1..BatchSize
    OBVIOUS
  <2> DEFINE c == Cardinality(upTo(place(r)))
  <2>1. c <= BatchSize /\ place(r) \in todo
    BY <1>5
  <2>2. c \in Nat \ {0}
    BY <1>6, <2>1
  <2> HIDE DEF c
  <2>3. c \in 1..BatchSize
    BY <1>1, <2>1, <2>2
  <2> QED
    BY <2>3 DEF c
<1>9. \A r, s \in B : f[r] = f[s] => r = s
  <2> SUFFICES ASSUME NEW r \in B, NEW s \in B, f[r] = f[s] PROVE r = s
    OBVIOUS
  <2>1. /\ place(r) \in todo /\ place(s) \in todo
        /\ closed[place(r)] = r /\ closed[place(s)] = s
    BY <1>5
  <2>2. Cardinality(upTo(place(r))) = Cardinality(upTo(place(s)))
    OBVIOUS
  <2>3. place(r) = place(s) \/ place(r) < place(s) \/ place(s) < place(r)
    BY <1>2, <2>1
  <2> HIDE DEF upTo, f
  <2> QED
    BY <1>7, <2>1, <2>2, <2>3
<1> HIDE DEF f
<1>10. f \in Injection(B, 1..BatchSize)
  BY <1>8, <1>9 DEF Injection, IsInjective
<1>11. IsFiniteSet(1..BatchSize) /\ Cardinality(1..BatchSize) = BatchSize
  BY <1>1, IntervalCount
<1> QED
  BY <1>4, <1>10, <1>11, FS_Injection DEF B

LEMMA FirstUnjudged ==
  ASSUME HistoryInv, NextRoundToJudge # 0
  PROVE  /\ NextRoundToJudge \in Unjudged
         /\ \A q \in Unjudged : NextRoundToJudge <= q
<1>1. Unjudged \in SUBSET Nat /\ Unjudged # {}
  BY DEF Unjudged, NextRoundToJudge, HistoryInv
<1>2. PICK q \in Unjudged : TRUE
  BY <1>1
<1>3. Min(Unjudged) \in Unjudged /\ \A x \in Unjudged : Min(Unjudged) <= x
  BY <1>1, <1>2, LowestIsLeast
<1> QED
  BY <1>1, <1>3 DEF NextRoundToJudge

-----------------------------------------------------------------------------
(* Steps that leave the chain's record, the tables or the memory alone.    *)

LEMMA SameTruth ==
  ASSUME closed' = closed, shape' = shape
  PROVE  /\ \A q : IsClosed(q)' <=> IsClosed(q)
         /\ \A q : AllClosed(q)' <=> AllClosed(q)
         /\ \A n, q : TrueOutcome(n, q)' = TrueOutcome(n, q)
         /\ \A n, q : Missed(n, q)' <=> Missed(n, q)
         /\ \A n, q : Due(n, q)' = Due(n, q)
<1>1. \A q : IsClosed(q)' <=> IsClosed(q)
  BY DEF IsClosed
<1>2. \A q : AllClosed(q)' <=> AllClosed(q)
  BY <1>1 DEF AllClosed
<1>3. \A n, q : /\ Submitters(q)' = Submitters(q)
               /\ Verdict(q, Submitters(q), n)' = Verdict(q, Submitters(q), n)
  BY DEF Submitters, Verdict
<1>4. \A n, q : TrueOutcome(n, q)' = TrueOutcome(n, q)
  BY <1>3 DEF TrueOutcome
<1>5. \A n, q : Missed(n, q)' <=> Missed(n, q)
  BY <1>3 DEF Missed
<1>6. \A n, q : MissesSinceHeard(n, q)' = MissesSinceHeard(n, q)
  BY <1>3, <1>5 DEF MissesSinceHeard
<1>7. \A n, q : Due(n, q)' = Due(n, q)
  BY <1>6 DEF Due
<1> QED
  BY <1>1, <1>2, <1>4, <1>5, <1>7

LEMMA SameHistory ==
  ASSUME HistoryInv, UNCHANGED history
  PROVE  HistoryInv'
BY DEF HistoryInv, history, IsClosed, Submitters

LEMMA SameTables ==
  ASSUME TablesInv, closed' = closed, shape' = shape, UNCHANGED tables
  PROVE  TablesInv'
<1>1. /\ aggregated' = aggregated /\ judged' = judged
      /\ outcomes' = outcomes /\ reasons' = reasons
  BY DEF tables
<1>2. \A q : Reached(q)' <=> Reached(q)
  BY <1>1 DEF Reached
<1>3. OutcomesTrue'
  BY <1>1, <1>2, SameTruth DEF TablesInv, OutcomesTrue
<1>4. PenaltiesDue'
  BY <1>1, SameTruth DEF TablesInv, PenaltiesDue
<1> QED
  BY <1>1, <1>2, <1>3, <1>4, SameTruth DEF TablesInv

LEMMA SameJudging ==
  ASSUME Judging, closed' = closed, shape' = shape, UNCHANGED tables,
         round' = round, verdicts' = verdicts, penalties' = penalties,
         handled' = handled
  PROVE  Judging'
<1>1. judged' = judged /\ outcomes' = outcomes /\ reasons' = reasons
  BY DEF tables
<1>2. Reached(round)' <=> Reached(round)
  BY <1>1 DEF Reached
<1> QED
  BY <1>1, <1>2, SameTruth DEF Judging

(* Steps of other processes leave the service's memory alone. *)
LEMMA SameService ==
  ASSUME ServiceInv, closed' = closed, shape' = shape, UNCHANGED tables,
         UNCHANGED memory
  PROVE  ServiceInv'
<1>1. /\ phase' = phase /\ batch' = batch /\ round' = round
      /\ verdicts' = verdicts /\ penalties' = penalties /\ handled' = handled
  BY DEF memory
<1>2. phase = "judge" /\ round # 0 => Judging'
  BY <1>1, SameJudging DEF ServiceInv
<1> QED
  BY <1>1, <1>2, SameTruth DEF ServiceInv

(* Nothing in memory is a good place to be. *)
LEMMA Forgotten ==
  ASSUME Forget, phase' \in {"step", "judge"}
  PROVE  ServiceInv'
<1>1. IsFiniteSet({}) /\ Cardinality({}) = 0
  BY FS_EmptySet
<1>2. /\ batch' = {} /\ round' = 0 /\ verdicts' = {} /\ penalties' = {}
      /\ handled' = 0
  BY DEF Forget
<1>3. IsFiniteSet(batch') /\ Cardinality(batch') <= BatchSize
  BY <1>1, <1>2, JudgementAssumption
<1>4. handled' \in 0..BatchSize
  BY <1>2, JudgementAssumption
<1> QED
  BY <1>2, <1>3, <1>4 DEF ServiceInv

-----------------------------------------------------------------------------
(* Steps of the chain and of the indexer. *)

LEMMA OpenRoundKeeps ==
  ASSUME JudgementInv, OpenRound
  PROVE  JudgementInv'
<1>1. /\ opened' = opened + 1 /\ opened < MaxRounds
      /\ closed' = closed /\ shape' = shape /\ unindexed' = unindexed
      /\ UNCHANGED tables /\ UNCHANGED memory
      /\ unread' = unread /\ crashes' = crashes
  BY DEF OpenRound
<1>2. HistoryInv'
  <2>1. opened \in 0..MaxRounds /\ MaxRounds \in Nat
    BY JudgementAssumption DEF JudgementInv, HistoryInv
  <2>2. opened' \in 0..MaxRounds
    BY <1>1, <2>1
  <2>3. \A i \in 1..Len(closed') : closed'[i] <= opened'
    <3> SUFFICES ASSUME NEW i \in 1..Len(closed)
                 PROVE  closed[i] <= opened + 1
      BY <1>1
    <3>1. closed[i] \in RoundIds /\ closed[i] <= opened
      BY DEF JudgementInv, HistoryInv
    <3>2. closed[i] \in Nat
      BY <3>1 DEF RoundIds
    <3> QED
      BY <2>1, <3>1, <3>2
  <2>4. /\ closed' \in Seq(RoundIds) /\ IsInjective(closed')
        /\ DOMAIN shape' = RoundIds
        /\ \A r \in RoundIds : WellShaped(shape'[r])
        /\ \A r \in RoundIds : shape'[r] \in Shapes[r] \/ ~IsClosed(r)'
        /\ DOMAIN unindexed' = RoundIds
        /\ \A r \in RoundIds : unindexed'[r] \subseteq Submitters(r)'
    BY <1>1 DEF JudgementInv, HistoryInv, IsClosed, Submitters
  <2> QED
    BY <2>2, <2>3, <2>4 DEF HistoryInv
<1>3. TablesInv'
  BY <1>1, SameTables DEF JudgementInv
<1>4. ServiceInv'
  BY <1>1, SameService DEF JudgementInv
<1> QED
  BY <1>1, <1>2, <1>3, <1>4 DEF JudgementInv, LimitsInv

LEMMA IndexSubmissionsKeeps ==
  ASSUME JudgementInv, NEW r \in RoundIds, IndexSubmissions(r)
  PROVE  JudgementInv'
<1>1. /\ opened' = opened /\ closed' = closed /\ shape' = shape
      /\ unindexed' = [unindexed EXCEPT ![r] = {}]
      /\ UNCHANGED tables /\ UNCHANGED memory
      /\ unread' = unread /\ crashes' = crashes
  BY DEF IndexSubmissions
<1>2. HistoryInv'
  BY <1>1 DEF JudgementInv, HistoryInv, IsClosed, Submitters
<1>3. TablesInv'
  BY <1>1, SameTables DEF JudgementInv
<1>4. ServiceInv'
  BY <1>1, SameService DEF JudgementInv
<1> QED
  BY <1>1, <1>2, <1>3, <1>4 DEF JudgementInv, LimitsInv

(* A round that finishes was not part of anything recorded. *)
LEMMA CloseRoundKeeps ==
  ASSUME JudgementInv, NEW r \in RoundIds, NEW s \in Shapes[r],
         CloseRound(r, s)
  PROVE  JudgementInv'
<1>1. /\ opened' = opened /\ r <= opened /\ ~IsClosed(r)
      /\ closed' = Append(closed, r)
      /\ shape' = [shape EXCEPT ![r] = s]
      /\ UNCHANGED tables /\ UNCHANGED memory
      /\ unread' = unread /\ crashes' = crashes
  BY DEF CloseRound
<1>2. PICK late : unindexed' = [unindexed EXCEPT ![r] = late \cap DOMAIN s.values]
  BY DEF CloseRound
<1>3. WellShaped(s)
  <2>1. s \in UNION {Shapes[q] : q \in RoundIds}
    OBVIOUS
  <2> QED
    BY <2>1, JudgementAssumption DEF WellShaped
<1>4. HistoryInv
  BY DEF JudgementInv
<1>5. /\ Len(closed) \in Nat /\ Len(closed') = Len(closed) + 1
      /\ closed' \in Seq(RoundIds)
      /\ closed'[Len(closed) + 1] = r
      /\ \A i \in 1..Len(closed) : closed'[i] = closed[i]
      /\ DOMAIN closed = 1..Len(closed)
      /\ DOMAIN closed' = 1..Len(closed) + 1
  BY <1>1, <1>4 DEF HistoryInv
<1>6. \A i : i \in 1..Len(closed) + 1 <=>
             i \in 1..Len(closed) \/ i = Len(closed) + 1
  BY <1>5
<1>7. \A q : IsClosed(q)' <=> IsClosed(q) \/ q = r
  <2>1. \A q : IsClosed(q)' <=> \E i \in 1..Len(closed) + 1 : closed'[i] = q
    BY <1>5 DEF IsClosed
  <2> QED
    BY <1>5, <1>6, <2>1 DEF IsClosed
<1>8. \A q : IsClosed(q) => q # r
  BY <1>1
<1>9. \A q \in RoundIds : shape'[q] = IF q = r THEN s ELSE shape[q]
  BY <1>1, <1>4 DEF HistoryInv
<1>10. HistoryInv'
  <2>1. IsInjective(closed')
    <3> SUFFICES ASSUME NEW i \in DOMAIN closed', NEW j \in DOMAIN closed',
                        closed'[i] = closed'[j]
                 PROVE  i = j
      BY DEF IsInjective
    <3>1. \A k \in 1..Len(closed) : closed[k] # r
      BY <1>1 DEF IsClosed
    <3>2. \A k, l \in 1..Len(closed) : closed[k] = closed[l] => k = l
      BY <1>4, <1>5 DEF HistoryInv, IsInjective
    <3> QED
      BY <1>5, <1>6, <3>1, <3>2
  <2>2. \A i \in 1..Len(closed') : closed'[i] <= opened'
    BY <1>1, <1>4, <1>5, <1>6 DEF HistoryInv
  <2>3. \A q \in RoundIds : /\ WellShaped(shape'[q])
                            /\ shape'[q] \in Shapes[q] \/ ~IsClosed(q)'
    BY <1>3, <1>4, <1>7, <1>9 DEF HistoryInv
  <2>4. DOMAIN unindexed' = RoundIds
        /\ \A q \in RoundIds : unindexed'[q] \subseteq Submitters(q)'
    BY <1>2, <1>4, <1>9 DEF HistoryInv, Submitters
  <2>5. DOMAIN shape' = RoundIds /\ opened' \in 0..MaxRounds
    BY <1>1, <1>4 DEF HistoryInv
  <2> QED
    BY <1>5, <2>1, <2>2, <2>3, <2>4, <2>5 DEF HistoryInv
<1>11. ASSUME NEW n, NEW q \in RoundIds, IsClosed(q)
       PROVE  /\ TrueOutcome(n, q)' = TrueOutcome(n, q)
              /\ Missed(n, q)' <=> Missed(n, q)
              /\ Submitters(q)' = Submitters(q)
              /\ shape'[q] = shape[q]
  <2>1. shape'[q] = shape[q]
    BY <1>8, <1>9, <1>11
  <2>2. Submitters(q)' = Submitters(q)
    BY <2>1 DEF Submitters
  <2>3. Verdict(q, Submitters(q), n)' = Verdict(q, Submitters(q), n)
    BY <2>1, <2>2 DEF Verdict
  <2> QED
    BY <2>1, <2>2, <2>3 DEF TrueOutcome, Missed
<1>12. ASSUME NEW n, NEW q \in RoundIds, AllClosed(q)
       PROVE  Due(n, q)' = Due(n, q) /\ AllClosed(q)'
  <2>1. 1..q \subseteq RoundIds /\ \A x \in 1..q : x..q \subseteq 1..q
    BY JudgementAssumption DEF RoundIds
  <2>2. \A x \in 1..q : IsClosed(x)
    BY <1>12 DEF AllClosed
  <2>3. \A x \in 1..q : /\ Missed(n, x)' <=> Missed(n, x)
                        /\ Submitters(x)' = Submitters(x)
    BY <1>11, <2>1, <2>2
  <2>4. MissesSinceHeard(n, q)' = MissesSinceHeard(n, q)
    BY <2>1, <2>3 DEF MissesSinceHeard
  <2>5. AllClosed(q)'
    BY <1>7, <2>2 DEF AllClosed
  <2> QED
    BY <2>4, <2>5 DEF Due
<1>13. /\ aggregated' = aggregated /\ judged' = judged
       /\ outcomes' = outcomes /\ reasons' = reasons
  BY <1>1 DEF tables
<1>14. \A q : Reached(q)' <=> Reached(q)
  BY <1>13 DEF Reached
<1>15. TablesInv
  BY DEF JudgementInv
<1>16. ASSUME NEW q \in RoundIds, Reached(q), IsClosed(q) PROVE AllClosed(q)
  <2>1. \A x \in 1..q : x \in 1..q - 1 \/ x = q
    BY JudgementAssumption DEF RoundIds
  <2> QED
    BY <1>15, <1>16, <2>1 DEF TablesInv, Reached, AllClosed
<1>17. TablesInv'
  <2>1. \A q \in judged : IsClosed(q) /\ Reached(q) /\ q \in RoundIds
    BY <1>15 DEF TablesInv
  <2>2. OutcomesTrue'
    <3>1. \A n \in Nodes, q \in judged' : outcomes'[<<n, q>>] = TrueOutcome(n, q)'
      <4> SUFFICES ASSUME NEW n \in Nodes, NEW q \in judged
                   PROVE  outcomes'[<<n, q>>] = TrueOutcome(n, q)'
        BY <1>13
      <4>1. IsClosed(q) /\ q \in RoundIds
        BY <2>1
      <4>2. outcomes[<<n, q>>] = TrueOutcome(n, q)
        BY <1>15 DEF TablesInv, OutcomesTrue
      <4> QED
        BY <1>11, <1>13, <4>1, <4>2
    <3>2. \A n \in Nodes, q \in RoundIds : outcomes'[<<n, q>>] # "none" =>
            /\ outcomes'[<<n, q>>] = TrueOutcome(n, q)'
            /\ IsClosed(q)' /\ Reached(q)'
      BY <1>7, <1>11, <1>13, <1>14, <1>15 DEF TablesInv, OutcomesTrue
    <3> QED
      BY <3>1, <3>2 DEF OutcomesTrue
  <2>3. PenaltiesDue'
    <3>1. ASSUME NEW n \in Nodes, NEW q \in RoundIds,
                 reasons'[<<n, q>>] \in MissReasons
          PROVE  /\ Missed(n, q)' /\ reasons'[<<n, q>>] = Due(n, q)'
                 /\ AllClosed(q)'
      <4>1. /\ Missed(n, q) /\ reasons[<<n, q>>] = Due(n, q)
            /\ AllClosed(q)
        BY <1>13, <1>15, <3>1 DEF TablesInv, PenaltiesDue
      <4>2. q \in 1..q
        BY DEF RoundIds
      <4>3. IsClosed(q)
        BY <4>1, <4>2 DEF AllClosed
      <4> QED
        BY <1>11, <1>12, <1>13, <4>1, <4>3
    <3>2. ASSUME NEW q \in judged', NEW n \in Nodes \ Dust, Missed(n, q)'
          PROVE  reasons'[<<n, q>>] = Due(n, q)'
      <4>1. q \in judged /\ IsClosed(q) /\ q \in RoundIds /\ AllClosed(q)
        BY <1>13, <1>16, <2>1
      <4>2. Missed(n, q)
        BY <1>11, <3>2, <4>1
      <4>3. reasons[<<n, q>>] = Due(n, q)
        BY <1>15, <4>1, <4>2 DEF TablesInv, PenaltiesDue
      <4> QED
        BY <1>12, <1>13, <4>1, <4>3
    <3> QED
      BY <3>1, <3>2 DEF PenaltiesDue
  <2> QED
    BY <1>7, <1>13, <1>14, <1>15, <2>2, <2>3 DEF TablesInv
<1>18. ServiceInv'
  <2>1. ServiceInv
    BY DEF JudgementInv
  <2>2. /\ phase' = phase /\ batch' = batch /\ round' = round
        /\ verdicts' = verdicts /\ penalties' = penalties
        /\ handled' = handled
    BY <1>1 DEF memory
  <2>3. ASSUME phase = "judge", round # 0 PROVE Judging'
    <3>1. Judging /\ round \in RoundIds /\ IsClosed(round)
      BY <2>1, <2>3 DEF ServiceInv
    <3>2. Reached(round) /\ AllClosed(round)
      BY <1>16, <3>1 DEF Judging
    <3>3. ASSUME NEW n, NEW q, q = round
          PROVE  /\ TrueOutcome(n, q)' = TrueOutcome(n, q)
                 /\ Missed(n, q)' <=> Missed(n, q)
                 /\ Due(n, q)' = Due(n, q)
                 /\ shape'[q] = shape[q]
      BY <1>11, <1>12, <3>1, <3>2, <3>3
    <3>4. /\ handled' < BatchSize
          /\ round' \notin judged' /\ Reached(round)'
      BY <1>13, <1>14, <2>2, <3>1 DEF Judging
    <3>5. \A v \in verdicts' :
            /\ v.node \in Nodes /\ v.reason \in Outcomes
            /\ v.reason = TrueOutcome(v.node, round)'
      BY <2>2, <3>1, <3>3 DEF Judging
    <3>6. \A n \in shape'[round'].expected :
            \/ outcomes'[<<n, round'>>] = TrueOutcome(n, round)'
            \/ \E v \in verdicts' : v.node = n
      BY <1>13, <2>2, <3>1, <3>3 DEF Judging
    <3>7. \A d \in penalties' : /\ d.node \in Nodes /\ Missed(d.node, round)'
                                /\ d.reason \in {"miss", Due(d.node, round)'}
      BY <2>2, <3>1, <3>3 DEF Judging
    <3>8. \A n \in Nodes \ Dust : Missed(n, round)' =>
            \/ reasons'[<<n, round'>>] = Due(n, round)'
            \/ \E d \in penalties' : d.node = n
      BY <1>13, <2>2, <3>1, <3>3 DEF Judging
    <3> QED
      BY <3>4, <3>5, <3>6, <3>7, <3>8 DEF Judging
  <2> QED
    BY <1>7, <2>1, <2>2, <2>3 DEF ServiceInv
<1> QED
  BY <1>1, <1>10, <1>17, <1>18 DEF JudgementInv, LimitsInv

-----------------------------------------------------------------------------
(* Aggregator.Step *)

LEMMA ReachedClosed ==
  ASSUME TablesInv, NEW r \in RoundIds, Reached(r), IsClosed(r)
  PROVE  AllClosed(r)
<1>1. \A x \in 1..r : x \in 1..r - 1 \/ x = r
  BY JudgementAssumption DEF RoundIds
<1> QED
  BY <1>1 DEF TablesInv, Reached, AllClosed

LEMMA ClosedIsRound ==
  ASSUME HistoryInv, NEW r, IsClosed(r)
  PROVE  r \in RoundIds /\ r # 0 /\ WellShaped(shape[r]) /\ r <= opened
<1>1. PICK i \in 1..Len(closed) : closed[i] = r
  BY DEF IsClosed
<1>2. r \in RoundIds /\ r <= opened
  BY <1>1 DEF HistoryInv
<1> QED
  BY <1>2 DEF HistoryInv, RoundIds

LEMMA NodesFinite == IsFiniteSet(Nodes)
<1>1. Len(NodeOrder) \in Nat /\ DOMAIN NodeOrder = 1..Len(NodeOrder)
  BY JudgementAssumption
<1>2. NodeOrder \in [1..Len(NodeOrder) -> Nodes]
  BY <1>1, JudgementAssumption
<1>3. NodeOrder \in Surjection(1..Len(NodeOrder), Nodes)
  BY <1>1, <1>2 DEF Surjection, Nodes, Range
<1>4. IsFiniteSet(1..Len(NodeOrder))
  BY <1>1, IntervalCount
<1> QED
  BY <1>3, <1>4, FS_Surjection

LEMMA LoadUnaggregatedKeeps ==
  ASSUME JudgementInv, LoadUnaggregated
  PROVE  JudgementInv'
<1>1. /\ phase = "step" /\ round = 0
      /\ batch' = UnaggregatedRounds /\ phase' \in {"step", "judge"}
      /\ UNCHANGED history /\ UNCHANGED tables
      /\ closed' = closed /\ shape' = shape
      /\ round' = round /\ verdicts' = verdicts /\ penalties' = penalties
      /\ handled' = handled /\ unread' = unread /\ crashes' = crashes
  BY DEF LoadUnaggregated, history
<1>2. HistoryInv' /\ TablesInv'
  BY <1>1, SameHistory, SameTables DEF JudgementInv
<1>3. /\ IsFiniteSet(batch') /\ Cardinality(batch') <= BatchSize
      /\ \A r \in batch' : IsClosed(r)'
  BY <1>1, BatchFits, SameTruth DEF JudgementInv
<1>4. ServiceInv
  BY DEF JudgementInv
<1>5. verdicts = {} /\ penalties = {} /\ handled \in 0..BatchSize
  BY <1>1, <1>4 DEF ServiceInv
<1>6. ServiceInv'
  BY <1>1, <1>3, <1>5 DEF ServiceInv
<1> QED
  BY <1>1, <1>2, <1>6 DEF JudgementInv, LimitsInv

LEMMA AnalyseKeeps ==
  ASSUME JudgementInv, Analyse
  PROVE  JudgementInv'
<1> DEFINE r == NextOf(batch)
           known == ListOracleSubmissions(r)
           unverifiable(lost) == (known \cap shape[r].noNonce) \ lost
           invalid(lost) == lost \cup
             {n \in known \ unverifiable(lost) : ~Verifies(n, r)}
           counted(lost) == known \ invalid(lost)
<1>1. /\ phase = "step" /\ batch # {}
      /\ UNCHANGED history /\ UNCHANGED tables
      /\ closed' = closed /\ shape' = shape
      /\ phase' = phase /\ batch' = batch /\ verdicts' = verdicts
      /\ handled' = handled /\ crashes' = crashes
  BY DEF Analyse, history
<1>2. PICK lost \in LostSignatures(known) :
        /\ unread' = unread + Cardinality(lost)
        /\ round' = r
        /\ \E median :
             penalties' =
               {Decision(n, "INVALID_SIGNATURE") : n \in invalid(lost)} \cup
               {Decision(n, "OUTLIER_SUBMISSION") :
                  n \in DetectOutliers(r, counted(lost), median)}
  BY DEF Analyse
<1>3. HistoryInv /\ TablesInv /\ ServiceInv /\ LimitsInv
  BY DEF JudgementInv
<1>4. HistoryInv' /\ TablesInv'
  BY <1>1, <1>3, SameHistory, SameTables
<1>5. IsClosed(r)
  <2>1. r \in batch
    BY <1>1, <1>3, NextIsOne DEF ServiceInv
  <2> QED
    BY <1>3, <2>1 DEF ServiceInv
<1> HIDE DEF r
<1>6. r \in RoundIds /\ known \subseteq Nodes
  <2>1. r \in RoundIds /\ WellShaped(shape[r])
    BY <1>3, <1>5, ClosedIsRound
  <2> QED
    BY <2>1 DEF ListOracleSubmissions, Submitters, WellShaped
<1> HIDE DEF known
<1>7. lost \in SUBSET known /\ unread + Cardinality(lost) <= MaxUnread
  BY DEF LostSignatures
<1>8. invalid(lost) \subseteq Nodes
  BY <1>6, <1>7
<1>9. \A median : DetectOutliers(r, counted(lost), median) \subseteq Nodes
  BY <1>6 DEF DetectOutliers
<1>10. penalties' \subseteq DecisionsOf(SignatureReasons)
  <2> HIDE DEF invalid, counted
  <2>1. \A n \in Nodes :
          /\ Decision(n, "INVALID_SIGNATURE") \in DecisionsOf(SignatureReasons)
          /\ Decision(n, "OUTLIER_SUBMISSION") \in DecisionsOf(SignatureReasons)
    BY DEF Decision, DecisionsOf, SignatureReasons
  <2> QED
    BY <1>2, <1>8, <1>9, <2>1
<1>11. unread' \in 0..MaxUnread
  <2>1. IsFiniteSet(lost)
    BY <1>6, <1>7, NodesFinite, FS_Subset
  <2>2. Cardinality(lost) \in Nat
    BY <2>1, FS_CardinalityType
  <2>3. unread \in 0..MaxUnread /\ MaxUnread \in Nat
    BY <1>3, JudgementAssumption DEF LimitsInv
  <2> QED
    BY <1>2, <1>7, <2>2, <2>3
<1>12. ServiceInv'
  <2>1. verdicts = {} /\ round' \in RoundIds /\ IsClosed(round)'
    <3>1. verdicts = {}
      BY <1>1, <1>3 DEF ServiceInv
    <3>2. \A q : q = r => IsClosed(q)'
      BY <1>1, <1>5, SameTruth
    <3> QED
      BY <1>2, <1>6, <3>1, <3>2
  <2>2. round' # 0
    BY <2>1 DEF RoundIds
  <2>3. \A q \in batch' : IsClosed(q)'
    BY <1>1, <1>3, SameTruth DEF ServiceInv
  <2> QED
    BY <1>1, <1>3, <1>10, <2>1, <2>2, <2>3 DEF ServiceInv
<1> QED
  BY <1>1, <1>3, <1>4, <1>11, <1>12 DEF JudgementInv, LimitsInv

LEMMA MarkRoundAggregatedKeeps ==
  ASSUME JudgementInv, MarkRoundAggregated
  PROVE  JudgementInv'
<1>1. /\ phase = "step" /\ round # 0 /\ penalties = {}
      /\ aggregated' = aggregated \cup {round}
      /\ batch' = batch \ {round} /\ round' = 0
      /\ phase' \in {"step", "judge"}
      /\ UNCHANGED history /\ closed' = closed /\ shape' = shape
      /\ judged' = judged /\ outcomes' = outcomes /\ reasons' = reasons
      /\ verdicts' = verdicts /\ penalties' = penalties
      /\ handled' = handled /\ unread' = unread /\ crashes' = crashes
  BY DEF MarkRoundAggregated, history
<1>2. HistoryInv /\ TablesInv /\ ServiceInv /\ LimitsInv
  BY DEF JudgementInv
<1>3. HistoryInv'
  BY <1>1, <1>2, SameHistory
<1>4. round \in RoundIds /\ IsClosed(round)
  BY <1>1, <1>2 DEF ServiceInv
<1>5. TablesInv'
  <2>1. \A q : Reached(q)' <=> Reached(q)
    BY <1>1 DEF Reached
  <2>2. OutcomesTrue'
    BY <1>1, <1>2, <2>1, SameTruth DEF TablesInv, OutcomesTrue
  <2>3. PenaltiesDue'
    BY <1>1, <1>2, SameTruth DEF TablesInv, PenaltiesDue
  <2>4. aggregated' \subseteq RoundIds /\ \A r \in aggregated' : IsClosed(r)'
    BY <1>1, <1>2, <1>4, SameTruth DEF TablesInv
  <2>5. judged' \subseteq RoundIds
        /\ \A r \in judged' : IsClosed(r)' /\ Reached(r)'
    BY <1>1, <1>2, <2>1, SameTruth DEF TablesInv
  <2> QED
    BY <1>1, <1>2, <2>2, <2>3, <2>4, <2>5 DEF TablesInv
<1>6. ServiceInv'
  <2>1. IsFiniteSet(batch) /\ Cardinality(batch) <= BatchSize
    BY <1>2 DEF ServiceInv
  <2>2. batch' \in SUBSET batch
    BY <1>1
  <2>3. IsFiniteSet(batch') /\ Cardinality(batch') <= Cardinality(batch)
    BY <2>1, <2>2, FS_Subset
  <2>4. /\ Cardinality(batch) \in Nat /\ Cardinality(batch') \in Nat
        /\ BatchSize \in Nat
    BY <2>1, <2>3, FS_CardinalityType, JudgementAssumption
  <2>5. Cardinality(batch') <= BatchSize
    BY <2>1, <2>3, <2>4
  <2>6. \A r \in batch' : IsClosed(r)'
    BY <1>1, <1>2, <2>2, SameTruth DEF ServiceInv
  <2>7. verdicts = {}
    BY <1>1, <1>2 DEF ServiceInv
  <2> QED
    BY <1>1, <1>2, <2>3, <2>5, <2>6, <2>7 DEF ServiceInv
<1> QED
  BY <1>1, <1>2, <1>3, <1>5, <1>6 DEF JudgementInv, LimitsInv

LEMMA StopJudgingKeeps ==
  ASSUME JudgementInv, StopJudging
  PROVE  JudgementInv'
<1>1. /\ round = 0 /\ phase' = "step" /\ handled' = 0
      /\ UNCHANGED history /\ UNCHANGED tables
      /\ closed' = closed /\ shape' = shape
      /\ batch' = batch /\ round' = round /\ verdicts' = verdicts
      /\ penalties' = penalties /\ unread' = unread /\ crashes' = crashes
  BY DEF StopJudging, history
<1>2. HistoryInv /\ TablesInv /\ ServiceInv /\ LimitsInv
  BY DEF JudgementInv
<1>3. HistoryInv' /\ TablesInv'
  BY <1>1, <1>2, SameHistory, SameTables
<1>4. verdicts = {} /\ penalties = {}
  BY <1>1, <1>2 DEF ServiceInv
<1>5. \A r \in batch' : IsClosed(r)'
  BY <1>1, <1>2, SameTruth DEF ServiceInv
<1>6. handled' \in 0..BatchSize
  BY <1>1, JudgementAssumption
<1>7. ServiceInv'
  BY <1>1, <1>2, <1>4, <1>5, <1>6 DEF ServiceInv
<1> QED
  BY <1>1, <1>2, <1>3, <1>7 DEF JudgementInv, LimitsInv

LEMMA CrashKeeps ==
  ASSUME JudgementInv, Crash
  PROVE  JudgementInv'
<1>1. /\ crashes < MaxCrashes /\ crashes' = crashes + 1
      /\ phase' \in {"step", "judge"} /\ Forget
      /\ UNCHANGED history /\ UNCHANGED tables
      /\ closed' = closed /\ shape' = shape /\ unread' = unread
  BY DEF Crash, OtherHalf, history
<1>2. HistoryInv' /\ TablesInv'
  BY <1>1, SameHistory, SameTables DEF JudgementInv
<1>3. ServiceInv'
  BY <1>1, Forgotten
<1>4. LimitsInv'
  BY <1>1, JudgementAssumption DEF JudgementInv, LimitsInv
<1> QED
  BY <1>2, <1>3, <1>4 DEF JudgementInv

-----------------------------------------------------------------------------
(* Aggregator.JudgeMisses *)

(* Judging, of a round named apart from the service's variable.            *)
JudgingOf(r) ==
  /\ handled < BatchSize
  /\ r \notin judged /\ Reached(r)
  /\ \A v \in verdicts : /\ v.node \in Nodes /\ v.reason \in Outcomes
                         /\ v.reason = TrueOutcome(v.node, r)
  /\ \A n \in shape[r].expected :
       \/ outcomes[<<n, r>>] = TrueOutcome(n, r)
       \/ \E v \in verdicts : v.node = n
  /\ \A d \in penalties : /\ d.node \in Nodes /\ Missed(d.node, r)
                          /\ d.reason \in {"miss", Due(d.node, r)}
  /\ \A n \in Nodes \ Dust : Missed(n, r) =>
       \/ reasons[<<n, r>>] = Due(n, r)
       \/ \E d \in penalties : d.node = n

LEMMA RoundInHand ==
  ASSUME NEW r
  PROVE  /\ r = round => (JudgingOf(r) <=> Judging)
         /\ r = round' => (JudgingOf(r)' <=> Judging')
BY DEF Judging, JudgingOf

LEMMA JudgeRoundKeeps ==
  ASSUME JudgementInv, JudgeRound
  PROVE  JudgementInv'
<1>1. PICK r : r = NextRoundToJudge
  OBVIOUS
<1>2. /\ phase = "judge" /\ round = 0 /\ handled < BatchSize /\ Ready(r)
      /\ round' = r
      /\ verdicts' = {Decision(n, Verdict(r, RoundSubmitters(r), n)) :
                        n \in shape[r].expected}
      /\ penalties' = {Decision(n, "miss") :
                         n \in {m \in shape[r].expected :
                               Verdict(r, RoundSubmitters(r), m) = "missed"}}
      /\ UNCHANGED history /\ UNCHANGED tables
      /\ closed' = closed /\ shape' = shape /\ judged' = judged
      /\ outcomes' = outcomes /\ reasons' = reasons
      /\ phase' = phase /\ batch' = batch /\ handled' = handled
      /\ unread' = unread /\ crashes' = crashes
  BY <1>1 DEF JudgeRound, NodeIntervalsAt, history, tables
<1>3. HistoryInv /\ TablesInv /\ ServiceInv /\ LimitsInv
  BY DEF JudgementInv
<1>4. HistoryInv' /\ TablesInv'
  BY <1>2, <1>3, SameHistory, SameTables
<1>5. /\ r # 0 /\ IsClosed(r) /\ r \in RoundIds /\ r <= opened
      /\ WellShaped(shape[r]) /\ unindexed[r] = {}
  BY <1>2, <1>3, ClosedIsRound DEF Ready
<1>6. r \notin judged /\ Reached(r)
  <2>1. r \in Unjudged /\ \A q \in Unjudged : r <= q
    BY <1>1, <1>3, <1>5, FirstUnjudged
  <2>2. ASSUME NEW q \in 1..r - 1 PROVE q \in judged
    <3>1. r \in Nat /\ opened \in Nat /\ q \in 1..opened /\ ~ (r <= q)
      BY <1>3, <1>5 DEF HistoryInv, RoundIds
    <3> QED
      BY <2>1, <3>1 DEF Unjudged
  <2> QED
    BY <2>1, <2>2 DEF Unjudged, Reached
<1>7. RoundSubmitters(r) = Submitters(r)
  BY <1>5 DEF RoundSubmitters
<1>8. \A n \in shape[r].expected :
        /\ n \in Nodes /\ TrueOutcome(n, r) \in Outcomes
        /\ Verdict(r, RoundSubmitters(r), n) = TrueOutcome(n, r)
        /\ TrueOutcome(n, r) = "missed" <=> Missed(n, r)
  <2>1. \A n \in shape[r].expected :
          Verdict(r, RoundSubmitters(r), n) = TrueOutcome(n, r)
    BY <1>7 DEF TrueOutcome
  <2>2. \A n \in shape[r].expected :
          /\ TrueOutcome(n, r) = "missed" <=> Missed(n, r)
          /\ TrueOutcome(n, r) # "none"
          /\ TrueOutcome(n, r) \in Outcomes \cup {"none"}
    BY <1>5, OutcomeMeans
  <2>3. shape[r].expected \subseteq Nodes
    BY <1>5 DEF WellShaped
  <2> QED
    BY <2>1, <2>2, <2>3
<1>9. verdicts' = {Decision(n, TrueOutcome(n, r)) : n \in shape[r].expected}
  BY <1>2, <1>8
<1>10. penalties' = {Decision(n, "miss") :
                      n \in {m \in shape[r].expected : Missed(m, r)}}
  BY <1>2, <1>8
<1>11. /\ \A v \in verdicts' :
            /\ v \in DecisionsOf(Outcomes)
            /\ v.node \in Nodes /\ v.reason \in Outcomes
            /\ v.reason = TrueOutcome(v.node, r)
       /\ \A n \in shape[r].expected : \E v \in verdicts' : v.node = n
  <2>1. ASSUME NEW n \in shape[r].expected
        PROVE  LET w == Decision(n, TrueOutcome(n, r))
               IN /\ w \in DecisionsOf(Outcomes)
                  /\ w.node = n /\ w.reason = TrueOutcome(n, r)
    BY <1>8 DEF Decision, DecisionsOf
  <2>2. ASSUME NEW v \in verdicts'
        PROVE  /\ v \in DecisionsOf(Outcomes)
               /\ v.node \in Nodes /\ v.reason \in Outcomes
               /\ v.reason = TrueOutcome(v.node, r)
    <3>1. PICK n \in shape[r].expected : v = Decision(n, TrueOutcome(n, r))
      BY <1>9
    <3>2. /\ v \in DecisionsOf(Outcomes)
          /\ v.node = n /\ v.reason = TrueOutcome(n, r)
      BY <2>1, <3>1
    <3> QED
      BY <1>8, <3>2
  <2>3. ASSUME NEW n \in shape[r].expected PROVE \E v \in verdicts' : v.node = n
    <3>1. Decision(n, TrueOutcome(n, r)) \in verdicts'
      BY <1>9
    <3> QED
      BY <2>1, <3>1
  <2> QED
    BY <2>2, <2>3
<1>12. /\ \A d \in penalties' :
            /\ d \in DecisionsOf({"miss"})
            /\ d.node \in Nodes /\ Missed(d.node, r) /\ d.reason = "miss"
       /\ \A n : Missed(n, r) => \E d \in penalties' : d.node = n
  <2>1. \A n : Missed(n, r) => n \in shape[r].expected
    BY DEF Missed
  <2>2. \A n \in Nodes : /\ Decision(n, "miss") \in DecisionsOf({"miss"})
                        /\ Decision(n, "miss").node = n
                        /\ Decision(n, "miss").reason = "miss"
    BY DEF Decision, DecisionsOf
  <2>3. ASSUME NEW d \in penalties'
        PROVE  /\ d \in DecisionsOf({"miss"})
               /\ d.node \in Nodes /\ Missed(d.node, r) /\ d.reason = "miss"
    <3>1. PICK n \in shape[r].expected : Missed(n, r) /\ d = Decision(n, "miss")
      BY <1>10
    <3> QED
      BY <1>8, <2>2, <3>1
  <2>4. ASSUME NEW n, Missed(n, r) PROVE \E d \in penalties' : d.node = n
    <3>1. Decision(n, "miss") \in penalties' /\ n \in Nodes
      BY <1>8, <1>10, <2>1, <2>4
    <3> QED
      BY <2>2, <3>1
  <2> QED
    BY <2>3, <2>4
<1>13. JudgingOf(r)'
  <2>1. Reached(r)' <=> Reached(r)
    BY <1>2 DEF Reached
  <2>2. /\ \A n, q : TrueOutcome(n, q)' = TrueOutcome(n, q)
        /\ \A n, q : Missed(n, q)' <=> Missed(n, q)
    BY <1>2, SameTruth
  <2>3. \A v \in verdicts' : /\ v.node \in Nodes /\ v.reason \in Outcomes
                            /\ v.reason = TrueOutcome(v.node, r)'
    BY <1>11, <2>2
  <2>4. \A n \in shape'[r].expected : \E v \in verdicts' : v.node = n
    BY <1>2, <1>11
  <2>5. \A d \in penalties' : /\ d.node \in Nodes /\ Missed(d.node, r)'
                             /\ d.reason = "miss"
    BY <1>12, <2>2
  <2>6. \A n : Missed(n, r)' => \E d \in penalties' : d.node = n
    BY <1>12, <2>2
  <2>7. handled' < BatchSize /\ r \notin judged' /\ Reached(r)'
    BY <1>2, <1>6, <2>1
  <2> QED
    BY <2>3, <2>4, <2>5, <2>6, <2>7 DEF JudgingOf
<1>14. Judging'
  BY <1>2, <1>13, RoundInHand
<1>15. ServiceInv'
  <2>1. \A q \in batch' : IsClosed(q)'
    BY <1>2, <1>3, SameTruth DEF ServiceInv
  <2>2. round' \in RoundIds /\ round' # 0 /\ IsClosed(round)'
    <3>1. \A q : q = r => IsClosed(q)'
      BY <1>2, <1>5, SameTruth
    <3> QED
      BY <1>2, <1>5, <3>1
  <2>3. /\ verdicts' \subseteq DecisionsOf(Outcomes)
        /\ penalties' \subseteq DecisionsOf(MissReasons \cup {"miss"})
    <3>1. DecisionsOf({"miss"}) \subseteq DecisionsOf(MissReasons \cup {"miss"})
      BY DEF DecisionsOf
    <3> QED
      BY <1>11, <1>12, <3>1
  <2> QED
    BY <1>2, <1>3, <1>14, <2>1, <2>2, <2>3 DEF ServiceInv
<1> QED
  BY <1>2, <1>3, <1>4, <1>15 DEF JudgementInv, LimitsInv

(* What holds while a round is in judgement, gathered for the steps below. *)
LEMMA InJudgement ==
  ASSUME JudgementInv, NEW r, r = round, r # 0, phase = "judge"
  PROVE  /\ HistoryInv /\ TablesInv /\ ServiceInv /\ LimitsInv
         /\ JudgingOf(r) /\ r \in RoundIds /\ IsClosed(r)
         /\ WellShaped(shape[r]) /\ AllClosed(r)
         /\ r \notin judged /\ Reached(r)
<1>1. HistoryInv /\ TablesInv /\ ServiceInv /\ LimitsInv
  BY DEF JudgementInv
<1>2. Judging /\ r \in RoundIds /\ IsClosed(r)
  BY <1>1 DEF ServiceInv
<1>3. JudgingOf(r)
  BY <1>2, RoundInHand
<1>4. r \notin judged /\ Reached(r)
  BY <1>3 DEF JudgingOf
<1> QED
  BY <1>1, <1>2, <1>3, <1>4, ReachedClosed, ClosedIsRound

LEMMA RecordOutcomeKeeps ==
  ASSUME JudgementInv, RecordOutcome
  PROVE  JudgementInv'
<1>1. PICK r, v : r = round /\ v = First(verdicts)
  OBVIOUS
<1> DEFINE k == <<v.node, r>>
<1>2. /\ verdicts # {} /\ verdicts' = verdicts \ {v}
      /\ outcomes' = [outcomes EXCEPT ![k] = IF @ = "none" THEN v.reason ELSE @]
      /\ UNCHANGED history /\ closed' = closed /\ shape' = shape
      /\ aggregated' = aggregated /\ judged' = judged /\ reasons' = reasons
      /\ phase' = phase /\ batch' = batch /\ round' = round
      /\ penalties' = penalties /\ handled' = handled
      /\ unread' = unread /\ crashes' = crashes
  BY <1>1 DEF RecordOutcome, history
<1>3. ServiceInv
  BY DEF JudgementInv
<1>4. phase = "judge" /\ r # 0
  BY <1>1, <1>2, <1>3 DEF ServiceInv
<1>5. /\ HistoryInv /\ TablesInv /\ ServiceInv /\ LimitsInv
      /\ JudgingOf(r) /\ r \in RoundIds /\ IsClosed(r)
      /\ r \notin judged /\ Reached(r)
  BY <1>1, <1>4, InJudgement
<1>6. v \in verdicts
  BY <1>1, <1>2, <1>3, FirstIsOne DEF ServiceInv
<1>7. v.node \in Nodes /\ v.reason \in Outcomes /\ v.reason = TrueOutcome(v.node, r)
  BY <1>5, <1>6 DEF JudgingOf
<1>8. k \in Keys
  BY <1>5, <1>7 DEF Keys
<1>9. outcomes \in [Keys -> Outcomes \cup {"none"}]
  BY <1>5 DEF TablesInv
<1>10. outcomes'[k] = TrueOutcome(v.node, r)
  <2>1. outcomes[k] # "none" => outcomes[k] = TrueOutcome(v.node, r)
    BY <1>5, <1>7 DEF TablesInv, OutcomesTrue
  <2>2. outcomes'[k] = IF outcomes[k] = "none" THEN v.reason ELSE outcomes[k]
    BY <1>2, <1>8, <1>9
  <2> QED
    BY <1>7, <2>1, <2>2
<1>11. \A j \in Keys : j # k => outcomes'[j] = outcomes[j]
  BY <1>2, <1>9
<1>12. outcomes' \in [Keys -> Outcomes \cup {"none"}]
  <2>1. outcomes'[k] \in Outcomes
    BY <1>7, <1>10
  <2> HIDE DEF k
  <2> QED
    BY <1>2, <1>9, <1>11, <2>1
<1>13. HistoryInv'
  BY <1>2, <1>5, SameHistory
<1>14. /\ \A q : Reached(q)' <=> Reached(q)
       /\ \A q : IsClosed(q)' <=> IsClosed(q)
       /\ \A n, q : TrueOutcome(n, q)' = TrueOutcome(n, q)
       /\ \A n, q : Missed(n, q)' <=> Missed(n, q)
       /\ \A n, q : Due(n, q)' = Due(n, q)
       /\ \A q : AllClosed(q)' <=> AllClosed(q)
  <2>1. \A q : Reached(q)' <=> Reached(q)
    BY <1>2 DEF Reached
  <2> QED
    BY <1>2, <2>1, SameTruth
<1>15. TablesInv'
  <2>1. \A n \in Nodes, q \in judged' : outcomes'[<<n, q>>] = TrueOutcome(n, q)'
    <3> SUFFICES ASSUME NEW n \in Nodes, NEW q \in judged
                 PROVE  outcomes'[<<n, q>>] = TrueOutcome(n, q)
      BY <1>2, <1>14
    <3>1. q \in RoundIds /\ q # r
      BY <1>5 DEF TablesInv
    <3>2. <<n, q>> \in Keys /\ <<n, q>> # k
      BY <3>1 DEF Keys
    <3> QED
      BY <1>5, <1>11, <3>2 DEF TablesInv, OutcomesTrue
  <2>2. \A n \in Nodes, q \in RoundIds : outcomes'[<<n, q>>] # "none" =>
          /\ outcomes'[<<n, q>>] = TrueOutcome(n, q)'
          /\ IsClosed(q)' /\ Reached(q)'
    <3> SUFFICES ASSUME NEW n \in Nodes, NEW q \in RoundIds,
                        outcomes'[<<n, q>>] # "none"
                 PROVE  /\ outcomes'[<<n, q>>] = TrueOutcome(n, q)
                        /\ IsClosed(q) /\ Reached(q)
      BY <1>14
    <3>1. CASE <<n, q>> = k
      <4>1. n = v.node /\ q = r
        BY <3>1
      <4> QED
        BY <1>5, <1>10, <4>1
    <3>2. CASE <<n, q>> # k
      <4>1. outcomes'[<<n, q>>] = outcomes[<<n, q>>]
        BY <1>11, <3>2 DEF Keys
      <4> QED
        BY <1>5, <4>1 DEF TablesInv, OutcomesTrue
    <3> QED
      BY <3>1, <3>2
  <2>3. OutcomesTrue'
    BY <2>1, <2>2 DEF OutcomesTrue
  <2>4. PenaltiesDue'
    BY <1>2, <1>5, <1>14 DEF TablesInv, PenaltiesDue
  <2> HIDE DEF k
  <2> QED
    BY <1>2, <1>5, <1>12, <1>14, <2>3, <2>4 DEF TablesInv
<1>16. JudgingOf(r)'
  <2>1. \A n \in shape[r].expected :
          \/ outcomes'[<<n, r>>] = TrueOutcome(n, r)
          \/ \E w \in verdicts' : w.node = n
    <3> SUFFICES ASSUME NEW n \in shape[r].expected, n # v.node
                 PROVE  \/ outcomes'[<<n, r>>] = TrueOutcome(n, r)
                        \/ \E w \in verdicts' : w.node = n
      BY <1>10
    <3>1. n \in Nodes
      BY <1>5, ClosedIsRound DEF WellShaped
    <3>2. outcomes'[<<n, r>>] = outcomes[<<n, r>>]
      BY <1>5, <1>11, <3>1 DEF Keys
    <3>3. \A w \in verdicts : w.node = n => w \in verdicts'
      BY <1>2
    <3> QED
      BY <1>5, <3>2, <3>3 DEF JudgingOf
  <2>2. verdicts' \subseteq verdicts
    BY <1>2
  <2> HIDE DEF k
  <2> QED
    BY <1>2, <1>5, <1>14, <2>1, <2>2 DEF JudgingOf
<1>17. Judging'
  BY <1>1, <1>2, <1>16, RoundInHand
<1>18. ServiceInv'
  <2> HIDE DEF k
  <2>1. \A q \in batch' : IsClosed(q)'
    BY <1>2, <1>5, <1>14 DEF ServiceInv
  <2>2. IsClosed(round)'
    BY <1>1, <1>2, <1>5, <1>14
  <2>3. verdicts' \subseteq DecisionsOf(Outcomes)
    BY <1>2, <1>5 DEF ServiceInv
  <2> QED
    BY <1>1, <1>2, <1>4, <1>5, <1>17, <2>1, <2>2, <2>3 DEF ServiceInv
<1> QED
  BY <1>2, <1>5, <1>13, <1>15, <1>18 DEF JudgementInv, LimitsInv

(* A penalty replaced by one of the same node keeps the round covered.     *)
LEMMA ReadHistoryKeeps ==
  ASSUME JudgementInv, ReadHistory
  PROVE  JudgementInv'
<1>1. PICK r, d : r = round /\ d = First(penalties)
  OBVIOUS
<1>2. PICK e : e = Decision(d.node, LastPenalty(NodeOutcomeHistory(d.node)))
  OBVIOUS
<1>3. /\ phase = "judge" /\ r # 0 /\ verdicts = {} /\ penalties # {}
      /\ d.reason = "miss"
      /\ penalties' = (penalties \ {d}) \cup {e}
      /\ UNCHANGED history /\ UNCHANGED tables
      /\ closed' = closed /\ shape' = shape
      /\ judged' = judged /\ outcomes' = outcomes /\ reasons' = reasons
      /\ phase' = phase /\ batch' = batch /\ round' = round
      /\ verdicts' = verdicts /\ handled' = handled
      /\ unread' = unread /\ crashes' = crashes
  BY <1>1, <1>2 DEF ReadHistory, history, tables
<1>4. /\ HistoryInv /\ TablesInv /\ ServiceInv /\ LimitsInv
      /\ JudgingOf(r) /\ r \in RoundIds /\ IsClosed(r)
      /\ r \notin judged /\ Reached(r)
  BY <1>1, <1>3, InJudgement
<1>5. HistoryInv' /\ TablesInv'
  BY <1>3, <1>4, SameHistory, SameTables
<1>6. d \in penalties
  BY <1>1, <1>3, <1>4, FirstIsOne DEF ServiceInv
<1>7. d.node \in Nodes /\ Missed(d.node, r)
  BY <1>4, <1>6 DEF JudgingOf
<1>8. outcomes[<<d.node, r>>] = TrueOutcome(d.node, r)
  <2>1. d.node \in shape[r].expected
    BY <1>7 DEF Missed
  <2> QED
    BY <1>3, <1>4, <2>1 DEF JudgingOf
<1>9. LastPenalty(NodeOutcomeHistory(d.node)) = Due(d.node, r)
  BY <1>4, <1>7, <1>8, PenaltyIsDue
<1>10. /\ e.node = d.node /\ e.reason = Due(d.node, r)
       /\ e \in DecisionsOf(MissReasons \cup {"miss"})
  <2>1. Due(d.node, r) \in MissReasons
    BY DEF Due, MissReasons
  <2> QED
    BY <1>2, <1>7, <1>9, <2>1 DEF Decision, DecisionsOf
<1>11. JudgingOf(r)'
  <2>1. /\ \A q : Reached(q)' <=> Reached(q)
        /\ \A n, q : TrueOutcome(n, q)' = TrueOutcome(n, q)
        /\ \A n, q : Missed(n, q)' <=> Missed(n, q)
        /\ \A n, q : Due(n, q)' = Due(n, q)
    <3>1. \A q : Reached(q)' <=> Reached(q)
      BY <1>3 DEF Reached
    <3> QED
      BY <1>3, <3>1, SameTruth
  <2>2. \A c \in penalties' : /\ c.node \in Nodes /\ Missed(c.node, r)
                             /\ c.reason \in {"miss", Due(c.node, r)}
    BY <1>3, <1>4, <1>7, <1>10 DEF JudgingOf
  <2>3. \A n : (\E c \in penalties : c.node = n) =>
               \E c \in penalties' : c.node = n
    BY <1>3, <1>10
  <2>4. \A n \in Nodes \ Dust : Missed(n, r) =>
          \/ reasons'[<<n, r>>] = Due(n, r)
          \/ \E c \in penalties' : c.node = n
    BY <1>3, <1>4, <2>3 DEF JudgingOf
  <2> QED
    BY <1>3, <1>4, <2>1, <2>2, <2>4 DEF JudgingOf
<1>12. Judging'
  BY <1>1, <1>3, <1>11, RoundInHand
<1>13. ServiceInv'
  <2>1. \A q \in batch' : IsClosed(q)'
    BY <1>3, <1>4, SameTruth DEF ServiceInv
  <2>2. IsClosed(round)'
    <3>1. \A q : q = r => IsClosed(q)'
      BY <1>3, <1>4, SameTruth
    <3> QED
      BY <1>1, <1>3, <3>1
  <2>3. penalties' \subseteq DecisionsOf(MissReasons \cup {"miss"})
    BY <1>3, <1>4, <1>10 DEF ServiceInv
  <2> QED
    BY <1>1, <1>3, <1>4, <1>12, <2>1, <2>2, <2>3 DEF ServiceInv
<1> QED
  BY <1>3, <1>4, <1>5, <1>13 DEF JudgementInv, LimitsInv

(* A row inserted where there was none, for a reason that is not a miss or *)
(* is the one due, leaves every penalty the one due.                       *)
LEMMA InsertKeepsTables ==
  ASSUME TablesInv, closed' = closed, shape' = shape,
         aggregated' = aggregated, judged' = judged, outcomes' = outcomes,
         NEW n \in Nodes, NEW r \in RoundIds, NEW reason,
         reason \in MissReasons \cup SignatureReasons,
         reasons[<<n, r>>] = "none",
         reasons' = [reasons EXCEPT ![<<n, r>>] = reason],
         reason \in MissReasons =>
           Missed(n, r) /\ reason = Due(n, r) /\ AllClosed(r)
  PROVE  TablesInv'
<1> DEFINE All == MissReasons \cup SignatureReasons \cup {"MANUAL", "none"}
<1>1. <<n, r>> \in Keys
  BY DEF Keys
<1>2. reasons \in [Keys -> All]
  BY DEF TablesInv
<1>3. reason \in All /\ reason # "none"
  BY DEF MissReasons, SignatureReasons
<1> HIDE DEF All
<1>4. reasons' \in [Keys -> All]
  BY <1>1, <1>2, <1>3
<1>5. \A m, q : <<m, q>> \in Keys =>
        reasons'[<<m, q>>] = IF m = n /\ q = r THEN reason
                             ELSE reasons[<<m, q>>]
  BY <1>1, <1>2
<1>6. /\ \A q : Reached(q)' <=> Reached(q)
      /\ \A q : IsClosed(q)' <=> IsClosed(q)
      /\ \A m, q : TrueOutcome(m, q)' = TrueOutcome(m, q)
      /\ \A m, q : Missed(m, q)' <=> Missed(m, q)
      /\ \A m, q : Due(m, q)' = Due(m, q)
      /\ \A q : AllClosed(q)' <=> AllClosed(q)
  <2>1. \A q : Reached(q)' <=> Reached(q)
    BY DEF Reached
  <2> QED
    BY <2>1, SameTruth
<1>7. OutcomesTrue'
  BY <1>6 DEF TablesInv, OutcomesTrue
<1>8. PenaltiesDue'
  <2>1. ASSUME NEW m \in Nodes, NEW q \in RoundIds,
               reasons'[<<m, q>>] \in MissReasons
        PROVE  /\ Missed(m, q) /\ reasons'[<<m, q>>] = Due(m, q)
               /\ AllClosed(q)
    <3>1. CASE m = n /\ q = r
      BY <1>1, <1>5, <2>1, <3>1
    <3>2. CASE ~ (m = n /\ q = r)
      <4>1. reasons'[<<m, q>>] = reasons[<<m, q>>]
        BY <1>5, <3>2 DEF Keys
      <4> QED
        BY <2>1, <4>1 DEF TablesInv, PenaltiesDue
    <3> QED
      BY <3>1, <3>2
  <2>2. ASSUME NEW q \in judged, NEW m \in Nodes \ Dust, Missed(m, q)
        PROVE  reasons'[<<m, q>>] = Due(m, q)
    <3>1. reasons[<<m, q>>] = Due(m, q) /\ q \in RoundIds
      BY <2>2 DEF TablesInv, PenaltiesDue
    <3>2. Due(m, q) # "none"
      BY DEF Due
    <3>3. ~ (m = n /\ q = r)
      BY <3>1, <3>2
    <3>4. <<m, q>> \in Keys
      BY <3>1 DEF Keys
    <3> QED
      BY <1>5, <3>1, <3>3, <3>4
  <2> QED
    BY <1>6, <2>1, <2>2 DEF PenaltiesDue
<1> QED
  BY <1>4, <1>6, <1>7, <1>8 DEF TablesInv, All

(* The call ends at a row with another reason, with no row changed.        *)
DecisionRefused(d, k) ==
  /\ d.node \notin Dust
  /\ reasons[k] # "none" /\ ~Recorded(k, d.reason)
  /\ phase' = OtherHalf(phase)
  /\ Forget
  /\ UNCHANGED reasons

DecisionTaken(d, k) ==
  /\ \/ d.node \in Dust /\ UNCHANGED reasons
     \/ d.node \notin Dust /\ RecordSlashDecision(k, d.reason)
  /\ penalties' = penalties \ {d}
  /\ UNCHANGED <<phase, batch, round, verdicts, handled>>

LEMMA DecideNextKeeps ==
  ASSUME JudgementInv, DecideNext
  PROVE  JudgementInv'
<1>1. PICK r, d : r = round /\ d = First(penalties)
  OBVIOUS
<1> DEFINE k == <<d.node, r>>
<1>2. /\ r # 0 /\ verdicts = {} /\ penalties # {} /\ d.reason # "miss"
      /\ UNCHANGED history /\ closed' = closed /\ shape' = shape
      /\ aggregated' = aggregated /\ judged' = judged /\ outcomes' = outcomes
      /\ unread' = unread /\ crashes' = crashes
      /\ DecisionTaken(d, k) \/ DecisionRefused(d, k)
  BY <1>1 DEF DecideNext, DecisionTaken, DecisionRefused, history
<1>3. HistoryInv /\ TablesInv /\ ServiceInv /\ LimitsInv
  BY DEF JudgementInv
<1>4. HistoryInv' /\ LimitsInv'
  BY <1>2, <1>3, SameHistory DEF LimitsInv
<1>5. /\ phase \in {"step", "judge"} /\ r \in RoundIds /\ IsClosed(r)
  BY <1>1, <1>2, <1>3 DEF ServiceInv
<1>6. CASE DecisionRefused(d, k)
  <2>1. UNCHANGED tables /\ Forget /\ phase' \in {"step", "judge"}
    BY <1>2, <1>6 DEF DecisionRefused, tables, OtherHalf
  <2>2. TablesInv' /\ ServiceInv'
    BY <1>2, <1>3, <2>1, SameTables, Forgotten
  <2> QED
    BY <1>4, <2>2 DEF JudgementInv
<1>7. CASE DecisionTaken(d, k)
  <2>1. /\ penalties' = penalties \ {d}
        /\ phase' = phase /\ batch' = batch /\ round' = round
        /\ verdicts' = verdicts /\ handled' = handled
        /\ \/ reasons' = reasons /\ (d.node \in Dust \/ reasons[k] = d.reason)
           \/ reasons[k] = "none" /\ reasons' = [reasons EXCEPT ![k] = d.reason]
    BY <1>7 DEF DecisionTaken, RecordSlashDecision, Recorded
  <2>2. d \in penalties
    <3>1. \/ penalties \in SUBSET DecisionsOf(SignatureReasons)
          \/ penalties \in SUBSET DecisionsOf(MissReasons \cup {"miss"})
      BY <1>3, <1>5 DEF ServiceInv
    <3> QED
      BY <1>1, <1>2, <3>1, FirstIsOne
  <2>3. phase = "step" => d.node \in Nodes /\ d.reason \in SignatureReasons
    BY <1>3, <2>2 DEF ServiceInv, DecisionsOf
  <2>4. ASSUME phase = "judge"
        PROVE  /\ JudgingOf(r) /\ AllClosed(r)
               /\ d.node \in Nodes /\ Missed(d.node, r)
               /\ d.reason = Due(d.node, r)
    <3>1. JudgingOf(r) /\ AllClosed(r)
      BY <1>1, <1>2, <2>4, InJudgement
    <3> QED
      BY <1>2, <2>2, <3>1 DEF JudgingOf
  <2>5. \A n, q : Due(n, q) \in MissReasons
    BY DEF Due, MissReasons
  <2>6. /\ d.node \in Nodes /\ k \in Keys
        /\ d.reason \in MissReasons \cup SignatureReasons
        /\ d.reason \in MissReasons =>
             Missed(d.node, r) /\ d.reason = Due(d.node, r) /\ AllClosed(r)
    <3>1. \A x \in SignatureReasons : x \notin MissReasons
      BY DEF SignatureReasons, MissReasons
    <3> QED
      BY <1>5, <2>3, <2>4, <2>5, <3>1 DEF Keys
  <2>7. TablesInv'
    <3>1. CASE reasons' = reasons
      <4>1. UNCHANGED tables
        BY <1>2, <3>1 DEF tables
      <4> QED
        BY <1>2, <1>3, <4>1, SameTables
    <3>2. CASE reasons[k] = "none" /\ reasons' = [reasons EXCEPT ![k] = d.reason]
      BY <1>2, <1>3, <1>5, <2>6, <3>2, InsertKeepsTables
    <3> QED
      BY <2>1, <3>1, <3>2
  <2>8. ASSUME phase = "judge" PROVE Judging'
    <3>1. reasons \in [Keys -> MissReasons \cup SignatureReasons
                                \cup {"MANUAL", "none"}]
      BY <1>3 DEF TablesInv
    <3>2. d.node \notin Dust => reasons'[k] = Due(d.node, r)
      BY <2>1, <2>4, <2>6, <2>8, <3>1
    <3>3. ASSUME NEW n \in Nodes \ Dust, Missed(n, r)
          PROVE  \/ reasons'[<<n, r>>] = Due(n, r)
                 \/ \E c \in penalties' : c.node = n
      <4>1. CASE n = d.node
        BY <3>2, <4>1
      <4>2. CASE n # d.node
        <5>1. <<n, r>> \in Keys /\ <<n, r>> # k
          BY <1>5, <4>2 DEF Keys
        <5>2. reasons'[<<n, r>>] = reasons[<<n, r>>]
          <6> HIDE DEF k
          <6> QED BY <2>1, <3>1, <5>1
        <5>3. \A c \in penalties : c.node = n => c \in penalties'
          BY <2>1, <4>2
        <5>4. \/ reasons[<<n, r>>] = Due(n, r)
              \/ \E c \in penalties : c.node = n
          BY <2>4, <2>8, <3>3 DEF JudgingOf
        <5> QED
          BY <5>2, <5>3, <5>4
      <4> QED
        BY <4>1, <4>2
    <3>4. penalties' \subseteq penalties
      BY <2>1
    <3>5. /\ \A q : Reached(q)' <=> Reached(q)
          /\ \A n, q : TrueOutcome(n, q)' = TrueOutcome(n, q)
          /\ \A n, q : Missed(n, q)' <=> Missed(n, q)
          /\ \A n, q : Due(n, q)' = Due(n, q)
      <4>1. \A q : Reached(q)' <=> Reached(q)
        BY <1>2 DEF Reached
      <4> QED
        BY <1>2, <4>1, SameTruth
    <3>6. \A c \in penalties' :
            /\ c.node \in Nodes /\ Missed(c.node, r)'
            /\ c.reason \in {"miss", Due(c.node, r)'}
      BY <2>4, <2>8, <3>4, <3>5 DEF JudgingOf
    <3>7. \A n \in Nodes \ Dust : Missed(n, r)' =>
            \/ reasons'[<<n, r>>] = Due(n, r)'
            \/ \E c \in penalties' : c.node = n
      BY <3>3, <3>5
    <3>8. /\ handled' < BatchSize /\ r \notin judged' /\ Reached(r)'
          /\ \A v \in verdicts' : /\ v.node \in Nodes /\ v.reason \in Outcomes
                                 /\ v.reason = TrueOutcome(v.node, r)'
          /\ \A n \in shape'[r].expected :
               \/ outcomes'[<<n, r>>] = TrueOutcome(n, r)'
               \/ \E v \in verdicts' : v.node = n
      BY <1>2, <2>1, <2>4, <2>8, <3>5 DEF JudgingOf
    <3>9. JudgingOf(r)'
      BY <3>6, <3>7, <3>8 DEF JudgingOf
    <3> QED
      BY <1>1, <2>1, <3>9, RoundInHand
  <2>9. ServiceInv'
    <3>1. \A q \in batch' : IsClosed(q)'
      BY <1>2, <1>3, <2>1, SameTruth DEF ServiceInv
    <3>2. IsClosed(round)'
      <4>1. \A q : q = r => IsClosed(q)'
        BY <1>2, <1>5, SameTruth
      <4> QED
        BY <1>1, <2>1, <4>1
    <3>3. /\ phase = "step" => penalties' \subseteq DecisionsOf(SignatureReasons)
          /\ phase = "judge" =>
               penalties' \subseteq DecisionsOf(MissReasons \cup {"miss"})
      BY <1>3, <2>1 DEF ServiceInv
    <3> HIDE DEF k
    <3> QED
      BY <1>1, <1>2, <1>3, <1>5, <2>1, <2>8, <3>1, <3>2, <3>3 DEF ServiceInv
  <2> QED
    BY <1>4, <2>7, <2>9 DEF JudgementInv
<1> QED
  BY <1>2, <1>6, <1>7

LEMMA MarkMissesJudgedKeeps ==
  ASSUME JudgementInv, MarkMissesJudged
  PROVE  JudgementInv'
<1>1. PICK r : r = round
  OBVIOUS
<1>2. /\ phase = "judge" /\ r # 0 /\ verdicts = {} /\ penalties = {}
      /\ judged' = judged \cup {r} /\ round' = 0 /\ handled' = handled + 1
      /\ UNCHANGED history /\ closed' = closed /\ shape' = shape
      /\ aggregated' = aggregated /\ outcomes' = outcomes /\ reasons' = reasons
      /\ phase' = phase /\ batch' = batch
      /\ verdicts' = verdicts /\ penalties' = penalties
      /\ unread' = unread /\ crashes' = crashes
  BY <1>1 DEF MarkMissesJudged, history
<1>3. /\ HistoryInv /\ TablesInv /\ ServiceInv /\ LimitsInv
      /\ JudgingOf(r) /\ r \in RoundIds /\ IsClosed(r)
      /\ WellShaped(shape[r]) /\ AllClosed(r) /\ Reached(r)
  BY <1>1, <1>2, InJudgement
<1>4. HistoryInv' /\ LimitsInv'
  BY <1>2, <1>3, SameHistory DEF LimitsInv
<1>5. /\ \A q : Reached(q) => Reached(q)'
      /\ \A q : IsClosed(q)' <=> IsClosed(q)
      /\ \A m, q : TrueOutcome(m, q)' = TrueOutcome(m, q)
      /\ \A m, q : Missed(m, q)' <=> Missed(m, q)
      /\ \A m, q : Due(m, q)' = Due(m, q)
      /\ \A q : AllClosed(q)' <=> AllClosed(q)
  <2>1. \A q : Reached(q) => Reached(q)'
    BY <1>2 DEF Reached
  <2> QED
    BY <1>2, <2>1, SameTruth
<1>6. \A n \in Nodes : outcomes[<<n, r>>] = TrueOutcome(n, r)
  <2> SUFFICES ASSUME NEW n \in Nodes
               PROVE  outcomes[<<n, r>>] = TrueOutcome(n, r)
    OBVIOUS
  <2>1. CASE n \in shape[r].expected
    BY <1>2, <1>3, <2>1 DEF JudgingOf
  <2>2. CASE n \notin shape[r].expected
    <3>1. TrueOutcome(n, r) = "none"
      BY <2>2 DEF TrueOutcome
    <3>2. outcomes[<<n, r>>] # "none" => outcomes[<<n, r>>] = TrueOutcome(n, r)
      BY <1>3 DEF TablesInv, OutcomesTrue
    <3> QED
      BY <3>1, <3>2
  <2> QED
    BY <2>1, <2>2
<1>7. \A n \in Nodes \ Dust : Missed(n, r) => reasons[<<n, r>>] = Due(n, r)
  BY <1>2, <1>3 DEF JudgingOf
<1>8. TablesInv'
  <2>1. OutcomesTrue'
    BY <1>2, <1>3, <1>5, <1>6 DEF TablesInv, OutcomesTrue
  <2>2. PenaltiesDue'
    BY <1>2, <1>3, <1>5, <1>7 DEF TablesInv, PenaltiesDue
  <2>3. judged' \subseteq RoundIds
        /\ \A q \in judged' : IsClosed(q)' /\ Reached(q)'
    BY <1>2, <1>3, <1>5 DEF TablesInv
  <2>4. aggregated' \subseteq RoundIds /\ \A q \in aggregated' : IsClosed(q)'
    BY <1>2, <1>3, <1>5 DEF TablesInv
  <2> QED
    BY <1>2, <1>3, <2>1, <2>2, <2>3, <2>4 DEF TablesInv
<1>9. ServiceInv'
  <2>1. \A q \in batch' : IsClosed(q)'
    BY <1>2, <1>3, <1>5 DEF ServiceInv
  <2>2. handled' \in 0..BatchSize
    <3>1. handled < BatchSize /\ handled \in 0..BatchSize /\ BatchSize \in Nat
      BY <1>3, JudgementAssumption DEF JudgingOf, ServiceInv
    <3> QED
      BY <1>2, <3>1
  <2> QED
    BY <1>2, <1>3, <2>1, <2>2 DEF ServiceInv
<1> QED
  BY <1>4, <1>8, <1>9 DEF JudgementInv

-----------------------------------------------------------------------------
(* The invariant, and what follows from it. *)

LEMMA JudgementStarts == Init => JudgementInv
<1> SUFFICES ASSUME Init PROVE JudgementInv
  OBVIOUS
<1>1. PICK hand \in ByHand :
        reasons = [k \in Keys |-> IF k \in hand THEN "MANUAL" ELSE "none"]
  BY DEF Init
<1>2. /\ opened = 0 /\ closed = <<>>
      /\ shape = [r \in RoundIds |-> Open]
      /\ unindexed = [r \in RoundIds |-> {}]
      /\ aggregated = {} /\ judged = {}
      /\ outcomes = [k \in Keys |-> "none"]
      /\ phase = "step" /\ batch = {} /\ round = 0
      /\ verdicts = {} /\ penalties = {} /\ handled = 0
      /\ unread = 0 /\ crashes = 0
  BY DEF Init
<1>3. \A r : ~IsClosed(r)
  BY <1>2 DEF IsClosed
<1>4. HistoryInv
  <2>1. opened \in 0..MaxRounds
    BY <1>2, JudgementAssumption
  <2>2. closed \in Seq(RoundIds) /\ Len(closed) = 0 /\ DOMAIN closed = {}
    BY <1>2
  <2>3. IsInjective(closed) /\ \A i \in 1..Len(closed) : closed[i] <= opened
    BY <2>2 DEF IsInjective
  <2>4. WellShaped(Open)
    <3>1. DOMAIN << >> = {}
      OBVIOUS
    <3> QED
      BY <3>1 DEF WellShaped, Open
  <2>5. /\ DOMAIN shape = RoundIds /\ DOMAIN unindexed = RoundIds
        /\ \A r \in RoundIds : WellShaped(shape[r]) /\ unindexed[r] = {}
    BY <1>2, <2>4
  <2> QED
    BY <1>3, <2>1, <2>2, <2>3, <2>5 DEF HistoryInv
<1>5. TablesInv
  <2>1. \A n \in Nodes, r \in RoundIds :
          outcomes[<<n, r>>] = "none" /\ reasons[<<n, r>>] \in {"MANUAL", "none"}
    BY <1>1, <1>2 DEF Keys
  <2>2. \A x \in {"MANUAL", "none"} : x \notin MissReasons
    BY DEF MissReasons
  <2>3. OutcomesTrue /\ PenaltiesDue
    BY <1>2, <2>1, <2>2 DEF OutcomesTrue, PenaltiesDue
  <2> QED
    BY <1>1, <1>2, <2>3 DEF TablesInv
<1>6. ServiceInv
  <2>1. IsFiniteSet(batch) /\ Cardinality(batch) <= BatchSize
    BY <1>2, FS_EmptySet, JudgementAssumption
  <2>2. handled \in 0..BatchSize
    BY <1>2, JudgementAssumption
  <2> QED
    BY <1>2, <2>1, <2>2 DEF ServiceInv
<1>7. LimitsInv
  BY <1>2, JudgementAssumption DEF LimitsInv
<1> QED
  BY <1>4, <1>5, <1>6, <1>7 DEF JudgementInv

LEMMA JudgementKept == JudgementInv /\ [Next]_vars => JudgementInv'
<1> SUFFICES ASSUME JudgementInv, [Next]_vars PROVE JudgementInv'
  OBVIOUS
<1>1. CASE OpenRound
  BY <1>1, OpenRoundKeeps
<1>2. CASE \E r \in RoundIds : \E s \in Shapes[r] : CloseRound(r, s)
  BY <1>2, CloseRoundKeeps
<1>3. CASE \E r \in RoundIds : IndexSubmissions(r)
  BY <1>3, IndexSubmissionsKeeps
<1>4. CASE ServiceStep
  <2>1. CASE LoadUnaggregated
    BY <2>1, LoadUnaggregatedKeeps
  <2>2. CASE Analyse
    BY <2>2, AnalyseKeeps
  <2>3. CASE MarkRoundAggregated
    BY <2>3, MarkRoundAggregatedKeeps
  <2>4. CASE StopJudging
    BY <2>4, StopJudgingKeeps
  <2>5. CASE JudgeRound
    BY <2>5, JudgeRoundKeeps
  <2>6. CASE RecordOutcome
    BY <2>6, RecordOutcomeKeeps
  <2>7. CASE ReadHistory
    BY <2>7, ReadHistoryKeeps
  <2>8. CASE DecideNext
    BY <2>8, DecideNextKeeps
  <2>9. CASE MarkMissesJudged
    BY <2>9, MarkMissesJudgedKeeps
  <2> QED
    BY <1>4, <2>1, <2>2, <2>3, <2>4, <2>5, <2>6, <2>7, <2>8, <2>9
       DEF ServiceStep
<1>5. CASE Crash
  BY <1>5, CrashKeeps
<1>6. CASE UNCHANGED vars
  <2>1. /\ UNCHANGED history /\ UNCHANGED tables /\ UNCHANGED memory
        /\ closed' = closed /\ shape' = shape
        /\ unread' = unread /\ crashes' = crashes
    BY <1>6 DEF vars, history
  <2>2. HistoryInv' /\ TablesInv' /\ ServiceInv'
    BY <2>1, SameHistory, SameTables, SameService DEF JudgementInv
  <2> QED
    BY <2>1, <2>2 DEF JudgementInv, LimitsInv
<1> QED
  BY <1>1, <1>2, <1>3, <1>4, <1>5, <1>6 DEF Next

(* Whatever the service has recorded and holds in memory is what the       *)
(* chain's record says, taken in the order of rounds (NextRoundToJudge,    *)
(* JudgeMisses and the idempotent inserts of RecordRoundOutcomes and       *)
(* RecordSlashDecision).                                                   *)
THEOREM JudgementInvariant == Spec => []JudgementInv
<1> QED
  BY JudgementStarts, JudgementKept, PTL DEF Spec

(* The tables and the service's memory hold only what the code can put     *)
(* there: rows of finished rounds, at most BatchSize rounds in a batch, a  *)
(* decision at a time for nodes of the round.                              *)
THEOREM JudgementTypeOK == Spec => []TypeOK
<1>1. JudgementInv => TypeOK
  <2> SUFFICES ASSUME JudgementInv PROVE TypeOK
    OBVIOUS
  <2>1. HistoryInv /\ TablesInv /\ ServiceInv /\ LimitsInv
    BY DEF JudgementInv
  <2>2. DOMAIN closed = 1..Len(closed)
    BY <2>1 DEF HistoryInv
  <2>3. \A r : IsClosed(r) <=> r \in Range(closed)
    BY <2>2 DEF IsClosed, Range
  <2>4. Range(closed) \subseteq 1..opened
    <3> SUFFICES ASSUME NEW r, IsClosed(r) PROVE r \in 1..opened
      BY <2>3
    <3>1. r \in RoundIds /\ r <= opened /\ opened \in 0..MaxRounds
      BY <2>1, ClosedIsRound DEF HistoryInv
    <3> QED
      BY <3>1 DEF RoundIds
  <2>5. /\ opened \in 0..MaxRounds /\ IsInjective(closed)
        /\ \A r \in RoundIds : shape[r] \in Shapes[r] \/ ~IsClosed(r)
        /\ \A r \in RoundIds : unindexed[r] \subseteq Submitters(r)
    BY <2>1 DEF HistoryInv
  <2>6. /\ aggregated \cup judged \subseteq Range(closed)
        /\ outcomes \in [Keys -> Outcomes \cup {"none"}]
        /\ reasons \in
             [Keys -> MissReasons \cup SignatureReasons \cup {"MANUAL", "none"}]
    BY <2>1, <2>3 DEF TablesInv
  <2>7. /\ phase \in {"step", "judge"}
        /\ Cardinality(batch) <= BatchSize /\ batch \subseteq Range(closed)
        /\ round \in Range(closed) \cup {0}
        /\ verdicts \subseteq [node : Nodes, reason : Outcomes]
        /\ handled \in 0..BatchSize
    BY <2>1, <2>3 DEF ServiceInv, DecisionsOf
  <2>8. penalties \subseteq
          [node : Nodes, reason : MissReasons \cup SignatureReasons \cup {"miss"}]
    <3> DEFINE Either == MissReasons \cup SignatureReasons \cup {"miss"}
    <3>1. /\ DecisionsOf(SignatureReasons) \subseteq DecisionsOf(Either)
          /\ DecisionsOf(MissReasons \cup {"miss"}) \subseteq DecisionsOf(Either)
      BY DEF DecisionsOf
    <3>2. penalties \subseteq DecisionsOf(Either)
      BY <2>1, <3>1 DEF ServiceInv
    <3> QED
      BY <3>2 DEF DecisionsOf
  <2> QED
    BY <2>1, <2>4, <2>5, <2>6, <2>7, <2>8 DEF TypeOK, LimitsInv
<1> QED
  BY <1>1, JudgementInvariant, PTL

(* However many rounds there are and in whatever order they settle, however*)
(* late submissions are indexed and wherever the service is stopped, the   *)
(* silent nodes of a judged round have the penalty that judging the rounds *)
(* one after another gives (aggregator.go's JudgeMisses, missed.go's       *)
(* PenaltiesFor).                                                          *)
THEOREM PenaltiesInOrder == Spec => []PenaltiesFollowRoundOrder
<1>1. JudgementInv => PenaltiesFollowRoundOrder
  BY DEF JudgementInv, TablesInv, PenaltiesDue, Due, PenaltiesFollowRoundOrder
<1> QED
  BY <1>1, JudgementInvariant, PTL

(* No node is charged with a miss for a round whose record on chain shows  *)
(* its submission or excuses it: JudgeMisses waits for the round to finish *)
(* and for its submissions to be indexed.                                  *)
THEOREM NoMissCharged == Spec => []NoMissForHeard
<1>1. JudgementInv => NoMissForHeard
  BY DEF JudgementInv, TablesInv, PenaltiesDue, NoMissForHeard
<1> QED
  BY <1>1, JudgementInvariant, PTL
=============================================================================
