--------------------------- MODULE BackendProofs ---------------------------
(***************************************************************************)
(* Theorems about the two parts of the backend that work through a log or  *)
(* a chain and keep what they found in tables: the slash pipeline, for any *)
(* number of nodes, rounds, workers, attempts and faults, any penalties    *)
(* and any stakes, and the chain indexer, for any chain, batch size, page  *)
(* size, number of confirmations and number of failures.                   *)
(***************************************************************************)
EXTENDS SlashPipeline, ChainMirror, DataFacts, FiniteSetTheorems, SequenceTheorems, TLAPS

---------------------------------------------------------------------------
(* Part 1: the slash pipeline.                                             *)

TxIds == Workers \X (0..MaxAttempts - 1)

AllTxIds == {NoTx, ManualTx} \cup TxIds

Event ==
  [kind : {"slashed"}, key : Keys, amount : Nat, stake : Nat, tx : AllTxIds]
  \cup [kind : {"stake"}, node : Nodes, stake : Nat]

Given ==
  [result : {"sent", "waiting", "error", "already slashed"},
   pending : PendingSlash]

(* The guard and the log agree: a slash is flagged, and only once.         *)
ChainInv ==
  /\ kind \in Chains
  /\ stake \in [Nodes -> Nat]
  /\ slashedInRound \subseteq Keys
  /\ IsFiniteSet(slashedInRound)
  /\ log \in Seq(Event)
  /\ Len(log) <= MaxLog + Cardinality(slashedInRound)
  /\ \A i \in Slashes : log[i].key \in slashedInRound
  /\ OnePenaltyPerRound

SentInv ==
  /\ mempool \subseteq [key : Keys, amount : Nat, id : TxIds]
  /\ reverted \subseteq TxIds

(* The first half of AuditMatchesChain without the amounts, the second     *)
(* with them: as a slash is the only one of its key, both amounts agree.   *)
Audit ==
  /\ \A i \in Slashes : i <= lastBlock + done => rows[log[i].key].executed
  /\ \A k \in Keys : rows[k].executed =>
       \E i \in Slashes : log[i].key = k /\ log[i].amount = rows[k].amount

IndexInv ==
  /\ rows \in [Keys -> Row]
  /\ dbStake \in [Nodes -> Nat]
  /\ dbSlashedTotal \in [Nodes -> Nat]
  /\ lastBlock \in Nat
  /\ done \in Nat
  /\ lastBlock + done <= Len(log)
  /\ Audit

(* A worker's copy of the count is behind the row's.                       *)
Counted(p) == rows[p.key].attempts >= p.attempts + 1

WorkersInv ==
  /\ claimed \in [Workers -> SUBSET PendingSlash]
  /\ answer \in [Workers -> Given \cup {NoAnswer}]
  /\ \A w \in Workers, p \in PendingSlash : p \in claimed[w] => Counted(p)
  /\ \A w \in Workers : answer[w] # NoAnswer =>
       /\ Counted(answer[w].pending)
       /\ answer[w].result = "already slashed" =>
            answer[w].pending.key \in slashedInRound
  /\ AbandonedForCause
  /\ faults \in 0..MaxFaults

PipelineInv ==
  /\ ChainInv
  /\ SentInv
  /\ IndexInv
  /\ WorkersInv

---------------------------------------------------------------------------
(* Constants and numbers. *)

LEMMA PipelineConstants ==
  /\ MaxAttempts \in Nat \ {0} /\ MaxFaults \in Nat /\ MaxLog \in Nat
  /\ MaxSlashBps \in Nat /\ MaxSlashBps <= 10000
  /\ InitialStake \in Nat
  /\ \A s \in Restakes : s \in Nat
  /\ \A a \in ManualAmounts : a \in Nat
<1>1. MaxSlashBps \in 1..10000
  <2>1. MaxSlashBps \in 1..BPS
    BY PipelineAssumption DEF PipelineAssumption
  <2> QED
    BY ONLY <2>1 DEF BPS
<1>2. MaxSlashBps \in Nat /\ MaxSlashBps <= 10000
  BY ONLY <1>1
<1> QED
  BY <1>2, PipelineAssumption DEF PipelineAssumption

LEMMA PenaltyBounds ==
  ASSUME NEW r \in Reasons
  PROVE  Penalty[r] \in Nat /\ Penalty[r] <= 10000
<1> DEFINE b == Penalty[r]
<1>1. Penalty \in [Reasons -> 1..BPS]
  BY PipelineAssumption DEF PipelineAssumption
<1>2. b \in 1..BPS
  BY <1>1, Zenon
<1> HIDE DEF b
<1>3. BPS = 10000
  BY DEF BPS
<1>4. b \in Nat /\ b <= 10000
  BY ONLY <1>2, <1>3
<1> QED
  BY <1>4 DEF b

Portion(s, b) == (s * b) \div 10000

LEMMA Share ==
  ASSUME NEW s \in Nat, NEW b \in Nat, b <= 10000
  PROVE  Portion(s, b) \in Nat /\ Portion(s, b) <= s
<1> DEFINE x == s * b
<1>1. x \in Nat /\ x <= s * 10000
  <2>1. b \in Nat /\ b <= 10000
    OBVIOUS
  <2>2. s * b \in Nat
    BY <2>1
  <2>3. s * b <= s * 10000
    BY <2>1
  <2> QED
    BY <2>2, <2>3
<1> HIDE DEF x
<1>2. x \div 10000 \in Nat /\ x \div 10000 <= s
  BY <1>1
<1> QED
  BY <1>2 DEF x, Portion

LEMMA SlashesTyped ==
  ASSUME ChainInv, NEW i \in Slashes
  PROVE  /\ i \in 1..Len(log)
         /\ log[i] \in [kind : {"slashed"}, key : Keys, amount : Nat,
                        stake : Nat, tx : AllTxIds]
<1>1. i \in 1..Len(log) /\ log[i].kind = "slashed"
  BY DEF Slashes
<1>2. log[i] \in Event
  BY <1>1 DEF ChainInv
<1> QED
  BY <1>1, <1>2 DEF Event

---------------------------------------------------------------------------
(* The chain.  A step appends an event or leaves the log alone. *)

LEMMA LogAppended ==
  ASSUME ChainInv, NEW e \in Event, log' = Append(log, e)
  PROVE  LET n == Len(log) + 1
         IN  /\ log' \in Seq(Event)
             /\ Len(log') = n /\ n \in Nat /\ Len(log) \in Nat
             /\ log'[n] = e
             /\ \A i \in 1..Len(log) : log'[i] = log[i]
             /\ \A i : i \in 1..n <=> i \in 1..Len(log) \/ i = n
             /\ n \notin 1..Len(log)
<1> DEFINE n == Len(log) + 1
<1>1. log \in Seq(Event) /\ Len(log) \in Nat
  BY DEF ChainInv
<1> DEFINE longer == Append(log, e)
<1>2. /\ longer \in Seq(Event) /\ Len(longer) = n
      /\ longer[n] = e
      /\ \A i \in 1..Len(log) : longer[i] = log[i]
  BY <1>1
<1>3. /\ n \in Nat /\ n \notin 1..Len(log)
      /\ \A i : i \in 1..n <=> i \in 1..Len(log) \/ i = n
  BY <1>1
<1>4. log' = longer
  OBVIOUS
<1> HIDE DEF longer, n
<1> QED
  BY <1>1, <1>2, <1>3, <1>4 DEF n

(* The slashes of a longer log. *)
LEMMA SlashesAppended ==
  ASSUME ChainInv, NEW e \in Event, log' = Append(log, e)
  PROVE  /\ Slashes' = Slashes \cup (IF e.kind = "slashed" THEN {Len(log) + 1}
                                     ELSE {})
         /\ \A i \in Slashes : log'[i] = log[i] /\ i # Len(log) + 1
<1> DEFINE n == Len(log) + 1
<1>1. /\ Len(log') = n
      /\ log'[n] = e
      /\ \A i \in 1..Len(log) : log'[i] = log[i]
      /\ \A i : i \in 1..n <=> i \in 1..Len(log) \/ i = n
      /\ n \notin 1..Len(log)
  BY LogAppended
<1> HIDE DEF n
<1>2. \A i \in Slashes : log'[i] = log[i] /\ i # n
  BY <1>1 DEF Slashes
<1>3. Slashes' = Slashes \cup (IF e.kind = "slashed" THEN {n} ELSE {})
  BY <1>1 DEF Slashes
<1> QED
  BY <1>2, <1>3 DEF n

LEMMA SlashKeepsChain ==
  ASSUME ChainInv, NEW k \in Keys, NEW a \in Nat, NEW tx \in AllTxIds,
         Slash(k, a, tx)
  PROVE  /\ ChainInv'
         /\ slashedInRound \subseteq slashedInRound'
         /\ \E e \in Event : log' = Append(log, e)
<1> DEFINE n == k[1]
           left == stake[n] - a
           e == SlashEvent(k, a, left, tx)
<1>1. /\ k \notin slashedInRound
      /\ ~(a > Cap(n))
      /\ slashedInRound' = slashedInRound \cup {k}
      /\ stake' = [stake EXCEPT ![n] = left]
      /\ kind' = kind
      /\ log' = Append(log, e)
  BY DEF Slash, Refused, ExceedsCap
<1>2. n \in Nodes /\ stake[n] \in Nat
  BY DEF Keys, ChainInv
<1>3. Cap(n) \in Nat /\ Cap(n) <= stake[n]
  <2>1. MaxSlashBps \in Nat /\ MaxSlashBps <= 10000
    BY PipelineConstants
  <2>2. Cap(n) = Portion(stake[n], MaxSlashBps)
    BY DEF Cap, BPS, Portion
  <2>3. /\ Portion(stake[n], MaxSlashBps) \in Nat
        /\ Portion(stake[n], MaxSlashBps) <= stake[n]
    <3>1. \A v \in Nat : Portion(v, MaxSlashBps) \in Nat /\ Portion(v, MaxSlashBps) <= v
      BY ONLY <2>1, Share
    <3> QED
      BY <1>2, <3>1
  <2> QED
    BY <2>2, <2>3
<1>4. left \in Nat
  BY <1>1, <1>2, <1>3
<1>5. e \in Event /\ e.kind = "slashed" /\ e.key = k
  BY <1>4 DEF SlashEvent, Event
<1> HIDE DEF n, left, e
<1>6. stake' \in [Nodes -> Nat]
  BY <1>1, <1>2, <1>4 DEF ChainInv
<1>7. /\ IsFiniteSet(slashedInRound')
      /\ Cardinality(slashedInRound') = Cardinality(slashedInRound) + 1
      /\ Cardinality(slashedInRound) \in Nat
  BY <1>1, FS_AddElement, FS_CardinalityType DEF ChainInv
<1> DEFINE z == Len(log) + 1
<1>8. /\ log' \in Seq(Event) /\ Len(log') = z /\ log'[z] = e
      /\ Len(log) \in Nat
  BY <1>1, <1>5, LogAppended
<1>9. Slashes' = Slashes \cup {z} /\ \A i \in Slashes : log'[i] = log[i] /\ i # z
  BY <1>1, <1>5, SlashesAppended
<1>10. Len(log') <= MaxLog + Cardinality(slashedInRound')
  <2>1. Len(log) <= MaxLog + Cardinality(slashedInRound) /\ MaxLog \in Nat
    BY PipelineConstants DEF ChainInv
  <2>2. \A l, m, c \in Nat : l <= m + c => l + 1 <= m + (c + 1)
    OBVIOUS
  <2>3. Len(log) \in Nat /\ Cardinality(slashedInRound) \in Nat /\ MaxLog \in Nat
    BY <1>7, <1>8, <2>1
  <2>4. Len(log) + 1 <= MaxLog + (Cardinality(slashedInRound) + 1)
    BY ONLY <2>1, <2>2, <2>3
  <2> QED
    BY ONLY <1>7, <1>8, <2>4
<1> HIDE DEF z
<1>11. \A i \in Slashes' : log'[i].key \in slashedInRound'
  BY <1>1, <1>5, <1>8, <1>9 DEF ChainInv
<1>12. OnePenaltyPerRound'
  <2> SUFFICES ASSUME NEW i \in Slashes', NEW j \in Slashes',
                      log'[i].key = log'[j].key
               PROVE  i = j
    BY DEF OnePenaltyPerRound
  <2>1. \A x \in Slashes : log'[x].key \in slashedInRound /\ log'[x].key # k
    BY <1>1, <1>9 DEF ChainInv
  <2>2. log'[z].key = k
    BY <1>5, <1>8
  <2>3. \A x, y \in Slashes : log'[x].key = log'[y].key => x = y
    BY <1>9 DEF ChainInv, OnePenaltyPerRound
  <2> QED
    BY <1>9, <2>1, <2>2, <2>3
<1>13. slashedInRound' \subseteq Keys
  BY <1>1 DEF ChainInv
<1> QED
  BY <1>1, <1>5, <1>6, <1>7, <1>8, <1>10, <1>11, <1>12, <1>13 DEF ChainInv

LEMMA RestakeKeepsChain ==
  ASSUME ChainInv, NEW n \in Nodes, NEW value \in Restakes, Restake(n, value)
  PROVE  /\ ChainInv'
         /\ slashedInRound' = slashedInRound
         /\ \E e \in Event : log' = Append(log, e)
<1> DEFINE e == StakeEvent(n, value)
<1>1. /\ Len(log) < MaxLog
      /\ stake' = [stake EXCEPT ![n] = value]
      /\ log' = Append(log, e)
      /\ UNCHANGED <<kind, slashedInRound>>
  BY DEF Restake
<1>2. value \in Nat
  BY PipelineConstants
<1>3. e \in Event /\ e.kind = "stake"
  BY <1>2 DEF StakeEvent, Event
<1> HIDE DEF e
<1>4. stake' \in [Nodes -> Nat]
  BY <1>1, <1>2 DEF ChainInv
<1>5. /\ log' \in Seq(Event) /\ Len(log') = Len(log) + 1 /\ Len(log) \in Nat
  BY <1>1, <1>3, LogAppended
<1>6. Slashes' = Slashes /\ \A i \in Slashes : log'[i] = log[i]
  BY <1>1, <1>3, SlashesAppended
<1>7. Cardinality(slashedInRound) \in Nat
  BY FS_CardinalityType DEF ChainInv
<1>8. Len(log') <= MaxLog + Cardinality(slashedInRound)
  BY <1>1, <1>5, <1>7, PipelineConstants
<1>9. \A i \in Slashes' : log'[i].key \in slashedInRound
  BY <1>6 DEF ChainInv
<1>10. OnePenaltyPerRound'
  BY <1>6 DEF ChainInv, OnePenaltyPerRound
<1> QED
  BY <1>1, <1>3, <1>4, <1>5, <1>8, <1>9, <1>10 DEF ChainInv

---------------------------------------------------------------------------
(* Steps that leave the rows, and steps that leave the chain. *)

LEMMA LogGrows ==
  ASSUME ChainInv, IndexInv,
         \/ log' = log
         \/ \E e \in Event : log' = Append(log, e),
         UNCHANGED <<rows, indexed>>
  PROVE  IndexInv'
<1>1. UNCHANGED <<rows, dbStake, dbSlashedTotal, lastBlock, done>>
  BY DEF indexed
<1>2. CASE log' = log
  BY <1>1, <1>2 DEF IndexInv, Audit, Slashes
<1>3. CASE \E e \in Event : log' = Append(log, e)
  <2> PICK e \in Event : log' = Append(log, e)
    BY <1>3
  <2> DEFINE z == Len(log) + 1
  <2>1. Len(log) \in Nat /\ Len(log') = z
    BY LogAppended
  <2>2. /\ \A i \in Slashes : log'[i] = log[i] /\ i \in Slashes'
        /\ \A i \in Slashes' : i \in Slashes \/ i = z
    BY SlashesAppended
  <2>3. lastBlock + done <= Len(log) /\ lastBlock + done \in Nat
    BY DEF IndexInv
  <2>4. lastBlock + done < z
    BY <2>1, <2>3
  <2>5. lastBlock + done <= Len(log')
    BY <2>1, <2>3
  <2>6. ~(z <= lastBlock + done)
    BY <2>1, <2>4, <2>3
  <2> HIDE DEF z
  <2>7. \A i \in Slashes' : i <= lastBlock' + done' => rows'[log'[i].key].executed
    BY <1>1, <2>2, <2>6 DEF IndexInv, Audit
  <2>8. \A k \in Keys : rows'[k].executed =>
          \E i \in Slashes' : log'[i].key = k /\ log'[i].amount = rows'[k].amount
    <3> SUFFICES ASSUME NEW k \in Keys, rows'[k].executed
                 PROVE  \E i \in Slashes' :
                          log'[i].key = k /\ log'[i].amount = rows'[k].amount
      OBVIOUS
    <3>0. rows' = rows
      BY <1>1
    <3>1. PICK i \in Slashes : log[i].key = k /\ log[i].amount = rows[k].amount
      BY <3>0 DEF IndexInv, Audit
    <3>2. i \in Slashes' /\ log'[i] = log[i]
      BY <2>2
    <3> QED
      BY <3>0, <3>1, <3>2
  <2>9. Audit'
    BY <2>7, <2>8, Zenon DEF Audit
  <2> QED
    BY <1>1, <2>5, <2>9 DEF IndexInv
<1> QED
  BY <1>2, <1>3

LEMMA WorkersAside ==
  ASSUME WorkersInv, UNCHANGED <<rows, executor>>, faults' \in 0..MaxFaults,
         slashedInRound \subseteq slashedInRound'
  PROVE  WorkersInv'
BY DEF WorkersInv, executor, Counted, AbandonedForCause

(* Steps of the executor and of the decision change rows, but neither what *)
(* is executed nor the amount of what is.                                  *)
LEMMA RowsMove ==
  ASSUME IndexInv, rows' \in [Keys -> Row], UNCHANGED <<log, indexed>>,
         \A k \in Keys : /\ rows'[k].executed = rows[k].executed
                         /\ rows[k].executed => rows'[k].amount = rows[k].amount,
         ChainInv
  PROVE  IndexInv'
<1>1. UNCHANGED <<log, dbStake, dbSlashedTotal, lastBlock, done>>
  BY DEF indexed
<1>2. Slashes' = Slashes /\ \A i \in Slashes : log[i].key \in Keys
  BY <1>1, SlashesTyped DEF Slashes
<1>3. Audit'
  BY <1>1, <1>2 DEF IndexInv, Audit
<1> QED
  BY <1>1, <1>3 DEF IndexInv

LEMMA ChainAside ==
  ASSUME ChainInv, UNCHANGED chain
  PROVE  ChainInv'
BY DEF ChainInv, chain, Slashes, OnePenaltyPerRound

LEMMA SentAside ==
  ASSUME SentInv, UNCHANGED sent
  PROVE  SentInv'
BY DEF SentInv, sent

LEMMA IndexAside ==
  ASSUME ChainInv, IndexInv, UNCHANGED <<chain, rows, indexed>>
  PROVE  IndexInv'
BY LogGrows DEF chain

LEMMA FaultCounted ==
  ASSUME WorkersInv, faults < MaxFaults, faults' = faults + 1
  PROVE  faults' \in 0..MaxFaults
<1>1. MaxFaults \in Nat /\ faults \in 0..MaxFaults
  <2>1. MaxFaults \in Nat
    BY PipelineConstants
  <2> QED
    BY <2>1 DEF WorkersInv
<1>2. faults + 1 \in 0..MaxFaults
  BY <1>1
<1> QED
  BY <1>2

---------------------------------------------------------------------------
(* The chain's steps. *)

LEMMA MineKeeps ==
  ASSUME PipelineInv, NEW tx \in mempool, Mine(tx)
  PROVE  PipelineInv'
<1>0. ChainInv /\ SentInv /\ IndexInv /\ WorkersInv
  BY DEF PipelineInv
<1>1. tx.key \in Keys /\ tx.amount \in Nat /\ tx.id \in TxIds
  BY <1>0 DEF SentInv
<1>2. mempool' \subseteq mempool /\ UNCHANGED <<rows, indexed, executor, faults>>
  BY DEF Mine
<1>3. CASE Slash(tx.key, tx.amount, tx.id) /\ UNCHANGED reverted
  <2>1. /\ ChainInv'
        /\ slashedInRound \subseteq slashedInRound'
        /\ \E e \in Event : log' = Append(log, e)
    BY <1>0, <1>1, <1>3, SlashKeepsChain DEF AllTxIds
  <2>2. IndexInv'
    BY <1>0, <1>2, <2>1, LogGrows
  <2>3. WorkersInv'
    BY <1>0, <1>2, <2>1, WorkersAside DEF WorkersInv
  <2>4. SentInv'
    BY <1>0, <1>2, <1>3 DEF SentInv
  <2> QED
    BY <2>1, <2>2, <2>3, <2>4 DEF PipelineInv
<1>4. CASE reverted' = reverted \cup {tx.id} /\ UNCHANGED chain
  <2>1. ChainInv' /\ slashedInRound' = slashedInRound
    BY <1>0, <1>4, ChainAside DEF chain
  <2>2. IndexInv'
    BY <1>0, <1>2, <1>4, IndexAside
  <2>3. WorkersInv'
    BY <1>0, <1>2, <2>1, WorkersAside DEF WorkersInv
  <2>4. SentInv'
    BY <1>0, <1>1, <1>2, <1>4 DEF SentInv
  <2> QED
    BY <2>1, <2>2, <2>3, <2>4 DEF PipelineInv
<1> QED
  BY <1>3, <1>4 DEF Mine

LEMMA DropKeeps ==
  ASSUME PipelineInv, NEW tx \in mempool, DropTransaction(tx)
  PROVE  PipelineInv'
<1>0. ChainInv /\ SentInv /\ IndexInv /\ WorkersInv
  BY DEF PipelineInv
<1>1. /\ mempool' \subseteq mempool /\ faults < MaxFaults /\ faults' = faults + 1
      /\ UNCHANGED <<chain, reverted, rows, indexed, executor>>
  BY DEF DropTransaction
<1>2. ChainInv' /\ slashedInRound' = slashedInRound
  BY <1>0, <1>1, ChainAside DEF chain
<1>3. IndexInv'
  BY <1>0, <1>1, IndexAside
<1>4. WorkersInv'
  BY <1>0, <1>1, <1>2, WorkersAside, FaultCounted
<1>5. SentInv'
  BY <1>0, <1>1 DEF SentInv
<1> QED
  BY <1>2, <1>3, <1>4, <1>5 DEF PipelineInv

LEMMA ManualSlashKeeps ==
  ASSUME PipelineInv, NEW k \in Keys, NEW a \in ManualAmounts, ManualSlash(k, a)
  PROVE  PipelineInv'
<1>0. ChainInv /\ SentInv /\ IndexInv /\ WorkersInv
  BY DEF PipelineInv
<1>1. Slash(k, a, ManualTx) /\ UNCHANGED <<sent, rows, indexed, executor, faults>>
  BY DEF ManualSlash
<1>2. a \in Nat /\ ManualTx \in AllTxIds
  BY PipelineConstants DEF AllTxIds
<1>3. /\ ChainInv'
      /\ slashedInRound \subseteq slashedInRound'
      /\ \E e \in Event : log' = Append(log, e)
  BY <1>0, <1>1, <1>2, SlashKeepsChain
<1>4. IndexInv'
  BY <1>0, <1>1, <1>3, LogGrows
<1>5. WorkersInv'
  BY <1>0, <1>1, <1>3, WorkersAside DEF WorkersInv
<1>6. SentInv'
  BY <1>0, <1>1, SentAside
<1> QED
  BY <1>3, <1>4, <1>5, <1>6 DEF PipelineInv

LEMMA RestakeKeeps ==
  ASSUME PipelineInv, NEW n \in Nodes, NEW s \in Restakes, Restake(n, s)
  PROVE  PipelineInv'
<1>0. ChainInv /\ SentInv /\ IndexInv /\ WorkersInv
  BY DEF PipelineInv
<1>1. UNCHANGED <<sent, rows, indexed, executor, faults>>
  BY DEF Restake
<1>3. /\ ChainInv'
      /\ slashedInRound' = slashedInRound
      /\ \E e \in Event : log' = Append(log, e)
  BY <1>0, RestakeKeepsChain
<1>4. IndexInv'
  BY <1>0, <1>1, <1>3, LogGrows
<1>5. WorkersInv'
  BY <1>0, <1>1, <1>3, WorkersAside DEF WorkersInv
<1>6. SentInv'
  BY <1>0, <1>1, SentAside
<1> QED
  BY <1>3, <1>4, <1>5, <1>6 DEF PipelineInv

---------------------------------------------------------------------------
(* The rows the service writes. *)

LEMMA RowFields ==
  ASSUME NEW row \in Row
  PROVE  /\ row.amount \in Nat /\ row.attempts \in 0..MaxAttempts
         /\ row.executed \in BOOLEAN /\ row.abandoned \in BOOLEAN
         /\ row.submitted \in BOOLEAN
BY DEF Row

LEMMA NoRowTyped ==
  /\ NoRow \in Row
  /\ NoRow.attempts = 0 /\ ~NoRow.executed /\ ~NoRow.abandoned
<1>1. 0 \in 0..MaxAttempts /\ 0 \in Nat
  BY PipelineConstants
<1> QED
  BY <1>1 DEF NoRow, Row

LEMMA NewRowTyped ==
  ASSUME NEW reason \in Reasons \cup {Manual}, NEW amount \in Nat
  PROVE  /\ NewRow(reason, amount) \in Row
         /\ NewRow(reason, amount).attempts = 0
         /\ ~NewRow(reason, amount).executed
         /\ ~NewRow(reason, amount).abandoned
<1>1. 0 \in 0..MaxAttempts
  BY PipelineConstants
<1> QED
  BY <1>1 DEF NewRow, NoRow, Row

Final == {"sent", "already slashed", "error"}

LEMMA MarkedRow ==
  ASSUME NEW row \in Row, NEW p \in PendingSlash, NEW w \in Workers,
         NEW result \in Final
  PROVE  LET m == Marked(row, result, p.attempts, TxOf(w, p))
         IN  /\ m \in Row
             /\ m.executed = row.executed /\ m.amount = row.amount
             /\ m.attempts = row.attempts
             /\ m.abandoned => \/ row.abandoned
                               \/ result = "already slashed"
                               \/ /\ result = "error"
                                  /\ p.attempts + 1 >= MaxAttempts
<1> DEFINE m == Marked(row, result, p.attempts, TxOf(w, p))
           t == TxOf(w, p)
           u == p.attempts + 1 >= MaxAttempts
<1>1. t \in TxIds
  BY DEF TxOf, TxIds, PendingSlash
<1>3. result = "sent" =>
        m = IF row.submitted THEN row
            ELSE [row EXCEPT !.submitted = TRUE, !.tx = t]
  BY DEF Marked
<1>4. result = "already slashed" => m = [row EXCEPT !.abandoned = TRUE]
  BY DEF Marked
<1>5. result = "error" => m = [row EXCEPT !.abandoned = @ \/ u]
  BY DEF Marked
<1> HIDE DEF m, t, u
<1>6. CASE result = "sent"
  <2>1. CASE row.submitted
    BY <1>3, <1>6, <2>1 DEF m, t, u
  <2>2. CASE ~row.submitted
    <3>1. m = [row EXCEPT !.submitted = TRUE, !.tx = t]
      BY <1>3, <1>6, <2>2
    <3>2. m \in Row
      BY <1>1, <3>1 DEF Row, TxIds
    <3>3. /\ m.executed = row.executed /\ m.amount = row.amount
          /\ m.attempts = row.attempts /\ m.abandoned = row.abandoned
      BY <3>1 DEF Row
    <3> QED
      BY <3>2, <3>3 DEF m, t
  <2> QED
    BY <2>1, <2>2
<1>7. CASE result = "already slashed"
  <2>1. m \in Row
    BY <1>4, <1>7 DEF Row
  <2>2. /\ m.executed = row.executed /\ m.amount = row.amount
        /\ m.attempts = row.attempts
    BY <1>4, <1>7 DEF Row
  <2> QED
    BY <1>7, <2>1, <2>2 DEF m, t
<1>8. CASE result = "error"
  <2>0. (row.abandoned \/ u) \in BOOLEAN
    BY DEF Row
  <2>1. m \in Row
    BY <1>5, <1>8, <2>0 DEF Row
  <2>2. /\ m.executed = row.executed /\ m.amount = row.amount
        /\ m.attempts = row.attempts /\ m.abandoned = (row.abandoned \/ u)
    BY <1>5, <1>8 DEF Row
  <2> QED
    BY <1>8, <2>1, <2>2 DEF m, t, u
<1> QED
  BY <1>6, <1>7, <1>8 DEF Final

LEMMA DecideKeeps ==
  ASSUME PipelineInv, NEW k \in Keys, NEW reason \in Reasons, Decide(k, reason)
  PROVE  PipelineInv'
<1> DEFINE amount == (dbStake[k[1]] * Penalty[reason]) \div BPS
           new == NewRow(reason, amount)
<1>0. ChainInv /\ SentInv /\ IndexInv /\ WorkersInv
  BY DEF PipelineInv
<1>1. /\ rows[k] = NoRow /\ rows' = [rows EXCEPT ![k] = new]
      /\ UNCHANGED <<chain, sent, indexed, executor, faults>>
  BY DEF Decide, Present
<1>2. amount \in Nat
  <2>1. dbStake[k[1]] \in Nat
    BY <1>0 DEF IndexInv, Keys
  <2>2. amount = Portion(dbStake[k[1]], Penalty[reason])
    BY DEF Portion, BPS
  <2>3. \A v \in Nat : Portion(v, Penalty[reason]) \in Nat
    <3> DEFINE b == Penalty[reason]
    <3>1. b \in Nat /\ b <= 10000
      BY PenaltyBounds
    <3> HIDE DEF b
    <3>2. \A v \in Nat : Portion(v, b) \in Nat
      BY ONLY <3>1, Share
    <3> QED
      BY <3>2 DEF b
  <2> HIDE DEF amount
  <2> QED
    BY <2>1, <2>2, <2>3
<1>3. new \in Row /\ new.attempts = 0 /\ ~new.executed /\ ~new.abandoned
  BY <1>2, NewRowTyped
<1> HIDE DEF amount, new
<1>4. rows[k].attempts = 0 /\ ~rows[k].executed
  BY <1>1, NoRowTyped
<1>5. /\ rows' \in [Keys -> Row]
      /\ \A x \in Keys : x # k => rows'[x] = rows[x]
      /\ rows'[k] = new
  BY <1>0, <1>1, <1>3 DEF IndexInv
<1>6. ChainInv' /\ SentInv' /\ slashedInRound' = slashedInRound
  BY <1>0, <1>1, ChainAside, SentAside DEF chain
<1>7. \A x \in Keys : /\ rows'[x].executed = rows[x].executed
                      /\ rows[x].executed => rows'[x].amount = rows[x].amount
  <2> TAKE x \in Keys
  <2>1. CASE x = k
    <3>1. rows'[x].executed \in BOOLEAN /\ rows[x].executed \in BOOLEAN
      BY <1>0, <1>5, RowFields DEF IndexInv
    <3> QED
      BY <1>3, <1>4, <1>5, <2>1, <3>1
  <2>2. CASE x # k
    BY <1>5, <2>2
  <2> QED
    BY <2>1, <2>2
<1>8. IndexInv'
  BY <1>0, <1>1, <1>5, <1>7, RowsMove DEF chain
<1>9. \A p \in PendingSlash : Counted(p) => Counted(p)'
  <2> TAKE p \in PendingSlash
  <2>1. p.attempts \in Nat /\ p.key \in Keys
    BY DEF PendingSlash
  <2> QED
    BY <1>4, <1>5, <2>1 DEF Counted
<1>10. AbandonedForCause'
  BY <1>0, <1>3, <1>5, <1>6 DEF WorkersInv, AbandonedForCause
<1>11. WorkersInv'
  BY <1>0, <1>1, <1>6, <1>9, <1>10 DEF WorkersInv, executor, Given
<1> QED
  BY <1>6, <1>8, <1>11 DEF PipelineInv

---------------------------------------------------------------------------
(* The executor's steps. *)

LEMMA ClaimKeeps ==
  ASSUME PipelineInv, NEW w \in Workers, Claim(w)
  PROVE  PipelineInv'
<1> DEFINE batch == {k \in Keys : Claimable(k)}
           taken == {Pending(k) : k \in batch}
<1>0. ChainInv /\ SentInv /\ IndexInv /\ WorkersInv
  BY DEF PipelineInv
<1>1. /\ claimed' = [claimed EXCEPT ![w] = taken]
      /\ rows' = [k \in Keys |->
                    IF k \in batch THEN [rows[k] EXCEPT !.attempts = @ + 1]
                    ELSE rows[k]]
      /\ UNCHANGED <<chain, sent, indexed, answer, faults>>
  BY DEF Claim
<1>2. \A k \in batch : /\ rows[k].attempts < MaxAttempts
                       /\ rows[k].attempts \in Nat
                       /\ ~rows[k].abandoned /\ rows[k] \in Row
  BY <1>0, PipelineConstants DEF Claimable, IndexInv, Row
<1>3. ASSUME NEW k \in batch
      PROVE  /\ rows'[k] \in Row
             /\ rows'[k].executed = rows[k].executed
             /\ rows'[k].amount = rows[k].amount
             /\ rows'[k].attempts = rows[k].attempts + 1
             /\ ~rows'[k].abandoned
  <2> DEFINE row == rows[k]
  <2>1. rows'[k] = [row EXCEPT !.attempts = @ + 1]
    BY <1>1
  <2>2. row \in Row /\ row.attempts \in Nat /\ row.attempts < MaxAttempts
        /\ ~row.abandoned
    BY <1>2
  <2> HIDE DEF row
  <2>3. row.attempts + 1 \in 0..MaxAttempts
    BY <2>2, PipelineConstants
  <2>4. [row EXCEPT !.attempts = row.attempts + 1] \in Row
    BY <2>2, <2>3 DEF Row
  <2>5. /\ rows'[k].executed = row.executed /\ rows'[k].amount = row.amount
        /\ rows'[k].attempts = row.attempts + 1
        /\ rows'[k].abandoned = row.abandoned
    BY <2>1, <2>2 DEF Row
  <2> QED
    BY <2>1, <2>2, <2>4, <2>5 DEF row
<1>4. \A k \in Keys : k \notin batch => rows'[k] = rows[k]
  BY <1>1
<1> HIDE DEF batch
<1>5. rows' \in [Keys -> Row]
  BY <1>0, <1>1, <1>3, <1>4 DEF IndexInv
<1>6. \A k \in Keys : /\ rows'[k].executed = rows[k].executed
                      /\ rows[k].executed => rows'[k].amount = rows[k].amount
  BY <1>3, <1>4
<1>7. ChainInv' /\ SentInv' /\ slashedInRound' = slashedInRound
  BY <1>0, <1>1, ChainAside, SentAside DEF chain
<1>8. IndexInv'
  BY <1>0, <1>1, <1>5, <1>6, RowsMove DEF chain
<1>9. \A p \in PendingSlash : Counted(p) => Counted(p)'
  <2> TAKE p \in PendingSlash
  <2>1. p.attempts \in Nat /\ p.key \in Keys
    BY DEF PendingSlash
  <2>2. CASE p.key \in batch
    BY <1>2, <1>3, <2>1, <2>2 DEF Counted
  <2>3. CASE p.key \notin batch
    BY <1>4, <2>1, <2>3 DEF Counted
  <2> QED
    BY <2>2, <2>3
<1>10. ASSUME NEW p \in taken
       PROVE  p \in PendingSlash /\ Counted(p)'
  <2>1. PICK k \in batch : p = Pending(k)
    OBVIOUS
  <2>2. k \in Keys
    BY DEF batch
  <2>3. /\ rows[k].attempts \in Nat /\ rows[k].attempts < MaxAttempts
        /\ rows[k].amount \in Nat
    BY <1>2 DEF Row
  <2>4. rows[k].attempts \in 0..MaxAttempts - 1
    BY <2>3, PipelineConstants
  <2>5. p.key = k /\ p.attempts = rows[k].attempts
    BY <2>1 DEF Pending
  <2>6. p \in PendingSlash
    BY <2>1, <2>2, <2>3, <2>4 DEF Pending, PendingSlash
  <2>7. rows'[k].attempts >= rows[k].attempts + 1
    BY <1>3, <2>3
  <2> QED
    BY <2>5, <2>6, <2>7 DEF Counted
<1> HIDE DEF taken
<1>11. claimed' \in [Workers -> SUBSET PendingSlash]
  <2>1. taken \in SUBSET PendingSlash
    BY <1>10
  <2> QED
    BY <1>0, <1>1, <2>1 DEF WorkersInv
<1>12. ASSUME NEW x \in Workers, NEW p \in PendingSlash, p \in claimed'[x]
       PROVE  Counted(p)'
  <2>1. CASE x = w
    BY <1>0, <1>1, <1>10, <1>12, <2>1 DEF WorkersInv
  <2>2. CASE x # w
    BY <1>0, <1>1, <1>9, <1>12, <2>2 DEF WorkersInv
  <2> QED
    BY <2>1, <2>2
<1>13. AbandonedForCause'
  <2> SUFFICES ASSUME NEW k \in Keys, rows'[k].abandoned
               PROVE  rows'[k].attempts = MaxAttempts \/ k \in slashedInRound
    BY <1>7 DEF AbandonedForCause
  <2> QED
    BY <1>0, <1>3, <1>4 DEF WorkersInv, AbandonedForCause
<1>14. \A x \in Workers : answer[x] # NoAnswer =>
         answer[x].pending \in PendingSlash
  BY <1>0 DEF WorkersInv, Given
<1>15. WorkersInv'
  BY <1>0, <1>1, <1>7, <1>9, <1>11, <1>12, <1>13, <1>14 DEF WorkersInv
<1> QED
  BY <1>7, <1>8, <1>15 DEF PipelineInv

(* Putting an answer down, or clearing it, moves no row. *)
LEMMA AnswerGiven ==
  ASSUME WorkersInv, NEW w \in Workers, NEW p \in claimed[w],
         NEW result \in {"sent", "waiting", "error", "already slashed"},
         Answer(w, p, result), UNCHANGED <<rows, slashedInRound>>,
         result = "already slashed" => p.key \in slashedInRound,
         faults' \in 0..MaxFaults
  PROVE  WorkersInv' /\ p \in PendingSlash
<1> DEFINE given == [result |-> result, pending |-> p]
<1>1. /\ claimed' = [claimed EXCEPT ![w] = @ \ {p}]
      /\ answer' = [answer EXCEPT ![w] = given]
  BY DEF Answer
<1>2. p \in PendingSlash /\ Counted(p)
  BY DEF WorkersInv
<1>3. given \in Given /\ given.pending = p /\ given.result = result
  BY <1>2 DEF Given
<1> HIDE DEF given
<1>4. /\ claimed' \in [Workers -> SUBSET PendingSlash]
      /\ \A x \in Workers : claimed'[x] \subseteq claimed[x]
  BY <1>1 DEF WorkersInv
<1>5. /\ answer' \in [Workers -> Given \cup {NoAnswer}]
      /\ \A x \in Workers : answer'[x] = IF x = w THEN given ELSE answer[x]
  BY <1>1, <1>3 DEF WorkersInv
<1>6. \A q \in PendingSlash : Counted(q)' <=> Counted(q)
  BY DEF Counted
<1>7. AbandonedForCause'
  BY DEF WorkersInv, AbandonedForCause
<1>8. ASSUME NEW x \in Workers, answer'[x] # NoAnswer
      PROVE  /\ Counted(answer'[x].pending)
             /\ answer'[x].result = "already slashed" =>
                  answer'[x].pending.key \in slashedInRound
  BY <1>2, <1>3, <1>5, <1>8 DEF WorkersInv
<1>9. \A x \in Workers : answer'[x] # NoAnswer =>
        /\ Counted(answer[x].pending)'
        /\ answer'[x].result = "already slashed" =>
             answer'[x].pending.key \in slashedInRound'
  BY <1>8 DEF Counted
<1>10. \A x \in Workers, q \in PendingSlash : q \in claimed'[x] => Counted(q)'
  BY <1>4, <1>6 DEF WorkersInv
<1> QED
  BY <1>2, <1>4, <1>5, <1>7, <1>9, <1>10 DEF WorkersInv

LEMMA Queued ==
  ASSUME SentInv, NEW w \in Workers, NEW p \in PendingSlash,
         \/ mempool' = mempool
         \/ mempool' = mempool \cup {Transaction(w, p)},
         UNCHANGED reverted
  PROVE  SentInv'
<1>1. Transaction(w, p) \in [key : Keys, amount : Nat, id : TxIds]
  BY DEF Transaction, TxOf, TxIds, PendingSlash
<1> QED
  BY <1>1 DEF SentInv

LEMMA SubmitKeeps ==
  ASSUME PipelineInv, NEW w \in Workers, NEW p \in claimed[w],
         Submit(w, p) \/ SubmitFails(w, p)
  PROVE  PipelineInv'
<1>0. ChainInv /\ SentInv /\ IndexInv /\ WorkersInv
  BY DEF PipelineInv
<1>1. /\ UNCHANGED <<chain, reverted, rows, indexed>>
      /\ \/ mempool' = mempool
         \/ mempool' = mempool \cup {Transaction(w, p)}
  BY DEF Submit, SubmitFails
<1>2. faults' \in 0..MaxFaults
  <2>1. CASE Submit(w, p)
    BY <1>0, <2>1 DEF Submit, WorkersInv
  <2>2. CASE SubmitFails(w, p)
    BY <1>0, <2>2, FaultCounted DEF SubmitFails
  <2> QED
    BY <2>1, <2>2
<1>3. PICK result \in {"sent", "waiting", "error", "already slashed"} :
        /\ Answer(w, p, result)
        /\ result = "already slashed" => p.key \in slashedInRound
  BY DEF Submit, SubmitFails, Sent, Refused
<1>4. ChainInv' /\ slashedInRound' = slashedInRound
  BY <1>0, <1>1, ChainAside DEF chain
<1>5. WorkersInv' /\ p \in PendingSlash
  BY <1>0, <1>1, <1>2, <1>3, <1>4, AnswerGiven
<1>6. SentInv'
  BY <1>0, <1>1, <1>5, Queued
<1>7. IndexInv'
  BY <1>0, <1>1, IndexAside
<1> QED
  BY <1>4, <1>5, <1>6, <1>7 DEF PipelineInv

LEMMA LearnKeeps ==
  ASSUME PipelineInv, NEW w \in Workers, SeeStatus(w) \/ WaitFails(w)
  PROVE  PipelineInv'
<1>0. ChainInv /\ SentInv /\ IndexInv /\ WorkersInv
  BY DEF PipelineInv
<1>1. PICK result \in {"sent", "error"} : Learn(w, result)
  BY DEF SeeStatus, WaitFails
<1>2. /\ answer' = [answer EXCEPT ![w].result = result]
      /\ answer[w].result = "waiting"
      /\ UNCHANGED <<chain, sent, rows, indexed, claimed>>
  BY <1>1 DEF Learn, Waiting
<1>3. faults' \in 0..MaxFaults
  <2>1. CASE SeeStatus(w)
    BY <1>0, <2>1 DEF SeeStatus, WorkersInv
  <2>2. CASE WaitFails(w)
    BY <1>0, <2>2, FaultCounted DEF WaitFails
  <2> QED
    BY <2>1, <2>2
<1>4. ChainInv' /\ SentInv' /\ slashedInRound' = slashedInRound
  BY <1>0, <1>2, ChainAside, SentAside DEF chain
<1>5. IndexInv'
  BY <1>0, <1>2, IndexAside
<1>6. answer[w] \in Given /\ answer[w] # NoAnswer
  <2>1. answer[w] \in Given \cup {NoAnswer}
    BY <1>0 DEF WorkersInv
  <2>2. NoAnswer.result = "none"
    BY DEF NoAnswer
  <2>3. answer[w] # NoAnswer
    BY <1>2, <2>2
  <2> QED
    BY <2>1, <2>3
<1> DEFINE new == [answer[w] EXCEPT !.result = result]
<1>7. new \in Given /\ new.pending = answer[w].pending /\ new.result = result
  BY <1>6 DEF Given
<1>8. \A x \in Workers : answer'[x] = IF x = w THEN new ELSE answer[x]
  BY <1>0, <1>2 DEF WorkersInv
<1>9. answer' \in [Workers -> Given \cup {NoAnswer}]
  BY <1>0, <1>2, <1>7 DEF WorkersInv
<1> HIDE DEF new
<1>10. \A x \in Workers : answer'[x] # NoAnswer =>
         /\ Counted(answer'[x].pending)
         /\ answer'[x].result = "already slashed" =>
              answer'[x].pending.key \in slashedInRound
  BY <1>0, <1>6, <1>7, <1>8 DEF WorkersInv
<1>11. WorkersInv'
  BY <1>0, <1>2, <1>3, <1>4, <1>9, <1>10
     DEF WorkersInv, Counted, AbandonedForCause
<1> QED
  BY <1>4, <1>5, <1>11 DEF PipelineInv

(* The answer is gone: nothing of it is left to hold. *)
LEMMA AnswerCleared ==
  ASSUME WorkersInv, NEW w \in Workers,
         answer' = [answer EXCEPT ![w] = NoAnswer],
         \/ claimed' = claimed
         \/ claimed' = [claimed EXCEPT ![w] = {}],
         slashedInRound' = slashedInRound,
         \A p \in PendingSlash : Counted(p) => Counted(p)',
         AbandonedForCause', faults' \in 0..MaxFaults
  PROVE  WorkersInv'
<1>1. /\ claimed' \in [Workers -> SUBSET PendingSlash]
      /\ \A x \in Workers : claimed'[x] \subseteq claimed[x]
  BY DEF WorkersInv
<1>2. /\ answer' \in [Workers -> Given \cup {NoAnswer}]
      /\ \A x \in Workers : answer'[x] # NoAnswer =>
           answer'[x] = answer[x] /\ answer[x] # NoAnswer
  BY DEF WorkersInv
<1>3. \A x \in Workers : answer[x] # NoAnswer =>
        answer[x].pending \in PendingSlash
  BY DEF WorkersInv, Given
<1>4. \A x \in Workers, p \in PendingSlash : p \in claimed'[x] => Counted(p)'
  BY <1>1 DEF WorkersInv
<1>5. \A x \in Workers : answer'[x] # NoAnswer =>
         /\ Counted(answer[x].pending)'
         /\ answer'[x].result = "already slashed" =>
              answer'[x].pending.key \in slashedInRound'
  <2> SUFFICES ASSUME NEW x \in Workers, answer'[x] # NoAnswer
               PROVE  /\ Counted(answer[x].pending)'
                      /\ answer'[x].result = "already slashed" =>
                           answer'[x].pending.key \in slashedInRound'
    OBVIOUS
  <2> DEFINE p == answer[x].pending
             q == answer'[x].pending
  <2>1. p \in PendingSlash /\ Counted(p) /\ q = p
    BY <1>2, <1>3 DEF WorkersInv
  <2>2. \A y \in PendingSlash :
          rows[y.key].attempts >= y.attempts + 1 =>
            rows'[y.key].attempts >= y.attempts + 1
    BY DEF Counted
  <2>3. rows'[q.key].attempts >= q.attempts + 1
    <3> HIDE DEF q, p
    <3> QED
      BY <2>1, <2>2 DEF Counted
  <2> QED
    BY <1>2, <2>3 DEF WorkersInv, Counted
<1> QED
  BY <1>1, <1>2, <1>4, <1>5 DEF WorkersInv

LEMMA PendingFields ==
  ASSUME NEW p \in PendingSlash
  PROVE  p.key \in Keys /\ p.attempts \in Nat /\ p.amount \in Nat
BY DEF PendingSlash

LEMMA MarkKeeps ==
  ASSUME PipelineInv, NEW w \in Workers, Mark(w)
  PROVE  PipelineInv'
<1> DEFINE p == answer[w].pending
           result == answer[w].result
           k == p.key
           m == Marked(rows[k], result, p.attempts, TxOf(w, p))
<1>0. ChainInv /\ SentInv /\ IndexInv /\ WorkersInv
  BY DEF PipelineInv
<1>1. /\ answer[w] # NoAnswer /\ result # "waiting"
      /\ rows' = [rows EXCEPT ![k] = m]
      /\ answer' = [answer EXCEPT ![w] = NoAnswer]
      /\ UNCHANGED <<chain, sent, indexed, claimed, faults>>
  BY DEF Mark, Waiting
<1>2. /\ p \in PendingSlash /\ result \in {"sent", "already slashed", "error"}
      /\ Counted(p)
      /\ result = "already slashed" => k \in slashedInRound
  <2>1. answer[w] \in Given
    BY <1>0, <1>1 DEF WorkersInv
  <2> QED
    BY <1>0, <1>1, <2>1 DEF Given, WorkersInv
<1> HIDE DEF p, result
<1>3. k \in Keys /\ p.attempts \in Nat /\ rows[k] \in Row
  <2>1. k \in Keys /\ p.attempts \in Nat
    BY <1>2, PendingFields
  <2> HIDE DEF k
  <2> QED
    BY <1>0, <2>1 DEF IndexInv
<1>4. /\ m \in Row
      /\ m.executed = rows[k].executed /\ m.amount = rows[k].amount
      /\ m.attempts = rows[k].attempts
      /\ m.abandoned => \/ rows[k].abandoned
                        \/ result = "already slashed"
                        \/ /\ result = "error"
                           /\ p.attempts + 1 >= MaxAttempts
  <2> DEFINE row == rows[k]
  <2>1. row \in Row /\ p \in PendingSlash
        /\ result \in Final
    BY <1>2, <1>3 DEF Final
  <2> HIDE DEF row, k
  <2>2. LET new == Marked(row, result, p.attempts, TxOf(w, p))
        IN  /\ new \in Row
            /\ new.executed = row.executed /\ new.amount = row.amount
            /\ new.attempts = row.attempts
            /\ new.abandoned => \/ row.abandoned
                                \/ result = "already slashed"
                                \/ /\ result = "error"
                                   /\ p.attempts + 1 >= MaxAttempts
    BY <2>1, MarkedRow, Zenon
  <2> QED
    BY <2>2, Zenon DEF row
<1>5. rows[k].attempts >= p.attempts + 1
  BY <1>2 DEF Counted
<1> HIDE DEF k, m
<1>6. /\ rows' \in [Keys -> Row]
      /\ \A x \in Keys : rows'[x] = IF x = k THEN m ELSE rows[x]
  BY <1>0, <1>1, <1>3, <1>4 DEF IndexInv
<1>7. \A x \in Keys : /\ rows'[x].executed = rows[x].executed
                      /\ rows[x].executed => rows'[x].amount = rows[x].amount
                      /\ rows'[x].attempts = rows[x].attempts
  BY <1>4, <1>6
<1>8. ChainInv' /\ SentInv' /\ slashedInRound' = slashedInRound
  BY <1>0, <1>1, ChainAside, SentAside DEF chain
<1>9. IndexInv'
  BY <1>0, <1>1, <1>6, <1>7, RowsMove DEF chain
<1>10. \A q \in PendingSlash : Counted(q) => Counted(q)'
  BY <1>7 DEF Counted, PendingSlash
<1>11. AbandonedForCause'
  <2> SUFFICES ASSUME NEW x \in Keys, rows'[x].abandoned
               PROVE  rows'[x].attempts = MaxAttempts \/ x \in slashedInRound
    BY <1>8 DEF AbandonedForCause
  <2>1. rows[x].abandoned =>
          rows[x].attempts = MaxAttempts \/ x \in slashedInRound
    BY <1>0 DEF WorkersInv, AbandonedForCause
  <2>2. CASE x # k
    BY <1>6, <2>1, <2>2
  <2>3. CASE x = k
    <3>1. CASE result = "error" /\ p.attempts + 1 >= MaxAttempts
      <4>1. rows[k].attempts \in Nat /\ rows[k].attempts <= MaxAttempts
        BY <1>3, PipelineConstants DEF Row
      <4>2. MaxAttempts \in Nat
        BY PipelineConstants
      <4>3. rows[k].attempts = MaxAttempts
        BY <1>3, <1>5, <3>1, <4>1, <4>2
      <4> QED
        BY <1>7, <2>3, <4>3
    <3>2. CASE result = "already slashed"
      BY <1>2, <2>3, <3>2 DEF k, result
    <3>3. CASE rows[k].abandoned
      BY <1>7, <2>1, <2>3, <3>3
    <3> QED
      BY <1>4, <1>6, <2>3, <3>1, <3>2, <3>3
  <2> QED
    BY <2>2, <2>3
<1>12. WorkersInv'
  <2>1. faults' \in 0..MaxFaults
    BY <1>0, <1>1 DEF WorkersInv
  <2> QED
    BY <1>0, <1>1, <1>8, <1>10, <1>11, <2>1, AnswerCleared
<1> QED
  BY <1>8, <1>9, <1>12 DEF PipelineInv

LEMMA ForgetKeeps ==
  ASSUME PipelineInv, NEW w \in Workers, MarkFails(w) \/ WorkerCrash(w)
  PROVE  PipelineInv'
<1>0. ChainInv /\ SentInv /\ IndexInv /\ WorkersInv
  BY DEF PipelineInv
<1>1. /\ answer' = [answer EXCEPT ![w] = NoAnswer]
      /\ claimed' = claimed \/ claimed' = [claimed EXCEPT ![w] = {}]
      /\ UNCHANGED <<chain, sent, rows, indexed>>
      /\ faults < MaxFaults /\ faults' = faults + 1
  BY DEF MarkFails, WorkerCrash
<1>2. ChainInv' /\ SentInv' /\ slashedInRound' = slashedInRound
  BY <1>0, <1>1, ChainAside, SentAside DEF chain
<1>3. IndexInv'
  BY <1>0, <1>1, IndexAside
<1>4. \A p \in PendingSlash : Counted(p) => Counted(p)'
  BY <1>1 DEF Counted
<1>5. AbandonedForCause'
  BY <1>0, <1>1, <1>2 DEF WorkersInv, AbandonedForCause
<1>6. WorkersInv'
  BY <1>0, <1>1, <1>2, <1>4, <1>5, FaultCounted, AnswerCleared
<1> QED
  BY <1>2, <1>3, <1>6 DEF PipelineInv

---------------------------------------------------------------------------
(* The indexer's steps. *)

(* What the row of a confirmed slash becomes. *)
Closed(e) ==
  IF Present(e.key) THEN rows[e.key] ELSE NewRow(Manual, e.amount)

LEMMA ClosedTyped ==
  ASSUME IndexInv, NEW k \in Keys, NEW a \in Nat, NEW tx \in AllTxIds,
         NEW e \in Event, e.key = k, e.amount = a, e.tx = tx
  PROVE  /\ Closed(e) \in Row
         /\ Closed(e).attempts = rows[k].attempts
         /\ Closed(e).executed = rows[k].executed
         /\ Closed(e).abandoned = rows[k].abandoned
         /\ rows[k].executed => Closed(e) = rows[k]
<1>1. rows[k] \in Row
  BY DEF IndexInv
<1>2. CASE Present(k)
  <2>1. Closed(e) = rows[k]
    BY <1>2 DEF Closed
  <2> QED
    BY <1>1, <2>1
<1>3. CASE ~Present(k)
  <2> DEFINE new == NewRow(Manual, a)
  <2>1. rows[k] = NoRow /\ Closed(e) = new
    BY <1>3 DEF Closed, Present
  <2>2. new \in Row /\ new.attempts = 0 /\ ~new.executed /\ ~new.abandoned
    BY NewRowTyped
  <2>3. /\ new.executed \in BOOLEAN /\ new.abandoned \in BOOLEAN
        /\ NoRow.executed \in BOOLEAN /\ NoRow.abandoned \in BOOLEAN
    BY <2>2, NoRowTyped, RowFields
  <2> HIDE DEF new
  <2> QED
    BY <2>1, <2>2, <2>3, NoRowTyped
<1> QED
  BY <1>2, <1>3

LEMMA ReconciledRows ==
  ASSUME IndexInv, NEW k \in Keys, NEW a \in Nat, NEW tx \in AllTxIds,
         NEW e \in Event, e.key = k, e.amount = a, e.tx = tx,
         rows' = Reconciled(e)
  PROVE  /\ rows' \in [Keys -> Row]
         /\ \A x \in Keys : /\ rows'[x].attempts = rows[x].attempts
                            /\ rows'[x].abandoned = rows[x].abandoned
                            /\ x # k => rows'[x] = rows[x]
         /\ rows'[k].executed
         /\ IF rows[k].executed THEN rows' = rows ELSE rows'[k].amount = a
<1> DEFINE row == Closed(e)
           new == [row EXCEPT !.executed = TRUE, !.tx = tx, !.amount = a]
<1>1. /\ row \in Row
      /\ row.attempts = rows[k].attempts
      /\ row.executed = rows[k].executed
      /\ row.abandoned = rows[k].abandoned
      /\ rows[k].executed => row = rows[k]
  BY ClosedTyped
<1>2. rows' = IF row.executed THEN rows ELSE [rows EXCEPT ![k] = new]
  BY DEF Reconciled, Closed
<1> HIDE DEF row
<1>3. new \in Row
  BY <1>1 DEF Row, AllTxIds, TxIds
<1>4. /\ new.executed = TRUE /\ new.amount = a
      /\ new.attempts = row.attempts /\ new.abandoned = row.abandoned
  BY <1>1 DEF Row
<1> HIDE DEF new
<1>5. CASE rows[k].executed
  <2>1. rows' = rows
    BY <1>1, <1>2, <1>5
  <2> QED
    BY <1>5, <2>1 DEF IndexInv
<1>6. CASE ~rows[k].executed
  <2>1. rows' = [rows EXCEPT ![k] = new]
    BY <1>1, <1>2, <1>6
  <2>2. /\ rows' \in [Keys -> Row]
        /\ rows'[k] = new
        /\ \A x \in Keys : x # k => rows'[x] = rows[x]
    BY <1>3, <2>1 DEF IndexInv
  <2> QED
    BY <1>1, <1>4, <1>6, <2>2
<1> QED
  BY <1>5, <1>6

(* The row of the event that was handled records it. *)
LEMMA AuditExtended ==
  ASSUME ChainInv, IndexInv, NEW z \in Slashes, z = lastBlock + done + 1,
         rows' = Reconciled(log[z]), lastBlock' + done' = lastBlock + done + 1,
         log' = log
  PROVE  Audit'
<1> DEFINE e == log[z]
           k == e.key
<1>1. /\ e \in Event /\ k \in Keys /\ e.amount \in Nat /\ e.tx \in AllTxIds
      /\ z \in Nat
  BY SlashesTyped DEF Event
<1>2. /\ \A x \in Keys : x # k => rows'[x] = rows[x]
      /\ rows'[k].executed
      /\ IF rows[k].executed THEN rows' = rows ELSE rows'[k].amount = e.amount
  BY <1>1, ReconciledRows
<1> HIDE DEF e, k
<1>3. Slashes' = Slashes
  BY DEF Slashes
<1>4. lastBlock \in Nat /\ done \in Nat
  BY DEF IndexInv
<1>5. ASSUME NEW i \in Slashes, i <= lastBlock' + done'
      PROVE  rows'[log[i].key].executed
  <2>1. i \in Nat /\ log[i].key \in Keys
    BY SlashesTyped
  <2>2. CASE i = z
    BY <1>2, <2>2 DEF k, e
  <2>3. CASE i # z
    <3>1. i <= lastBlock + done
      BY <1>4, <1>5, <2>1, <2>3
    <3>2. rows[log[i].key].executed
      BY <3>1 DEF IndexInv, Audit
    <3> QED
      BY <1>2, <2>1, <3>2
  <2> QED
    BY <2>2, <2>3
<1>6. ASSUME NEW x \in Keys, rows'[x].executed
      PROVE  \E i \in Slashes : log[i].key = x /\ log[i].amount = rows'[x].amount
  <2>1. CASE rows'[x] = rows[x]
    BY <1>6, <2>1 DEF IndexInv, Audit
  <2>2. CASE rows'[x] # rows[x]
    <3>1. x = k /\ rows'[k].amount = e.amount
      BY <1>2, <2>2
    <3> QED
      BY <3>1 DEF k, e
  <2> QED
    BY <2>1, <2>2
<1> QED
  BY <1>3, <1>5, <1>6 DEF Audit

LEMMA IndexEventKeeps ==
  ASSUME PipelineInv, IndexEvent
  PROVE  PipelineInv'
<1> DEFINE z == lastBlock + done + 1
           e == log[z]
           n == NodeOf(e)
<1>0. ChainInv /\ SentInv /\ IndexInv /\ WorkersInv
  BY DEF PipelineInv
<1>1. /\ lastBlock + done < Len(log)
      /\ done' = done + 1
      /\ dbStake' = [dbStake EXCEPT ![n] = e.stake]
      /\ \/ /\ e.kind = "slashed"
            /\ rows' = Reconciled(e)
            /\ dbSlashedTotal' = [dbSlashedTotal EXCEPT ![n] = @ + e.amount]
         \/ /\ e.kind = "stake"
            /\ UNCHANGED <<rows, dbSlashedTotal>>
      /\ UNCHANGED <<chain, sent, lastBlock, executor, faults>>
  BY DEF IndexEvent, StakeAfter
<1>2. ChainInv' /\ SentInv' /\ slashedInRound' = slashedInRound /\ log' = log
  BY <1>0, <1>1, ChainAside, SentAside DEF chain
<1>3. z \in 1..Len(log) /\ lastBlock \in Nat /\ done \in Nat /\ Len(log) \in Nat
  BY <1>0, <1>1 DEF IndexInv, ChainInv
<1>4. e \in Event
  BY <1>0, <1>3 DEF ChainInv
<1>5. lastBlock' = lastBlock /\ done' \in Nat
      /\ lastBlock' + done' = z /\ lastBlock' + done' <= Len(log')
  BY <1>1, <1>2, <1>3
<1>6. n \in Nodes /\ e.stake \in Nat
  BY <1>4 DEF Event, NodeOf, Keys
<1>7. dbStake' \in [Nodes -> Nat]
  BY <1>0, <1>1, <1>6 DEF IndexInv
<1>8. CASE e.kind = "slashed"
  <2>1. z \in Slashes
    BY <1>3, <1>8 DEF Slashes
  <2>2. /\ e.key \in Keys /\ e.amount \in Nat /\ e.tx \in AllTxIds
    BY <1>0, <2>1, SlashesTyped
  <2>3. rows' = Reconciled(e)
    BY <1>1, <1>8
  <2>4. Audit'
    BY <1>0, <1>2, <1>5, <2>1, <2>3, AuditExtended
  <2>5. /\ rows' \in [Keys -> Row]
        /\ \A x \in Keys : /\ rows'[x].attempts = rows[x].attempts
                           /\ rows'[x].abandoned = rows[x].abandoned
    BY <1>0, <1>4, <2>2, <2>3, ReconciledRows
  <2>6. dbSlashedTotal' \in [Nodes -> Nat]
    <3>1. dbSlashedTotal' = [dbSlashedTotal EXCEPT ![n] = @ + e.amount]
      BY <1>1, <1>8
    <3> HIDE DEF n, e
    <3> QED
      BY <1>0, <1>6, <2>2, <3>1 DEF IndexInv
  <2>7. IndexInv'
    BY <1>0, <1>3, <1>5, <1>7, <2>4, <2>5, <2>6 DEF IndexInv
  <2>8. WorkersInv'
    <3>1. UNCHANGED <<claimed, answer, faults>>
      BY <1>1 DEF executor
    <3>2. \A p \in PendingSlash : Counted(p) => Counted(p)'
      BY <2>5 DEF Counted, PendingSlash
    <3>3. \A x \in Workers : answer[x] # NoAnswer =>
            answer[x].pending \in PendingSlash
      BY <1>0 DEF WorkersInv, Given
    <3>4. AbandonedForCause'
      BY <1>0, <1>2, <2>5 DEF WorkersInv, AbandonedForCause
    <3>5. \A x \in Workers : answer[x] # NoAnswer =>
            Counted(answer[x].pending)'
      BY <1>0, <2>5, <3>1, <3>3, PendingFields DEF WorkersInv, Counted
    <3> QED
      BY <1>0, <1>2, <3>1, <3>2, <3>4, <3>5 DEF WorkersInv
  <2> QED
    BY <1>2, <2>7, <2>8 DEF PipelineInv
<1>9. CASE e.kind = "stake"
  <2>1. UNCHANGED <<rows, dbSlashedTotal>>
    BY <1>1, <1>9
  <2>2. z \notin Slashes
    BY <1>9 DEF Slashes
  <2>3. Slashes' = Slashes
    BY <1>2 DEF Slashes
  <2>4. \A i \in Slashes : i <= z => i <= lastBlock + done
    <3> TAKE i \in Slashes
    <3>1. i \in Nat /\ i # z
      BY <1>0, <2>2, SlashesTyped
    <3> QED
      BY <1>3, <3>1
  <2> HIDE DEF z
  <2>5. Audit'
    BY <1>0, <1>2, <1>5, <2>1, <2>3, <2>4 DEF IndexInv, Audit
  <2>6. IndexInv'
    BY <1>0, <1>3, <1>5, <1>7, <2>1, <2>5 DEF IndexInv
  <2>7. WorkersInv'
    BY <1>0, <1>1, <1>2, <2>1, WorkersAside DEF WorkersInv
  <2> QED
    BY <1>2, <2>6, <2>7 DEF PipelineInv
<1> QED
  BY <1>1, <1>8, <1>9

(* The batch is committed, or handled again from its start. *)
LEMMA BatchEndsKeeps ==
  ASSUME PipelineInv, IndexFails \/ CommitCursor \/ IndexerCrash
  PROVE  PipelineInv'
<1>0. ChainInv /\ SentInv /\ IndexInv /\ WorkersInv
  BY DEF PipelineInv
<1>1. /\ done' = 0
      /\ lastBlock' = lastBlock \/ lastBlock' = lastBlock + done
      /\ UNCHANGED <<chain, sent, rows, dbStake, dbSlashedTotal, executor>>
  BY DEF IndexFails, CommitCursor, IndexerCrash
<1>2. faults' \in 0..MaxFaults
  <2>1. CASE IndexerCrash
    BY <1>0, <2>1, FaultCounted DEF IndexerCrash
  <2>2. CASE ~IndexerCrash
    BY <1>0, <2>2 DEF IndexFails, CommitCursor, WorkersInv
  <2> QED
    BY <2>1, <2>2
<1>3. ChainInv' /\ SentInv' /\ slashedInRound' = slashedInRound /\ log' = log
  BY <1>0, <1>1, ChainAside, SentAside DEF chain
<1>4. lastBlock \in Nat /\ done \in Nat /\ lastBlock + done <= Len(log)
      /\ Len(log) \in Nat
  BY <1>0 DEF IndexInv, ChainInv
<1>5. /\ lastBlock' \in Nat /\ done' \in Nat
      /\ lastBlock' + done' <= lastBlock + done
  BY <1>1, <1>4
<1>6. lastBlock' + done' <= Len(log') /\ lastBlock' + done' \in Nat
  <2>1. \A a, b, c, d, l \in Nat :
          a + b <= c + d /\ c + d <= l => a + b <= l /\ a + b \in Nat
    OBVIOUS
  <2>2. lastBlock' + done' <= Len(log) /\ lastBlock' + done' \in Nat
    BY ONLY <1>4, <1>5, <2>1
  <2> QED
    BY <1>3, <2>2, Zenon
<1>7. Slashes' = Slashes /\ \A i \in Slashes : i \in Nat
  BY <1>0, <1>3, SlashesTyped DEF Slashes
<1>8. \A i \in Slashes : i <= lastBlock' + done' => i <= lastBlock + done
  <2>1. \A i, a, b \in Nat : i <= a /\ a <= b => i <= b
    OBVIOUS
  <2>2. lastBlock' + done' \in Nat /\ lastBlock + done \in Nat
    BY <1>4, <1>6
  <2> QED
    BY ONLY <1>5, <1>7, <2>1, <2>2
<1>9. Audit'
  BY <1>0, <1>1, <1>3, <1>7, <1>8 DEF IndexInv, Audit
<1>10. IndexInv'
  BY <1>0, <1>1, <1>5, <1>6, <1>9 DEF IndexInv
<1>11. WorkersInv'
  BY <1>0, <1>1, <1>2, <1>3, WorkersAside
<1> QED
  BY <1>3, <1>10, <1>11 DEF PipelineInv

---------------------------------------------------------------------------
(* The invariant. *)

LEMMA PipelineStarts ==
  ASSUME Init
  PROVE  PipelineInv
<1>1. /\ log = <<>> /\ slashedInRound = {} /\ lastBlock = 0 /\ done = 0
      /\ faults = 0 /\ mempool = {} /\ reverted = {} /\ kind \in Chains
      /\ rows = [k \in Keys |-> NoRow]
      /\ claimed = [w \in Workers |-> {}]
      /\ answer = [w \in Workers |-> NoAnswer]
  BY DEF Init
<1>2. Slashes = {} /\ Len(log) = 0 /\ log \in Seq(Event)
  BY <1>1 DEF Slashes
<1>3. Cardinality(slashedInRound) = 0 /\ IsFiniteSet(slashedInRound)
  BY <1>1, FS_EmptySet
<1>4. stake \in [Nodes -> Nat]
  BY PipelineConstants DEF Init
<1>5. ChainInv
  BY <1>1, <1>2, <1>3, <1>4, PipelineConstants DEF ChainInv, OnePenaltyPerRound
<1>6. SentInv
  BY <1>1 DEF SentInv
<1>7. /\ rows \in [Keys -> Row]
      /\ \A k \in Keys : ~rows[k].executed /\ ~rows[k].abandoned
  BY <1>1, NoRowTyped
<1>8. dbStake \in [Nodes -> Nat] /\ dbSlashedTotal \in [Nodes -> Nat]
  BY PipelineConstants DEF Init
<1>9. IndexInv
  BY <1>1, <1>2, <1>7, <1>8 DEF IndexInv, Audit
<1>10. 0 \in 0..MaxFaults
  BY PipelineConstants
<1>11. WorkersInv
  BY <1>1, <1>7, <1>10 DEF WorkersInv, AbandonedForCause
<1> QED
  BY <1>5, <1>6, <1>9, <1>11 DEF PipelineInv

LEMMA PipelineSteps ==
  ASSUME PipelineInv, [Next]_vars
  PROVE  PipelineInv'
<1>1. ASSUME NEW k \in Keys, NEW reason \in Reasons, Decide(k, reason)
      PROVE  PipelineInv'
  BY <1>1, DecideKeeps
<1>2. ASSUME NEW k \in Keys, NEW a \in ManualAmounts, ManualSlash(k, a)
      PROVE  PipelineInv'
  BY <1>2, ManualSlashKeeps
<1>3. ASSUME NEW n \in Nodes, NEW s \in Restakes, Restake(n, s)
      PROVE  PipelineInv'
  BY <1>3, RestakeKeeps
<1>4. ASSUME NEW tx \in mempool, Mine(tx) \/ DropTransaction(tx)
      PROVE  PipelineInv'
  BY <1>4, MineKeeps, DropKeeps
<1>5. ASSUME NEW w \in Workers, WorkerStep(w) \/ WorkerFault(w)
      PROVE  PipelineInv'
  BY <1>5, ClaimKeeps, SubmitKeeps, LearnKeeps, MarkKeeps, ForgetKeeps
     DEF WorkerStep, WorkerFault
<1>6. CASE IndexEvent
  BY <1>6, IndexEventKeeps
<1>7. CASE IndexFails \/ CommitCursor \/ IndexerCrash
  BY <1>7, BatchEndsKeeps
<1>8. CASE UNCHANGED vars
  <2>1. UNCHANGED <<chain, sent, rows, indexed, executor, faults>>
    BY <1>8 DEF vars
  <2>2. ChainInv /\ SentInv /\ IndexInv /\ WorkersInv
    BY DEF PipelineInv
  <2>3. ChainInv' /\ SentInv' /\ slashedInRound' = slashedInRound
    BY <2>1, <2>2, ChainAside, SentAside DEF chain
  <2>4. IndexInv'
    BY <2>1, <2>2, IndexAside
  <2>5. WorkersInv'
    BY <2>1, <2>2, <2>3, WorkersAside DEF WorkersInv
  <2> QED
    BY <2>3, <2>4, <2>5 DEF PipelineInv
<1> QED
  BY <1>1, <1>2, <1>3, <1>4, <1>5, <1>6, <1>7, <1>8 DEF Next

LEMMA PipelineInvariant == Spec => []PipelineInv
<1>1. Init => PipelineInv
  BY PipelineStarts
<1>2. PipelineInv /\ [Next]_vars => PipelineInv'
  BY PipelineSteps
<1> QED
  BY <1>1, <1>2, PTL DEF Spec

(* Rows, answers, copies and cursors keep their types, an attempt counter  *)
(* stays within its limit, and the indexer is never ahead of the chain     *)
(* (oracle/executor.go, db/oracle_execution.go, indexer/indexer.go).       *)
THEOREM PipelineTypeOK == Spec => []TypeOK
<1>1. ASSUME PipelineInv PROVE TypeOK
  <2>1. /\ lastBlock + done \in 0..Len(log)
    BY <1>1 DEF PipelineInv, ChainInv, IndexInv
  <2>2. \A w \in Workers : answer[w] # NoAnswer =>
          answer[w].pending \in PendingSlash
    BY <1>1 DEF PipelineInv, WorkersInv, Given
  <2> QED
    BY <1>1, <2>1, <2>2
       DEF TypeOK, PipelineInv, ChainInv, SentInv, IndexInv, WorkersInv, TxIds
<1> QED
  BY <1>1, PipelineInvariant, PTL

(* Two executors, lost answers, repeated transactions and slashes by hand  *)
(* take stake from a node once for a round: the guard of slash.            *)
THEOREM OnePenalty == Spec => []OnePenaltyPerRound
<1>1. PipelineInv => OnePenaltyPerRound
  BY DEF PipelineInv, ChainInv
<1> QED
  BY <1>1, PipelineInvariant, PTL

(* RecordOracleSlash: what the indexer has been over, once or again after  *)
(* a crash, is one executed row with the amount the chain took, and no row *)
(* is executed that the chain does not know.                               *)
THEOREM AuditTrail == Spec => []AuditMatchesChain
<1>1. ASSUME PipelineInv PROVE AuditMatchesChain
  <2>0. ChainInv /\ IndexInv
    BY <1>1 DEF PipelineInv
  <2>1. ASSUME NEW i \in Slashes, i <= lastBlock + done
        PROVE  rows[log[i].key].executed /\ rows[log[i].key].amount = log[i].amount
    <3>1. log[i].key \in Keys /\ rows[log[i].key].executed
      BY <2>0, <2>1, SlashesTyped DEF IndexInv, Audit
    <3>2. PICK j \in Slashes : /\ log[j].key = log[i].key
                               /\ log[j].amount = rows[log[i].key].amount
      BY <2>0, <3>1 DEF IndexInv, Audit
    <3>3. j = i
      BY <2>0, <3>2 DEF ChainInv, OnePenaltyPerRound
    <3> QED
      BY <3>1, <3>2, <3>3
  <2>2. \A k \in Keys : rows[k].executed => \E i \in Slashes : log[i].key = k
    BY <2>0 DEF IndexInv, Audit
  <2> QED
    BY <2>1, <2>2 DEF AuditMatchesChain
<1> QED
  BY <1>1, PipelineInvariant, PTL

(* Executor.submit gives a decision up when its attempts are used up or    *)
(* the node has paid for the round, and for nothing else, however late and *)
(* by whichever executor the answer is written down.                       *)
THEOREM GivenUpForCause == Spec => []AbandonedForCause
<1>1. PipelineInv => AbandonedForCause
  BY DEF PipelineInv, WorkersInv
<1> QED
  BY <1>1, PipelineInvariant, PTL

---------------------------------------------------------------------------
(* Part 2: the indexer: types and the cursor.                            *)

(* The chain. *)

IsSeq(s) == \E R : s \in Seq(R)

LEMMA ConcatIsSeq ==
  ASSUME NEW s, IsSeq(s), NEW t, IsSeq(t)
  PROVE  IsSeq(s \o t)
<1>1. PICK R, T : s \in Seq(R) /\ t \in Seq(T)
  BY DEF IsSeq
<1>2. s \in Seq(R \union T) /\ t \in Seq(R \union T)
  BY <1>1, SeqMonotonic
<1> QED
  BY <1>2, ConcatProperties DEF IsSeq

LEMMA PairMax ==
  ASSUME NEW x \in Int, NEW y \in Int
  PROVE  /\ Max({x, y}) \in {x, y} /\ Max({x, y}) >= x /\ Max({x, y}) >= y
<1>1. \E z \in {x, y} : \A v \in {x, y} : z >= v
  BY DEF Max
<1> QED
  BY <1>1 DEF Max

LEMMA PairMin ==
  ASSUME NEW x \in Int, NEW y \in Int
  PROVE  /\ Min({x, y}) \in {x, y} /\ Min({x, y}) <= x /\ Min({x, y}) <= y
<1>1. \E z \in {x, y} : \A v \in {x, y} : z <= v
  OBVIOUS
<1> QED
  BY <1>1 DEF Min

(* A transaction joins the ledger. *)
Joined1 ==
  \E tx : Append1(tx) /\ {"slot", "events"} \subseteq DOMAIN tx /\ IsSeq(tx.events)

LEMMA CallJoins ==
  ASSUME NEW es, IsSeq(es), NEW post, Call(es, post)
  PROVE  Joined1
<1> DEFINE tx == [slot |-> 0, ok |-> TRUE, events |-> es, post |-> post]
<1>1. Append1(tx)
  BY DEF Call
<1>2. {"slot", "events"} \subseteq DOMAIN tx /\ IsSeq(tx.events)
  OBVIOUS
<1> HIDE DEF tx
<1> QED
  BY <1>1, <1>2 DEF Joined1

LEMMA OneIsSeq == ASSUME NEW x PROVE IsSeq(<<x>>)
<1>1. <<x>> \in Seq({x})
  OBVIOUS
<1> QED
  BY <1>1 DEF IsSeq

LEMMA EmptyIsSeq == IsSeq(<<>>)
BY EmptySeq DEF IsSeq

LEMMA TwoIsSeq == ASSUME NEW x, NEW y PROVE IsSeq(<<x, y>>)
<1>1. <<x, y>> \in Seq({x, y})
  OBVIOUS
<1> QED
  BY <1>1 DEF IsSeq

LEMMA StakingCallJoins ==
  ASSUME NEW n, NEW s, NEW es, IsSeq(es), NEW moves, moves \in {"joins", "leaves", "stays"},
         StakingCall(n, s, moves, es)
  PROVE  Joined1
<1>1. IsSeq(Reactivated(s, n) \o es) /\ IsSeq(Deactivated(s, n) \o es)
  BY OneIsSeq, ConcatIsSeq DEF Reactivated, Deactivated
<1>2. CASE moves = "joins"
  <2>1. Call(Reactivated(s, n) \o es, Joined(s, n))
    BY <1>2 DEF StakingCall
  <2> QED
    BY <1>1, <2>1, CallJoins
<1>3. CASE moves = "leaves"
  <2>1. Call(Deactivated(s, n) \o es, Left(s, n))
    BY <1>3 DEF StakingCall
  <2> QED
    BY <1>1, <2>1, CallJoins
<1>4. CASE moves = "stays"
  <2>1. Call(es, s)
    BY <1>4 DEF StakingCall
  <2> QED
    BY <2>1, CallJoins
<1> QED
  BY <1>2, <1>3, <1>4

---------------------------------------------------------------------------
(* The chain as the inductive invariant describes it.  Depth is what makes *)
(* the bound on empty blocks survive a reorganisation: it held of every    *)
(* block when that block was the newest.                                   *)
Depth ==
  \A b \in 0..head : \A n \in 0..Len(ledger) :
    (\A i \in 1..Len(ledger) : ledger[i].slot <= b <=> i <= n) => b <= n + MaxEmpty

ChainTyped ==
  /\ contract \in Kinds
  /\ start \in {0, 1} /\ start <= final
  /\ head \in 0..(Len(ledger) + MaxEmpty)
  /\ final \in 0..head /\ head - Confirms <= final
  /\ Readable(ledger)
  /\ \A i \in 1..Len(ledger) : ledger[i].slot \in 1..head
  /\ Depth

LEMMA MirrorConstants ==
  /\ MaxEmpty \in Nat /\ Confirms \in Nat /\ BatchSize \in Nat \ {0}
  /\ MaxFailures \in [Kinds -> Nat]
BY ContractsAssumption, MirrorAssumption

LEMMA JoinedTyped ==
  ASSUME ChainTyped, Joined1
  PROVE  ChainTyped' /\ final' >= final
<1> USE MirrorConstants
<1>1. PICK tx : Append1(tx) /\ {"slot", "events"} \subseteq DOMAIN tx /\ IsSeq(tx.events)
  BY DEF Joined1
<1>2. PICK slot \in {head, head + 1} :
        /\ slot > final
        /\ ledger' = Append(ledger, [tx EXCEPT !.slot = slot])
        /\ head' = slot
        /\ final' = Max({final, slot - Confirms})
  BY <1>1 DEF Append1
<1>3. contract' = contract /\ start' = start
  BY <1>1 DEF Append1
<1> DEFINE N == Len(ledger)
           e == [tx EXCEPT !.slot = slot]
<1>4. PICK R : ledger \in Seq(R)
  BY DEF ChainTyped, Readable
<1>5. head \in Nat /\ final \in Nat /\ final <= head /\ N \in Nat /\ head <= N + MaxEmpty
  BY <1>4 DEF ChainTyped
<1>6. slot \in Nat /\ slot >= head /\ slot <= head + 1 /\ slot > 0
  BY <1>2, <1>5
<1>7. e.slot = slot /\ e.events = tx.events
  BY <1>1
<1> HIDE DEF e
<1>8. /\ ledger' \in Seq(R \union {e}) /\ Len(ledger') = N + 1
      /\ \A i \in 1..N : ledger'[i] = ledger[i]
      /\ ledger'[N + 1] = e
  <2>1. ledger \in Seq(R \union {e})
    BY <1>4, SeqMonotonic
  <2> QED
    BY <1>2, <2>1, AppendProperties DEF e
<1>9. \A i \in 1..(N + 1) : i \in 1..N \/ i = N + 1
  BY <1>5
<1>10. \A i \in 1..N : ledger[i].slot \in 1..head /\ IsSeq(ledger[i].events)
  BY DEF ChainTyped, Readable, IsSeq
<1>11. final' \in Nat /\ final' >= final /\ final' <= slot /\ final' >= slot - Confirms
  <2> DEFINE x == slot - Confirms
  <2>1. x \in Int /\ x <= slot /\ final \in Int
    BY <1>5, <1>6
  <2>2. final' = Max({final, x})
    BY <1>2
  <2> HIDE DEF x
  <2>3. final' \in {final, x} /\ final' >= final /\ final' >= x
    BY <2>1, <2>2, PairMax
  <2> QED
    BY <1>2, <1>5, <1>6, <2>1, <2>3 DEF x
<1> HIDE DEF N
<1>12. \A i \in 1..(N + 1) : ledger'[i].slot \in 1..slot /\ IsSeq(ledger'[i].events)
  <2>1. \A i \in 1..N : ledger'[i].slot \in 1..slot /\ IsSeq(ledger'[i].events)
    <3>1. \A x \in 1..head : x \in 1..slot
      BY <1>5, <1>6
    <3> QED
      BY <1>8, <1>10, <3>1
  <2>2. ledger'[N + 1].slot \in 1..slot /\ IsSeq(ledger'[N + 1].events)
    BY <1>1, <1>6, <1>7, <1>8
  <2> QED
    BY <1>9, <2>1, <2>2
<1>13. ASSUME NEW i \in 1..(N + 1), NEW j \in 1..(N + 1), i < j
       PROVE  ledger'[i].slot <= ledger'[j].slot
  <2>1. i \in 1..N
    BY <1>5, <1>13
  <2>2. CASE j \in 1..N
    BY <1>8, <1>13, <2>1, <2>2 DEF ChainTyped, Readable, N
  <2>3. CASE j = N + 1
    <3>1. ledger'[j].slot = slot /\ ledger'[i].slot \in 1..slot
      BY <1>7, <1>8, <1>12, <2>3
    <3> QED
      BY <1>6, <3>1
  <2> QED
    BY <1>9, <2>2, <2>3
<1>14. Readable(ledger')
  <2>1. \A i \in 1..(N + 1) : ledger'[i].slot \in Nat /\ \E T : ledger'[i].events \in Seq(T)
    BY <1>6, <1>12 DEF IsSeq
  <2> QED
    BY <1>8, <1>13, <2>1 DEF Readable
<1>15. head' \in 0..(Len(ledger') + MaxEmpty)
  BY <1>2, <1>5, <1>6, <1>8
<1>16. ASSUME NEW b \in 0..slot, NEW n \in 0..(N + 1),
              \A i \in 1..(N + 1) : ledger'[i].slot <= b <=> i <= n
       PROVE  b <= n + MaxEmpty
  <2>1. N + 1 \in 1..(N + 1) /\ ledger'[N + 1].slot = slot
    BY <1>5, <1>7, <1>8
  <2>2. CASE b = slot
    <3>1. N + 1 <= n
      BY <1>6, <1>16, <2>1, <2>2
    <3> QED
      BY <1>5, <1>6, <2>2, <3>1
  <2>3. CASE b # slot
    <3>1. ~ (slot <= b)
      BY <1>6, <2>3
    <3>2. n \in 0..N /\ b \in 0..head
      <4>1. ~ (N + 1 <= n)
        BY <1>16, <2>1, <3>1
      <4> QED
        BY <1>5, <1>6, <2>3, <4>1
    <3>3. \A i \in 1..N : ledger[i].slot <= b <=> i <= n
      <4>1. \A i \in 1..N : i \in 1..(N + 1)
        BY <1>5
      <4> QED
        BY <1>8, <1>16, <4>1
    <3> QED
      BY <3>2, <3>3 DEF ChainTyped, Depth, N
  <2> QED
    BY <2>2, <2>3
<1>17. Depth'
  BY <1>2, <1>8, <1>16 DEF Depth
<1>18. start <= final'
  BY <1>5, <1>11 DEF ChainTyped
<1> QED
  BY <1>2, <1>3, <1>6, <1>8, <1>11, <1>12, <1>14, <1>15, <1>17, <1>18 DEF ChainTyped

LEMMA EmptyBlockTyped ==
  ASSUME ChainTyped, EmptyBlock
  PROVE  ChainTyped' /\ final' >= final
<1> USE MirrorConstants
<1>1. /\ head < Len(ledger) + MaxEmpty
      /\ head' = head + 1
      /\ final' = Max({final, head + 1 - Confirms})
      /\ contract' = contract /\ start' = start /\ ledger' = ledger
  BY DEF EmptyBlock
<1>2. head \in Nat /\ final \in Nat /\ final <= head /\ Len(ledger) \in Nat
  <2>1. Len(ledger) \in Nat
    BY LengthIsNat DEF ChainTyped, Readable
  <2> QED
    BY <2>1 DEF ChainTyped
<1>3. final' \in Nat /\ final' >= final /\ final' <= head + 1 /\ final' >= head + 1 - Confirms
  <2> DEFINE x == head + 1 - Confirms
  <2>1. x \in Int /\ x <= head + 1 /\ final \in Int
    BY <1>2
  <2>2. final' = Max({final, x})
    BY <1>1
  <2> HIDE DEF x
  <2>3. final' \in {final, x} /\ final' >= final /\ final' >= x
    BY <2>1, <2>2, PairMax
  <2> QED
    BY <1>2, <2>1, <2>3 DEF x
<1>4. \A i \in 1..Len(ledger) : ledger[i].slot \in 1..head
  BY DEF ChainTyped
<1>5. ASSUME NEW b \in 0..(head + 1), NEW n \in 0..Len(ledger),
             \A i \in 1..Len(ledger) : ledger[i].slot <= b <=> i <= n
      PROVE  b <= n + MaxEmpty
  <2>1. CASE b = head + 1
    <3>1. CASE Len(ledger) = 0
      BY <1>1, <1>2, <2>1, <3>1
    <3>2. CASE Len(ledger) # 0
      <4>1. Len(ledger) \in 1..Len(ledger)
        BY <1>2, <3>2
      <4>2. ledger[Len(ledger)].slot <= b
        BY <1>2, <1>4, <2>1, <4>1
      <4>3. Len(ledger) <= n
        BY <1>5, <4>1, <4>2
      <4> QED
        BY <1>1, <1>2, <2>1, <4>3
    <3> QED
      BY <3>1, <3>2
  <2>2. CASE b # head + 1
    <3>1. b \in 0..head
      BY <1>2, <2>2
    <3> QED
      BY <1>5, <3>1 DEF ChainTyped, Depth
  <2> QED
    BY <2>1, <2>2
<1>6. Depth'
  BY <1>1, <1>5 DEF Depth
<1>7. \A i \in 1..Len(ledger) : ledger[i].slot \in 1..(head + 1)
  BY <1>2, <1>4
<1>8. Readable(ledger')
  BY <1>1 DEF ChainTyped
<1>9. start <= final'
  BY <1>2, <1>3 DEF ChainTyped
<1> QED
  BY <1>1, <1>2, <1>3, <1>6, <1>7, <1>8, <1>9 DEF ChainTyped

LEMMA ReorgTyped ==
  ASSUME ChainTyped, Reorg
  PROVE  ChainTyped' /\ final' >= final
<1> USE MirrorConstants
<1>1. PICK kept \in final..(head - 1), n \in 0..Len(ledger) :
        /\ \A i \in DOMAIN ledger : ledger[i].slot <= kept <=> i <= n
        /\ ledger' = SubSeq(ledger, 1, n)
        /\ head' = kept
  BY DEF Reorg
<1>2. contract' = contract /\ start' = start /\ final' = final
  BY DEF Reorg
<1> DEFINE N == Len(ledger)
<1>3. PICK R : ledger \in Seq(R)
  BY DEF ChainTyped, Readable
<1>4. N \in Nat /\ DOMAIN ledger = 1..N
  BY <1>3
<1>5. head \in Nat /\ final \in Nat /\ final <= head /\ kept \in Nat /\ kept >= final /\ kept < head
  BY <1>4 DEF ChainTyped
<1>6. /\ ledger' \in Seq(R) /\ Len(ledger') = n
      /\ \A i \in 1..n : ledger'[i] = ledger[i]
  BY <1>1, <1>3, <1>4
<1>7. \A i \in 1..n : i \in 1..N
  BY <1>4
<1>8. \A i \in 1..n : ledger'[i].slot \in 1..kept
  <2>1. \A i \in 1..n : i \in 1..N /\ i <= n
    BY <1>4
  <2>2. \A i \in 1..N : ledger[i].slot \in 1..head
    BY DEF ChainTyped
  <2> QED
    BY <1>1, <1>4, <1>5, <1>6, <2>1, <2>2
<1>9. Readable(ledger')
  <2>1. \A i \in 1..n : ledger'[i].slot \in Nat /\ \E T : ledger'[i].events \in Seq(T)
    BY <1>6, <1>7 DEF ChainTyped, Readable
  <2>2. \A i, j \in 1..n : i < j => ledger'[i].slot <= ledger'[j].slot
    BY <1>6, <1>7 DEF ChainTyped, Readable
  <2> QED
    BY <1>6, <2>1, <2>2 DEF Readable
<1>10. kept <= n + MaxEmpty
  <2>1. kept \in 0..head
    BY <1>5
  <2> QED
    BY <1>1, <1>4, <2>1 DEF ChainTyped, Depth
<1>11. ASSUME NEW b \in 0..kept, NEW m \in 0..n,
              \A i \in 1..n : ledger'[i].slot <= b <=> i <= m
       PROVE  b <= m + MaxEmpty
  <2>1. b \in 0..head /\ m \in 0..N
    BY <1>4, <1>5
  <2>2. ASSUME NEW i \in 1..N PROVE ledger[i].slot <= b <=> i <= m
    <3>1. CASE i <= n
      <4>1. i \in 1..n
        BY <3>1
      <4> QED
        BY <1>6, <1>11, <4>1
    <3>2. CASE ~ (i <= n)
      <4>1. ~ (ledger[i].slot <= kept) /\ ledger[i].slot \in Nat
        BY <1>1, <1>4, <3>2 DEF ChainTyped, Readable
      <4>2. ~ (ledger[i].slot <= b)
        BY <1>5, <4>1
      <4> QED
        BY <3>2, <4>2
    <3> QED
      BY <3>1, <3>2
  <2> QED
    BY <2>1, <2>2 DEF ChainTyped, Depth
<1>12. Depth'
  BY <1>1, <1>6, <1>11 DEF Depth
<1>13. head' \in 0..(Len(ledger') + MaxEmpty)
  BY <1>1, <1>5, <1>6, <1>10
<1>14. final' \in 0..head' /\ head' - Confirms <= final'
  BY <1>1, <1>2, <1>5 DEF ChainTyped
<1> QED
  BY <1>1, <1>2, <1>5, <1>6, <1>8, <1>9, <1>12, <1>13, <1>14 DEF ChainTyped

---------------------------------------------------------------------------
LEMMA CallOneJoins ==
  ASSUME NEW e, NEW post, Call(<<e>>, post)
  PROVE  Joined1
BY OneIsSeq, CallJoins

(* Every call of a contract adds one transaction with a list of events.    *)
LEMMA ContractCallJoins ==
  ASSUME ContractCall
  PROVE  Joined1
<1>1. CASE Propose
  BY <1>1, CallOneJoins DEF Propose
<1>2. CASE CastVote
  BY <1>2, CallOneJoins DEF CastVote
<1>3. CASE Queue
  BY <1>3, CallOneJoins DEF Queue
<1>4. CASE ExecuteProposal
  BY <1>4, CallOneJoins DEF ExecuteProposal
<1>5. CASE CancelProposal
  BY <1>5, CallOneJoins DEF CancelProposal
<1>6. CASE ReceiveMessage
  BY <1>6, CallOneJoins DEF ReceiveMessage
<1>7. CASE CloseMessage
  BY <1>7, CallOneJoins DEF CloseMessage
<1>8. CASE ParameterChanged
  BY <1>8, CallOneJoins DEF ParameterChanged
<1>9. CASE Deposit
  BY <1>9, CallOneJoins DEF Deposit
<1>10. CASE Withdraw
  BY <1>10, CallOneJoins DEF Withdraw
<1>11. CASE RegisterFeed
  BY <1>11, CallOneJoins DEF RegisterFeed
<1>12. CASE DeregisterFeed
  BY <1>12, CallOneJoins DEF DeregisterFeed
<1>13. CASE OpenRound
  BY <1>13, CallOneJoins DEF OpenRound
<1>14. CASE SettleRound
  BY <1>14, CallOneJoins DEF SettleRound
<1>15. CASE InsertCommitment
  BY <1>15, CallOneJoins DEF InsertCommitment
<1>16. CASE RegisterAction
  BY <1>16, CallOneJoins DEF RegisterAction
<1>17. CASE DeregisterAction
  BY <1>17, CallOneJoins DEF DeregisterAction
<1>18. CASE ExecutePrivateAction
  BY <1>18, CallOneJoins DEF ExecutePrivateAction
<1>19. CASE SubmitValue
  <2>1. PICK e, more, post : Call(<<e>> \o more, post) /\ (more = <<>> \/ \E d : more = <<d>>)
    BY <1>19 DEF SubmitValue
  <2>2. IsSeq(more)
    <3>1. IsSeq(<<>>)
      BY EmptySeq DEF IsSeq
    <3> QED
      BY <2>1, <3>1, OneIsSeq
  <2> QED
    BY <2>1, <2>2, OneIsSeq, ConcatIsSeq, CallJoins
<1>20. CASE FailedTransaction
  <2>1. PICK m \in Ids : Append1([slot |-> 0, ok |-> FALSE, post |-> Storage,
                               events |-> <<[name |-> "MessageCancelled", id |-> m]>>])
    BY <1>20 DEF FailedTransaction
  <2> DEFINE tx == [slot |-> 0, ok |-> FALSE, post |-> Storage,
                    events |-> <<[name |-> "MessageCancelled", id |-> m]>>]
  <2>2. {"slot", "events"} \subseteq DOMAIN tx /\ IsSeq(tx.events)
    BY OneIsSeq
  <2> HIDE DEF tx
  <2> QED
    BY <2>1, <2>2 DEF Joined1, tx
<1>21. CASE Register
  <2>1. PICK c, s, es, moves :
          StakingCall(c, s, moves, es) /\ moves \in {"joins", "leaves", "stays"} /\ IsSeq(es)
    BY <1>21, TwoIsSeq DEF Register
  <2> QED
    BY <2>1, StakingCallJoins
<1>22. CASE TopUp
  <2>1. PICK c, s, es, moves :
          StakingCall(c, s, moves, es) /\ moves \in {"joins", "leaves", "stays"} /\ IsSeq(es)
    BY <1>22, OneIsSeq, EmptySeq DEF TopUp, IsSeq
  <2> QED
    BY <2>1, StakingCallJoins
<1>23. CASE RequestUnstake
  <2>1. PICK c, s, es, moves :
          StakingCall(c, s, moves, es) /\ moves \in {"joins", "leaves", "stays"} /\ IsSeq(es)
    BY <1>23, OneIsSeq, EmptySeq DEF RequestUnstake, IsSeq
  <2> QED
    BY <2>1, StakingCallJoins
<1>24. CASE CancelUnstake
  <2>1. PICK c, s, es, moves :
          StakingCall(c, s, moves, es) /\ moves \in {"joins", "leaves", "stays"} /\ IsSeq(es)
    BY <1>24, OneIsSeq, EmptySeq DEF CancelUnstake, IsSeq
  <2> QED
    BY <2>1, StakingCallJoins
<1>25. CASE CompleteUnstake
  <2>1. PICK c, s, es, moves :
          StakingCall(c, s, moves, es) /\ moves \in {"joins", "leaves", "stays"} /\ IsSeq(es)
    BY <1>25, OneIsSeq, EmptySeq DEF CompleteUnstake, IsSeq
  <2> QED
    BY <2>1, StakingCallJoins
<1>26. CASE SlashNode
  <2>1. PICK c, s, es, moves :
          StakingCall(c, s, moves, es) /\ moves \in {"joins", "leaves", "stays"} /\ IsSeq(es)
    BY <1>26, OneIsSeq, EmptySeq DEF SlashNode, IsSeq
  <2> QED
    BY <2>1, StakingCallJoins
<1>27. CASE Deactivate
  <2>1. PICK c, s, es, moves :
          StakingCall(c, s, moves, es) /\ moves \in {"joins", "leaves", "stays"} /\ IsSeq(es)
    BY <1>27, OneIsSeq, EmptySeq DEF Deactivate, IsSeq
  <2> QED
    BY <2>1, StakingCallJoins
<1> QED
  BY <1>1, <1>2, <1>3, <1>4, <1>5, <1>6, <1>7, <1>8, <1>9, <1>10, <1>11, <1>12, <1>13, <1>14,
     <1>15, <1>16, <1>17, <1>18, <1>19, <1>20, <1>21, <1>22, <1>23, <1>24, <1>25, <1>26, <1>27
     DEF ContractCall

LEMMA ChainNextTyped ==
  ASSUME ChainTyped, ChainNext
  PROVE  ChainTyped' /\ final' >= final
BY ContractCallJoins, JoinedTyped, EmptyBlockTyped, ReorgTyped DEF ChainNext

---------------------------------------------------------------------------
(* The process. *)

BatchTyped ==
  /\ IsSeq(events)
  /\ \A n \in 1..Len(events) : events[n].block \in (cursor + 1)..to

ProcessTyped ==
  /\ saved \in {NotSaved} \union 0..final
  /\ cursor \in 0..final /\ to \in 0..final
  /\ up \in BOOLEAN
  /\ ~up => to = 0 /\ known = {}
  /\ to # 0 => cursor < to
  /\ to = 0 => events = <<>>
  /\ events = <<>> => work = <<>>
  /\ late \subseteq 1..final
  /\ written \in 0..final
  /\ BatchTyped

IndexerTyped == ChainTyped /\ ProcessTyped

LEMMA IndexerTypedImplies == IndexerTyped => MirrorTypeOK
<1> SUFFICES ASSUME IndexerTyped PROVE MirrorTypeOK
  OBVIOUS
<1>1. DOMAIN ledger = 1..Len(ledger) /\ Len(ledger) \in Nat
  BY LengthIsNat DEF IndexerTyped, ChainTyped, Readable
<1>2. ASSUME NEW i \in DOMAIN ledger
      PROVE  ledger[i].slot \in 1..head /\ (i > 1 => ledger[i - 1].slot <= ledger[i].slot)
  <2>1. i > 1 => i - 1 \in 1..Len(ledger) /\ i - 1 < i
    BY <1>1
  <2> QED
    BY <1>1, <2>1 DEF IndexerTyped, ChainTyped, Readable
<1>3. contract \in Kinds /\ head \in 0..(Len(ledger) + MaxEmpty) /\ final \in 0..head
  BY DEF IndexerTyped, ChainTyped
<1> QED
  BY <1>2, <1>3 DEF IndexerTyped, ProcessTyped, MirrorTypeOK

(* What the process reads is what the readers return. *)
LEMMA LogsAreExact ==
  ASSUME ChainTyped, NEW first \in Nat, NEW last \in Nat, first <= last
  PROVE  Exact(LogsInRange(first, last), ledger, first, last, Filters(contract))
<1> DEFINE svm == SvmLogsInRange(ledger, first, last, Filters(contract))
           evm == EvmLogsInRange(ledger, first, last, Filters(contract))
<1>1. Readable(ledger)
  BY DEF ChainTyped
<1>2. Exact(svm, ledger, first, last, Filters(contract))
  BY <1>1, SvmReaderIsExact
<1>3. Exact(evm, ledger, first, last, Filters(contract))
  BY <1>1, EvmReaderIsExact
<1>4. LogsInRange(first, last) = IF contract \in SvmKinds THEN svm ELSE evm
  BY DEF LogsInRange
<1> HIDE DEF svm, evm
<1> QED
  BY <1>2, <1>3, <1>4

LEMMA LogsTyped ==
  ASSUME ChainTyped, NEW first \in Nat, NEW last \in Nat, first <= last
  PROVE  /\ IsSeq(LogsInRange(first, last))
         /\ \A n \in 1..Len(LogsInRange(first, last)) :
              LogsInRange(first, last)[n].block \in first..last
<1> DEFINE r == LogsInRange(first, last)
<1>1. Exact(r, ledger, first, last, Filters(contract))
  BY LogsAreExact
<1> HIDE DEF r
<1>2. \A i, j : Decode(ledger, i, j).block = ledger[i].slot
  BY DEF Decode
<1>3. \A n \in 1..Len(r) : r[n].block \in first..last
  BY <1>1, <1>2 DEF Exact, Wanted
<1> QED
  BY <1>1, <1>3 DEF Exact, IsSeq, r

LEMMA SafeHeadFinal ==
  ASSUME ChainTyped
  PROVE  SafeHead \in 0..final
BY MirrorConstants DEF ChainTyped, SafeHead

LEMMA SaveCursorIs ==
  ASSUME NEW b \in Nat, saved \in {NotSaved} \union Nat
  PROVE  SaveCursor(b) \in {saved, b} /\ SaveCursor(b) >= saved /\ SaveCursor(b) >= b
BY DEF SaveCursor, NotSaved

LEMMA MirrorInitTyped == MirrorInit => IndexerTyped
<1> SUFFICES ASSUME MirrorInit PROVE IndexerTyped
  OBVIOUS
<1> USE MirrorConstants
<1>1. /\ head = start /\ final = start /\ contract \in Kinds
      /\ saved = NotSaved /\ up = FALSE /\ cursor = 0 /\ to = 0 /\ events = <<>>
      /\ work = <<>> /\ known = {} /\ late = {} /\ written = start
  BY DEF MirrorInit
<1>2. /\ start \in {0, 1}
      /\ start = 0 => ledger = <<>>
      /\ start = 1 => contract \in LateKinds
                        /\ \E past \in Earlier(contract) : ledger = <<past>>
  BY DEF MirrorInit
<1>0. ASSUME start \in {0, 1}
      PROVE  ProcessTyped
  <2>1. saved \in {NotSaved} \union 0..final /\ cursor \in 0..final /\ to \in 0..final
    BY <1>0, <1>1
  <2>2. up \in BOOLEAN /\ (~up => to = 0 /\ known = {})
    BY <1>1
  <2>3. BatchTyped
    <3>1. Len(events) = 0
      BY <1>1
    <3> QED
      BY <1>1, <3>1, EmptyIsSeq DEF BatchTyped
  <2>4. late \subseteq 1..final /\ written \in 0..final
    BY <1>0, <1>1
  <2> QED
    BY <1>1, <2>1, <2>2, <2>3, <2>4 DEF ProcessTyped
<1>3. ASSUME NEW past \in Earlier(contract)
      PROVE  past.slot = 1 /\ IsSeq(past.events)
  <2>1. CASE past = EarlierFeed
    <3>1. PICK x : past.slot = 1 /\ past.events = <<x>>
      BY <2>1 DEF EarlierFeed
    <3> QED
      BY <3>1, OneIsSeq
  <2>2. CASE past = EarlierRound
    <3>1. PICK x, y : past.slot = 1 /\ past.events = Append(<<x>>, y)
      BY <2>2 DEF EarlierRound, EarlierFeed
    <3>2. Append(<<x>>, y) \in Seq({x, y})
      OBVIOUS
    <3> QED
      BY <3>1, <3>2 DEF IsSeq
  <2>3. CASE \E n \in Stakers : past = EarlierNode(n)
    <3>1. PICK x, y, z : past.slot = 1 /\ past.events = <<x, y, z>>
      BY <2>3 DEF EarlierNode
    <3>2. <<x, y, z>> \in Seq({x, y, z})
      OBVIOUS
    <3> QED
      BY <3>1, <3>2 DEF IsSeq
  <2> QED
    BY <2>1, <2>2, <2>3 DEF Earlier
<1>4. CASE start = 0
  <2>1. ledger = <<>> /\ Len(ledger) = 0
    BY <1>2, <1>4
  <2>2. Readable(ledger)
    BY <2>1 DEF Readable
  <2>3. Depth
    BY <1>1, <1>4 DEF Depth
  <2>4. ChainTyped
    BY <1>1, <1>4, <2>1, <2>2, <2>3 DEF ChainTyped
  <2> QED
    BY <1>0, <1>2, <2>4 DEF IndexerTyped
<1>5. CASE start = 1
  <2>1. PICK e : ledger = <<e>> /\ e.slot = 1 /\ IsSeq(e.events)
    BY <1>2, <1>3, <1>5
  <2>2. Len(ledger) = 1 /\ ledger[1] = e /\ ledger \in Seq({e})
    BY <2>1
  <2>3. Readable(ledger)
    <3>1. \A i \in 1..1 : i = 1
      OBVIOUS
    <3>2. \A i \in 1..1 : ledger[i].slot \in Nat /\ \E R : ledger[i].events \in Seq(R)
      BY <2>1, <2>2, <3>1 DEF IsSeq
    <3>3. \A i, j \in 1..1 : ~ (i < j)
      OBVIOUS
    <3> QED
      BY <2>2, <3>2, <3>3 DEF Readable
  <2>4. Depth
    <3> SUFFICES ASSUME NEW b \in 0..1, NEW n \in 0..1,
                        \A i \in 1..1 : ledger[i].slot <= b <=> i <= n
                 PROVE  b <= n + MaxEmpty
      BY <1>1, <1>5, <2>2 DEF Depth
    <3>1. 1 <= b <=> 1 <= n
      BY <2>1, <2>2
    <3> QED
      BY <3>1
  <2>6. ChainTyped
    BY <1>1, <1>5, <2>1, <2>2, <2>3, <2>4 DEF ChainTyped
  <2> QED
    BY <1>0, <1>2, <2>6 DEF IndexerTyped
<1> QED
  BY <1>2, <1>4, <1>5

(* A step that leaves the chain alone. *)
LEMMA ChainFrame ==
  ASSUME ChainTyped, UNCHANGED chainVars
  PROVE  ChainTyped'
BY DEF ChainTyped, chainVars, Depth

(* Nothing is left of a step that gives up. *)
LEMMA StepFailsTyped ==
  ASSUME StepFails
  PROVE  BatchTyped'
<1>1. to' = 0 /\ events' = <<>> /\ Len(events') = 0
  BY DEF StepFails
<1> QED
  BY <1>1, EmptyIsSeq DEF BatchTyped

LEMMA IndexerStepTyped ==
  ASSUME IndexerTyped, [MirrorNext]_indexerVars
  PROVE  IndexerTyped' /\ final' >= final /\ saved' >= saved
<1> USE MirrorConstants
<1>1. ChainTyped /\ ProcessTyped
  BY DEF IndexerTyped
<1>2. /\ final \in Nat /\ head \in Nat /\ start \in {0, 1} /\ start <= final
      /\ saved \in {NotSaved} \union 0..final /\ cursor \in 0..final /\ to \in 0..final
      /\ written \in 0..final /\ late \subseteq 1..final
  BY <1>1 DEF ChainTyped, ProcessTyped
<1>3. CASE Idle /\ ChainNext /\ UNCHANGED mirrorVars
  <2>1. ChainTyped' /\ final' >= final
    BY <1>1, <1>3, ChainNextTyped
  <2>2. final' \in Nat
    BY <2>1 DEF ChainTyped
  <2>3. ProcessTyped'
    <3>1. \A x \in 0..final : x \in 0..final'
      BY <1>2, <2>1, <2>2
    <3>2. \A x \in 1..final : x \in 1..final'
      BY <1>2, <2>1, <2>2
    <3> QED
      BY <1>1, <1>3, <3>1, <3>2 DEF ProcessTyped, BatchTyped, mirrorVars, processVars
  <2> QED
    BY <1>2, <1>3, <2>1, <2>3 DEF IndexerTyped, mirrorVars, NotSaved
<1>4. CASE RestoreCursor
  <2>1. ChainTyped' /\ final' = final
    BY <1>1, <1>4, ChainFrame DEF RestoreCursor, chainVars
  <2>2. cursor' \in 0..final /\ saved' \in {NotSaved} \union 0..final /\ saved' >= saved
    <3>1. CASE saved = NotSaved
      <4>1. cursor' = start /\ saved' = SaveCursor(start)
        BY <1>4, <3>1 DEF RestoreCursor
      <4> QED
        BY <1>2, <3>1, <4>1 DEF NotSaved, SaveCursor
    <3>2. CASE saved # NotSaved
      BY <1>2, <1>4, <3>2 DEF RestoreCursor
    <3> QED
      BY <3>1, <3>2
  <2>3. to = 0 /\ events = <<>> /\ work = <<>>
    BY <1>1, <1>4 DEF ProcessTyped, RestoreCursor
  <2>4. BatchTyped'
    BY <1>4, <2>3, EmptyIsSeq DEF RestoreCursor, BatchTyped
  <2>5. ProcessTyped'
    BY <1>1, <1>4, <2>1, <2>2, <2>3, <2>4 DEF RestoreCursor, ProcessTyped
  <2> QED
    BY <1>2, <2>1, <2>2, <2>5 DEF IndexerTyped
<1>5. CASE FetchBatch
  <2>1. ChainTyped' /\ final' = final /\ saved' = saved
    BY <1>1, <1>5, ChainFrame DEF FetchBatch, chainVars
  <2>2. SafeHead \in 0..final /\ SafeHead > cursor /\ up
    BY <1>1, <1>5, SafeHeadFinal DEF FetchBatch, Idle
  <2>3. Upto \in 0..final /\ cursor < Upto
    <3> DEFINE x == cursor + BatchSize
               y == SafeHead
    <3>1. x \in Int /\ y \in Int /\ x > cursor
      BY <1>2, <2>2
    <3>2. Upto = Min({x, y})
      BY DEF Upto
    <3> HIDE DEF x, y
    <3>3. Upto \in {x, y} /\ Upto <= x /\ Upto <= y
      BY <3>1, <3>2, PairMin
    <3> QED
      BY <1>2, <2>2, <3>1, <3>3 DEF y
  <2>4. to' = Upto /\ events' = LogsInRange(cursor + 1, Upto) /\ cursor' = cursor /\ work' = work
    BY <1>5 DEF FetchBatch
  <2>5. BatchTyped'
    <3>1. cursor + 1 \in Nat /\ Upto \in Nat /\ cursor + 1 <= Upto
      BY <1>2, <2>3
    <3>2. /\ IsSeq(LogsInRange(cursor + 1, Upto))
          /\ \A n \in 1..Len(LogsInRange(cursor + 1, Upto)) :
               LogsInRange(cursor + 1, Upto)[n].block \in (cursor + 1)..Upto
      BY <1>1, <3>1, LogsTyped
    <3> QED
      BY <2>4, <3>2 DEF BatchTyped
  <2>6. work = <<>>
    BY <1>1, <1>5 DEF ProcessTyped, FetchBatch, Idle
  <2>7. ProcessTyped'
    BY <1>1, <1>2, <1>5, <2>1, <2>2, <2>3, <2>4, <2>5, <2>6 DEF FetchBatch, ProcessTyped
  <2> QED
    BY <1>2, <2>1, <2>7 DEF IndexerTyped, NotSaved
<1>6. CASE WriteStatement
  <2>1. ChainTyped' /\ final' = final /\ saved' = saved
    BY <1>1, <1>6, ChainFrame DEF WriteStatement, chainVars
  <2>2. up /\ events # <<>> /\ up' = up /\ cursor' = cursor /\ late' = late
    BY <1>6 DEF WriteStatement
  <2>3. PICK R : events \in Seq(R)
    BY <1>1 DEF ProcessTyped, BatchTyped, IsSeq
  <2>4. /\ Len(events) \in Nat /\ 1 \in 1..Len(events) /\ Head(events) = events[1]
        /\ IsSeq(Tail(events)) /\ Len(Tail(events)) = Len(events) - 1
        /\ \A n \in 1..Len(Tail(events)) : Tail(events)[n] = events[n + 1]
    BY <2>2, <2>3, HeadTailProperties, EmptySeq DEF IsSeq
  <2>5. Head(events).block \in (cursor + 1)..to
    BY <1>1, <2>4 DEF ProcessTyped, BatchTyped
  <2>6. \/ StepFails /\ UNCHANGED <<db, known, written>>
        \/ /\ written' = Max({written, Head(events).block})
           /\ \E todo : /\ work' = Tail(todo)
                        /\ events' = IF Tail(todo) = <<>> THEN Tail(events) ELSE events
           /\ to' = to
    BY <1>6 DEF WriteStatement
  <2>7. CASE StepFails /\ UNCHANGED <<db, known, written>>
    <3>1. BatchTyped'
      BY <2>7, StepFailsTyped
    <3>2. ProcessTyped'
      BY <1>1, <1>2, <2>1, <2>2, <2>7, <3>1 DEF ProcessTyped, StepFails
    <3> QED
      BY <1>2, <2>1, <3>2 DEF IndexerTyped, NotSaved
  <2>8. CASE /\ written' = Max({written, Head(events).block})
             /\ \E todo : /\ work' = Tail(todo)
                          /\ events' = IF Tail(todo) = <<>> THEN Tail(events) ELSE events
             /\ to' = to
    <3>1. PICK todo : /\ work' = Tail(todo)
                      /\ events' = IF Tail(todo) = <<>> THEN Tail(events) ELSE events
      BY <2>8
    <3>2. written' \in 0..final
      <4> DEFINE x == Head(events).block
      <4>1. x \in 0..final /\ x \in Int /\ written \in Int
        BY <1>2, <2>5
      <4> HIDE DEF x
      <4>2. written' \in {written, x}
        BY <2>8, <4>1, PairMax DEF x
      <4> QED
        BY <1>2, <4>1, <4>2
    <3>3. IsSeq(events') /\ \A n \in 1..Len(events') : events'[n].block \in (cursor + 1)..to
      <4>1. CASE Tail(todo) = <<>>
        <5>1. \A n \in 1..(Len(events) - 1) : n + 1 \in 1..Len(events)
          BY <2>4
        <5>2. events' = Tail(events)
          BY <3>1, <4>1
        <5> QED
          BY <1>1, <2>4, <5>1, <5>2 DEF ProcessTyped, BatchTyped
      <4>2. CASE Tail(todo) # <<>>
        BY <1>1, <3>1, <4>2 DEF ProcessTyped, BatchTyped
      <4> QED
        BY <4>1, <4>2
    <3>4. BatchTyped'
      BY <2>2, <2>8, <3>3 DEF BatchTyped
    <3>5. to # 0 /\ (events' = <<>> => work' = <<>>)
      BY <1>1, <2>2, <3>1 DEF ProcessTyped
    <3>6. ProcessTyped'
      BY <1>1, <1>2, <2>1, <2>2, <2>8, <3>2, <3>4, <3>5 DEF ProcessTyped
    <3> QED
      BY <1>2, <2>1, <3>6 DEF IndexerTyped, NotSaved
  <2> QED
    BY <2>6, <2>7, <2>8
<1>7. CASE CommitBatch
  <2>1. ChainTyped' /\ final' = final
    BY <1>1, <1>7, ChainFrame DEF CommitBatch, chainVars
  <2>2. saved' \in {NotSaved} \union 0..final /\ saved' >= saved
    BY <1>2, <1>7 DEF CommitBatch, SaveCursor, NotSaved
  <2>3. /\ events' = <<>> /\ events = <<>> /\ to' = 0 /\ cursor' = to /\ up /\ up' = up
        /\ work' = work /\ known' = known /\ late' = late /\ written' = written
    BY <1>7 DEF CommitBatch
  <2>4. BatchTyped'
    BY <2>3, EmptyIsSeq DEF BatchTyped
  <2>5. ProcessTyped'
    BY <1>1, <1>2, <2>1, <2>2, <2>3, <2>4 DEF ProcessTyped
  <2> QED
    BY <1>2, <2>1, <2>2, <2>5 DEF IndexerTyped
<1>8. CASE LoseStep
  <2>1. ChainTyped' /\ final' = final /\ saved' = saved
    BY <1>1, <1>8, ChainFrame DEF LoseStep, chainVars
  <2>2. BatchTyped'
    BY <1>8, StepFailsTyped DEF LoseStep
  <2>3. ProcessTyped'
    BY <1>1, <1>2, <1>8, <2>1, <2>2 DEF LoseStep, StepFails, ProcessTyped
  <2> QED
    BY <1>2, <2>1, <2>3 DEF IndexerTyped, NotSaved
<1>9. CASE Crash
  <2>1. ChainTyped' /\ final' = final /\ saved' = saved
    BY <1>1, <1>9, ChainFrame DEF Crash, chainVars
  <2>2. BatchTyped'
    BY <1>9, StepFailsTyped DEF Crash
  <2>3. late' \subseteq 1..final
    <3>1. to # 0 /\ (late' = late \/ late' = late \union {to})
      BY <1>9 DEF Crash
    <3>2. to \in 1..final
      BY <1>2, <3>1
    <3> QED
      BY <1>2, <3>1, <3>2
  <2>4. /\ up' = FALSE /\ cursor' = 0 /\ known' = {} /\ written' = written
        /\ to' = 0 /\ events' = <<>> /\ work' = <<>>
    BY <1>9 DEF Crash, StepFails
  <2>5. ProcessTyped'
    <3>1. saved' \in {NotSaved} \union 0..final' /\ written' \in 0..final'
      BY <1>2, <2>1, <2>4
    <3>2. cursor' \in 0..final' /\ to' \in 0..final'
      BY <1>2, <2>1, <2>4
    <3>3. up' \in BOOLEAN
      BY <2>4
    <3> QED
      BY <2>1, <2>2, <2>3, <2>4, <3>1, <3>2, <3>3 DEF ProcessTyped
  <2> QED
    BY <1>2, <2>1, <2>5 DEF IndexerTyped, NotSaved
<1>10. CASE LateSave
  <2>1. ChainTyped' /\ final' = final
    BY <1>1, <1>10, ChainFrame DEF LateSave, chainVars
  <2>2. PICK block \in late : saved' = SaveCursor(block) /\ late' = late
    BY <1>10 DEF LateSave
  <2>3. saved' \in {NotSaved} \union 0..final /\ saved' >= saved
    BY <1>2, <2>2 DEF SaveCursor, NotSaved
  <2>4. ProcessTyped'
    BY <1>1, <1>2, <1>10, <2>1, <2>2, <2>3 DEF LateSave, processVars, ProcessTyped, BatchTyped
  <2> QED
    BY <1>2, <2>1, <2>3, <2>4 DEF IndexerTyped
<1>11. CASE UNCHANGED indexerVars
  <2>1. UNCHANGED chainVars /\ UNCHANGED mirrorVars
    BY <1>11 DEF indexerVars
  <2>2. ChainTyped' /\ final' = final
    BY <1>1, <2>1, ChainFrame DEF chainVars
  <2>3. ProcessTyped'
    BY <1>1, <2>1, <2>2 DEF ProcessTyped, BatchTyped, mirrorVars, processVars
  <2> QED
    BY <1>2, <2>1, <2>2, <2>3 DEF IndexerTyped, mirrorVars, NotSaved
<1> QED
  BY <1>3, <1>4, <1>5, <1>6, <1>7, <1>8, <1>9, <1>10, <1>11 DEF MirrorNext, Process

(* The process never works on, saves or writes anything beyond the final   *)
(* blocks, although the chain it reads is reorganised under it: the head   *)
(* it trusts is as many blocks back as a reorganisation can reach          *)
(* (indexer.go:116-128).  The bound on empty blocks needs Depth, as a      *)
(* reorganisation takes back the newest blocks only.                       *)
THEOREM IndexerTypeCorrect == MirrorSpec => []MirrorTypeOK
<1>1. IndexerTyped /\ [MirrorNext]_indexerVars => IndexerTyped'
  BY IndexerStepTyped
<1> QED
  BY <1>1, MirrorInitTyped, IndexerTypedImplies, PTL DEF MirrorSpec

(* The saved cursor never moves back, also when the save of a process that *)
(* is gone lands after its successor's (cursor.go:41-42).                  *)
THEOREM SavedNeverRewinds == MirrorSpec => CursorNeverRewinds
<1>1. IndexerTyped /\ [MirrorNext]_indexerVars => IndexerTyped'
  BY IndexerStepTyped
<1>2. IndexerTyped /\ [MirrorNext]_indexerVars => [saved' >= saved]_indexerVars
  BY IndexerStepTyped
<1> QED
  BY <1>1, <1>2, MirrorInitTyped, PTL DEF MirrorSpec, CursorNeverRewinds

---------------------------------------------------------------------------
(* Part 3: the indexer: what a statement does to the tables.             *)

(* The tables. *)

(* FinalRows of the tables d. *)
FinalKeys(d) ==
    [proposals |-> {p \in DOMAIN d.proposals :
                       d.proposals[p].state \in {"executed", "dispatched", "cancelled"}},
     remote |-> {m \in DOMAIN d.remote : d.remote[m].status # "pending"},
     rounds |-> {r \in DOMAIN d.rounds : d.rounds[r].state \in {"settled", "failed"}},
     intervals |-> {k \in DOMAIN d.intervals : d.intervals[k].closed # 0},
     votes |-> DOMAIN d.votes, submissions |-> DOMAIN d.submissions,
     deposits |-> DOMAIN d.deposits, withdrawals |-> DOMAIN d.withdrawals,
     slashings |-> DOMAIN d.slashings, leaves |-> DOMAIN d.leaves, spent |-> DOMAIN d.spent]

(* The rows S of a table are in another, and the same there. *)
RowsStay(t, u, S) == \A k \in S : k \in DOMAIN u /\ u[k] = t[k]

(* No final row of the tables d is another one, or gone, in the tables e.  *)
Kept(d, e) ==
  /\ RowsStay(d.proposals, e.proposals, FinalKeys(d).proposals)
  /\ RowsStay(d.remote, e.remote, FinalKeys(d).remote)
  /\ RowsStay(d.rounds, e.rounds, FinalKeys(d).rounds)
  /\ RowsStay(d.intervals, e.intervals, FinalKeys(d).intervals)
  /\ RowsStay(d.votes, e.votes, DOMAIN d.votes)
  /\ RowsStay(d.submissions, e.submissions, DOMAIN d.submissions)
  /\ RowsStay(d.deposits, e.deposits, DOMAIN d.deposits)
  /\ RowsStay(d.withdrawals, e.withdrawals, DOMAIN d.withdrawals)
  /\ RowsStay(d.slashings, e.slashings, DOMAIN d.slashings)
  /\ RowsStay(d.leaves, e.leaves, DOMAIN d.leaves)
  /\ RowsStay(d.spent, e.spent, DOMAIN d.spent)

LEMMA KeptIs ==
  ASSUME NEW d, NEW e, Kept(d, e)
  PROVE  \A t \in DOMAIN FinalKeys(d) : \A k \in FinalKeys(d)[t] :
           k \in DOMAIN e[t] /\ e[t][k] = d[t][k]
BY DEF Kept, RowsStay, FinalKeys

Columns ==
  {"parents", "proposals", "votes", "remote", "deposits", "withdrawals", "feeds", "rounds",
   "submissions", "nodes", "intervals", "slashings", "leaves", "actions", "spent"}

TablesAre(d) ==
  /\ DOMAIN d = Columns
  /\ \A k \in DOMAIN d.intervals : d.intervals[k] = [closed |-> d.intervals[k].closed]

LEMMA SameRowsStay == ASSUME NEW t, NEW S, S \subseteq DOMAIN t PROVE RowsStay(t, t, S)
BY DEF RowsStay

LEMMA InsertStays ==
  ASSUME NEW t, NEW key, NEW row
  PROVE  RowsStay(t, InsertNew(t, key, row), DOMAIN t)
BY DEF RowsStay, InsertNew

(* A statement that leaves every table but one alone. *)
Others(d, e, c) == DOMAIN e = Columns /\ \A t \in Columns \ {c} : e[t] = d[t]

LEMMA SetIsOthers ==
  ASSUME NEW d, DOMAIN d = Columns, NEW c \in Columns, NEW v
  PROVE  Others(d, [d EXCEPT ![c] = v], c) /\ [d EXCEPT ![c] = v][c] = v
BY DEF Others

LEMMA SameIsOthers == ASSUME NEW d, DOMAIN d = Columns, NEW c PROVE Others(d, d, c)
BY DEF Others

FinalIn(d, c) ==
  CASE c = "proposals" -> FinalKeys(d).proposals
    [] c = "remote" -> FinalKeys(d).remote
    [] c = "rounds" -> FinalKeys(d).rounds
    [] c = "intervals" -> FinalKeys(d).intervals
    [] c \in {"parents", "feeds", "nodes", "actions"} -> {}
    [] OTHER -> DOMAIN d[c]

LEMMA OthersKeep ==
  ASSUME NEW d, TablesAre(d), NEW c \in Columns, NEW e, Others(d, e, c),
         RowsStay(d[c], e[c], FinalIn(d, c)),
         c = "intervals" => \A k \in DOMAIN e.intervals :
                              e.intervals[k] = [closed |-> e.intervals[k].closed]
  PROVE  Kept(d, e) /\ TablesAre(e)
<1>1. \A t \in Columns : t # c => e[t] = d[t]
  BY DEF Others
<1>2. ASSUME NEW t \in Columns PROVE RowsStay(d[t], e[t], FinalIn(d, t))
  <2>1. t # c => e[t] = d[t]
    BY <1>1
  <2>2. FinalIn(d, t) \subseteq DOMAIN d[t]
    BY DEF FinalIn, FinalKeys, Columns
  <2>3. t # c => RowsStay(d[t], e[t], FinalIn(d, t))
    BY <2>1, <2>2, SameRowsStay
  <2> QED
    BY <2>3
<1>3. Kept(d, e)
  <2>1. \A t \in Columns : RowsStay(d[t], e[t], FinalIn(d, t))
    BY <1>2
  <2>2. /\ FinalIn(d, "proposals") = FinalKeys(d).proposals
        /\ FinalIn(d, "remote") = FinalKeys(d).remote
        /\ FinalIn(d, "rounds") = FinalKeys(d).rounds
        /\ FinalIn(d, "intervals") = FinalKeys(d).intervals
    BY DEF FinalIn
  <2>3. \A t \in {"votes", "submissions", "deposits", "withdrawals", "slashings", "leaves",
                  "spent"} : FinalIn(d, t) = DOMAIN d[t]
    BY DEF FinalIn
  <2>4. /\ "proposals" \in Columns /\ "remote" \in Columns /\ "rounds" \in Columns
        /\ "intervals" \in Columns /\ "votes" \in Columns /\ "submissions" \in Columns
        /\ "deposits" \in Columns /\ "withdrawals" \in Columns /\ "slashings" \in Columns
        /\ "leaves" \in Columns /\ "spent" \in Columns
    BY DEF Columns
  <2> QED
    BY <2>1, <2>2, <2>3, <2>4 DEF Kept
<1>4. TablesAre(e)
  <2>1. DOMAIN e = Columns
    BY DEF Others
  <2>2. c # "intervals" => e.intervals = d.intervals
    BY <1>1 DEF Columns
  <2> QED
    BY <2>1, <2>2 DEF TablesAre
<1> QED
  BY <1>3, <1>4

(* The statements change nothing final. *)
Safe(d, e) == Kept(d, e) /\ TablesAre(e)

LEMMA SameSafe == ASSUME NEW d, TablesAre(d) PROVE Safe(d, d)
<1>1. Others(d, d, "parents") /\ "parents" \in Columns
  BY SameIsOthers DEF TablesAre, Columns
<1>2. RowsStay(d["parents"], d["parents"], FinalIn(d, "parents"))
  BY DEF FinalIn, RowsStay
<1> QED
  BY <1>1, <1>2, OthersKeep DEF Safe

LEMMA InsertSafe ==
  ASSUME NEW d, TablesAre(d), NEW c \in Columns, c # "intervals", NEW key, NEW row, NEW e,
         e = [d EXCEPT ![c] = InsertNew(d[c], key, row)]
  PROVE  Safe(d, e)
<1>1. Others(d, e, c) /\ e[c] = InsertNew(d[c], key, row)
  BY SetIsOthers DEF TablesAre
<1>2. FinalIn(d, c) \subseteq DOMAIN d[c]
  BY DEF FinalIn, FinalKeys, Columns
<1>3. RowsStay(d[c], e[c], FinalIn(d, c))
  BY <1>1, <1>2, InsertStays DEF RowsStay
<1> QED
  BY <1>1, <1>3, OthersKeep DEF Safe

LEMMA FreeSafe ==
  ASSUME NEW d, TablesAre(d), NEW c \in {"parents", "feeds", "nodes", "actions"}, NEW v, NEW e,
         e = [d EXCEPT ![c] = v]
  PROVE  Safe(d, e)
<1>1. c \in Columns /\ c # "intervals"
  BY DEF Columns
<1>2. Others(d, e, c)
  BY <1>1, SetIsOthers DEF TablesAre
<1>3. RowsStay(d[c], e[c], FinalIn(d, c))
  BY DEF FinalIn, RowsStay
<1> QED
  BY <1>1, <1>2, <1>3, OthersKeep DEF Safe

(* An update of a row that is not final. *)
LEMMA UpdateSafe ==
  ASSUME NEW d, TablesAre(d), NEW c \in Columns, c # "intervals", NEW key, NEW row, NEW e,
         key \notin FinalIn(d, c), e = [d EXCEPT ![c] = [d[c] EXCEPT ![key] = row]]
  PROVE  Safe(d, e)
<1>1. Others(d, e, c) /\ e[c] = [d[c] EXCEPT ![key] = row]
  BY SetIsOthers DEF TablesAre
<1>2. FinalIn(d, c) \subseteq DOMAIN d[c]
  BY DEF FinalIn, FinalKeys, Columns
<1>3. RowsStay(d[c], e[c], FinalIn(d, c))
  BY <1>1, <1>2 DEF RowsStay
<1> QED
  BY <1>1, <1>3, OthersKeep DEF Safe

VaultOps == {"UpsertAsset", "UpsertVault", "InsertVaultDeposit", "InsertVaultWithdrawal"}
ReceiverOps == {"InsertRemoteAction", "CloseRemoteActionExecuted", "CloseRemoteActionCancelled"}
RoundsOps ==
  {"UpsertOracleFeed", "EnsureOracleFeed", "DeactivateOracleFeed", "InsertOracleRound",
   "MarkOracleRoundQuorumMet", "SettleOracleRound", "FailOracleRound", "InsertOracleSubmission"}
StakingOps ==
  {"UpsertAsset", "UpsertOracleNode", "SetOracleNodeStake", "SetOracleNodeUnstake",
   "ClearOracleNodeUnstake", "SetOracleNodeActive", "SetOracleNodeInactive",
   "OpenOracleNodeInterval", "CloseOracleNodeInterval", "RecordOracleSlash"}
ZkOps ==
  {"UpsertZkGate", "InsertZkCommitment", "UpsertZkAction", "DeregisterZkAction",
   "InsertZkPrivateAction"}

LEMMA VaultSafe ==
  ASSUME NEW d, TablesAre(d), NEW op \in VaultOps, NEW ev
  PROVE  Safe(d, VaultStore(d, op, ev))
<1>1. CASE op = "UpsertAsset"
  BY <1>1, FreeSafe DEF VaultStore, UpsertAsset
<1>2. CASE op = "UpsertVault"
  BY <1>2, FreeSafe DEF VaultStore, UpsertVault
<1>3. CASE op = "InsertVaultDeposit"
  <2>1. "deposits" \in Columns
    BY DEF Columns
  <2> QED
    BY <1>3, <2>1, SameSafe, InsertSafe DEF VaultStore, InsertVaultDeposit
<1>4. CASE op = "InsertVaultWithdrawal"
  <2>1. "withdrawals" \in Columns
    BY DEF Columns
  <2> QED
    BY <1>4, <2>1, SameSafe, InsertSafe DEF VaultStore, InsertVaultWithdrawal
<1> QED
  BY <1>1, <1>2, <1>3, <1>4 DEF VaultOps

LEMMA ReceiverSafe ==
  ASSUME NEW d, TablesAre(d), NEW op \in ReceiverOps, NEW ev
  PROVE  Safe(d, GovernanceReceiverStore(d, op, ev))
<1>1. "remote" \in Columns
  BY DEF Columns
<1>2. ASSUME NEW status PROVE Safe(d, CloseRemoteAction(d, ev, status))
  <2>1. CASE ev.id \in DOMAIN d.remote /\ d.remote[ev.id].status = "pending"
    <3>1. ev.id \notin FinalIn(d, "remote")
      BY <2>1 DEF FinalIn, FinalKeys
    <3>2. CloseRemoteAction(d, ev, status) =
            [d EXCEPT !["remote"] = [d["remote"] EXCEPT ![ev.id] =
               [d.remote[ev.id] EXCEPT !.status = status]]]
      BY <2>1 DEF CloseRemoteAction
    <3> QED
      BY <1>1, <3>1, <3>2, UpdateSafe
  <2>2. CASE ~ (ev.id \in DOMAIN d.remote /\ d.remote[ev.id].status = "pending")
    BY <2>2, SameSafe DEF CloseRemoteAction
  <2> QED
    BY <2>1, <2>2
<1>3. CASE op = "InsertRemoteAction"
  BY <1>1, <1>3, InsertSafe DEF GovernanceReceiverStore, InsertRemoteAction
<1>4. CASE op = "CloseRemoteActionExecuted"
  BY <1>2, <1>4 DEF GovernanceReceiverStore
<1>5. CASE op = "CloseRemoteActionCancelled"
  BY <1>2, <1>5 DEF GovernanceReceiverStore
<1> QED
  BY <1>3, <1>4, <1>5 DEF ReceiverOps

LEMMA RoundsSafe ==
  ASSUME NEW d, TablesAre(d), NEW op \in RoundsOps, NEW ev
  PROVE  Safe(d, OracleRoundStore(d, op, ev))
<1>1. "rounds" \in Columns /\ "feeds" \in Columns /\ "submissions" \in Columns
  BY DEF Columns
<1>2. ASSUME NEW from, from \subseteq {"open", "quorum_met"}, NEW row
      PROVE  Safe(d, MoveRound(d, ev, from, row))
  <2>1. CASE ev.id \in DOMAIN d.rounds /\ d.rounds[ev.id].state \in from
    <3>1. ev.id \notin FinalIn(d, "rounds")
      BY <1>2, <2>1 DEF FinalIn, FinalKeys
    <3>2. \E r : MoveRound(d, ev, from, row) =
                   [d EXCEPT !["rounds"] = [d["rounds"] EXCEPT ![ev.id] = r]]
      BY <2>1 DEF MoveRound
    <3> QED
      BY <1>1, <3>1, <3>2, UpdateSafe
  <2>2. CASE ~ (ev.id \in DOMAIN d.rounds /\ d.rounds[ev.id].state \in from)
    BY <2>2, SameSafe DEF MoveRound
  <2> QED
    BY <2>1, <2>2
<1>3. CASE op = "UpsertOracleFeed"
  BY <1>3, FreeSafe DEF OracleRoundStore, UpsertOracleFeed
<1>4. CASE op = "EnsureOracleFeed"
  BY <1>4, FreeSafe DEF OracleRoundStore, EnsureOracleFeed
<1>5. CASE op = "DeactivateOracleFeed"
  BY <1>5, FreeSafe, SameSafe DEF OracleRoundStore, DeactivateOracleFeed
<1>6. CASE op = "InsertOracleRound"
  BY <1>1, <1>6, InsertSafe DEF OracleRoundStore, InsertOracleRound
<1>7. CASE op = "MarkOracleRoundQuorumMet"
  BY <1>2, <1>7 DEF OracleRoundStore, MarkOracleRoundQuorumMet
<1>8. CASE op = "SettleOracleRound"
  BY <1>2, <1>8 DEF OracleRoundStore, SettleOracleRound
<1>9. CASE op = "FailOracleRound"
  BY <1>2, <1>9 DEF OracleRoundStore, FailOracleRound
<1>10. CASE op = "InsertOracleSubmission"
  BY <1>1, <1>10, InsertSafe, SameSafe DEF OracleRoundStore, InsertOracleSubmission
<1> QED
  BY <1>3, <1>4, <1>5, <1>6, <1>7, <1>8, <1>9, <1>10 DEF RoundsOps

LEMMA ZkSafe ==
  ASSUME NEW d, TablesAre(d), NEW op \in ZkOps, NEW ev
  PROVE  Safe(d, ZkStore(d, op, ev))
<1>1. "leaves" \in Columns /\ "spent" \in Columns
  BY DEF Columns
<1>2. CASE op = "UpsertZkGate"
  BY <1>2, FreeSafe DEF ZkStore, UpsertZkGate
<1>3. CASE op = "InsertZkCommitment"
  BY <1>1, <1>3, InsertSafe, SameSafe DEF ZkStore, InsertZkCommitment
<1>4. CASE op = "UpsertZkAction"
  BY <1>4, FreeSafe DEF ZkStore, UpsertZkAction
<1>5. CASE op = "DeregisterZkAction"
  BY <1>5, FreeSafe, SameSafe DEF ZkStore, DeregisterZkAction
<1>6. CASE op = "InsertZkPrivateAction"
  BY <1>1, <1>6, InsertSafe, SameSafe DEF ZkStore, InsertZkPrivateAction
<1> QED
  BY <1>2, <1>3, <1>4, <1>5, <1>6 DEF ZkOps

LEMMA SafeTwice ==
  ASSUME NEW d, NEW e, NEW f, Safe(d, e), Safe(e, f)
  PROVE  Safe(d, f)
<1>1. Kept(d, e) /\ Kept(e, f) /\ TablesAre(f)
  BY DEF Safe
<1>2. RowsStay(d.proposals, f.proposals, FinalKeys(d).proposals)
  BY <1>1 DEF Kept, RowsStay, FinalKeys
<1>3. RowsStay(d.remote, f.remote, FinalKeys(d).remote)
  BY <1>1 DEF Kept, RowsStay, FinalKeys
<1>4. RowsStay(d.rounds, f.rounds, FinalKeys(d).rounds)
  BY <1>1 DEF Kept, RowsStay, FinalKeys
<1>5. RowsStay(d.intervals, f.intervals, FinalKeys(d).intervals)
  BY <1>1 DEF Kept, RowsStay, FinalKeys
<1>6. /\ RowsStay(d.votes, f.votes, DOMAIN d.votes)
      /\ RowsStay(d.submissions, f.submissions, DOMAIN d.submissions)
      /\ RowsStay(d.deposits, f.deposits, DOMAIN d.deposits)
      /\ RowsStay(d.withdrawals, f.withdrawals, DOMAIN d.withdrawals)
      /\ RowsStay(d.slashings, f.slashings, DOMAIN d.slashings)
      /\ RowsStay(d.leaves, f.leaves, DOMAIN d.leaves)
      /\ RowsStay(d.spent, f.spent, DOMAIN d.spent)
  BY <1>1 DEF Kept, RowsStay
<1> QED
  BY <1>1, <1>2, <1>3, <1>4, <1>5, <1>6 DEF Safe, Kept

(* The interval of a node is closed once: closing it again with the same   *)
(* version writes what is there.                                           *)
LEMMA IntervalSafe ==
  ASSUME NEW d, TablesAre(d), NEW ev
  PROVE  Safe(d, OpenOracleNodeInterval(d, ev)) /\ Safe(d, CloseOracleNodeInterval(d, ev))
<1>1. "intervals" \in Columns /\ DOMAIN d = Columns
  BY DEF Columns, TablesAre
<1>2. \A k \in DOMAIN d.intervals : d.intervals[k] = [closed |-> d.intervals[k].closed]
  BY DEF TablesAre
<1>3. ASSUME NEW v, NEW e, e = [d EXCEPT !["intervals"] = v],
             RowsStay(d.intervals, v, FinalKeys(d).intervals),
             \A k \in DOMAIN v : v[k] = [closed |-> v[k].closed]
      PROVE  Safe(d, e)
  <2>1. Others(d, e, "intervals") /\ e["intervals"] = v
    BY <1>1, <1>3, SetIsOthers
  <2>2. FinalIn(d, "intervals") = FinalKeys(d).intervals
    BY DEF FinalIn
  <2> QED
    BY <1>1, <1>3, <2>1, <2>2, OthersKeep DEF Safe
<1>4. Safe(d, OpenOracleNodeInterval(d, ev))
  <2> DEFINE v == InsertNew(d.intervals, <<ev.who, ev.id>>, [closed |-> 0])
  <2>1. OpenOracleNodeInterval(d, ev) = [d EXCEPT !["intervals"] = v]
    BY DEF OpenOracleNodeInterval
  <2>2. RowsStay(d.intervals, v, FinalKeys(d).intervals)
    BY InsertStays DEF RowsStay, FinalKeys
  <2>3. \A k \in DOMAIN v : v[k] = [closed |-> v[k].closed]
    BY <1>2 DEF InsertNew
  <2> HIDE DEF v
  <2> QED
    BY <1>3, <2>1, <2>2, <2>3
<1>5. Safe(d, CloseOracleNodeInterval(d, ev))
  <2> DEFINE began == {k \in DOMAIN d.intervals : k[1] = ev.who /\ k[2] < ev.id}
             last == <<ev.who, Max({k[2] : k \in began})>>
             v == [d.intervals EXCEPT ![last].closed = ev.id]
  <2>1. CloseOracleNodeInterval(d, ev) =
          IF began # {} /\ d.intervals[last].closed \in {0, ev.id}
            THEN [d EXCEPT !["intervals"] = v] ELSE d
    BY DEF CloseOracleNodeInterval
  <2> HIDE DEF began, last
  <2>2. CASE d.intervals[last].closed \in {0, ev.id}
    <3>1. DOMAIN v = DOMAIN d.intervals
      OBVIOUS
    <3>2. \A k \in DOMAIN d.intervals : k # last => v[k] = d.intervals[k]
      OBVIOUS
    <3>3. last \in DOMAIN d.intervals => v[last] = [closed |-> ev.id]
      <4>1. last \in DOMAIN d.intervals => v[last] = [d.intervals[last] EXCEPT !.closed = ev.id]
        OBVIOUS
      <4> QED
        BY <1>2, <4>1
    <3> HIDE DEF v
    <3>4. \A k \in DOMAIN v : v[k] = [closed |-> v[k].closed]
      BY <1>2, <3>1, <3>2, <3>3
    <3>5. RowsStay(d.intervals, v, FinalKeys(d).intervals)
      <4>1. ASSUME NEW k \in DOMAIN d.intervals, d.intervals[k].closed # 0
            PROVE  v[k] = d.intervals[k]
        <5>1. k = last => d.intervals[k].closed = ev.id
          BY <2>2, <4>1
        <5>2. k = last => d.intervals[k] = [closed |-> ev.id]
          BY <1>2, <5>1
        <5> QED
          BY <3>2, <3>3, <5>2
      <4> QED
        BY <3>1, <4>1 DEF RowsStay, FinalKeys
    <3>6. Safe(d, [d EXCEPT !["intervals"] = v])
      BY <1>3, <3>4, <3>5
    <3> QED
      BY <2>1, <3>6, SameSafe
  <2>3. CASE ~ (d.intervals[last].closed \in {0, ev.id})
    BY <2>1, <2>3, SameSafe
  <2> QED
    BY <2>2, <2>3
<1> QED
  BY <1>4, <1>5

LEMMA StakingSafe ==
  ASSUME NEW d, TablesAre(d), NEW op \in StakingOps, NEW ev
  PROVE  Safe(d, OracleNodeStore(d, op, ev))
<1>1. "slashings" \in Columns
  BY DEF Columns
<1>2. ASSUME NEW e, TablesAre(e) PROVE Safe(e, SetOracleNodeStake(e, ev))
  BY <1>2, FreeSafe, SameSafe DEF SetOracleNodeStake
<1>3. ASSUME NEW x PROVE Safe(d, SetOracleNodeUnstake(d, ev, x))
  BY FreeSafe, SameSafe DEF SetOracleNodeUnstake
<1>4. ASSUME NEW x PROVE Safe(d, SetOracleNodeActive(d, ev, x))
  BY FreeSafe, SameSafe DEF SetOracleNodeActive
<1>5. CASE op = "UpsertAsset"
  BY <1>5, FreeSafe DEF OracleNodeStore, UpsertAsset
<1>6. CASE op = "UpsertOracleNode"
  BY <1>6, FreeSafe DEF OracleNodeStore, UpsertOracleNode
<1>7. CASE op = "SetOracleNodeStake"
  BY <1>2, <1>7 DEF OracleNodeStore
<1>8. CASE op \in {"SetOracleNodeUnstake", "ClearOracleNodeUnstake"}
  BY <1>3, <1>8 DEF OracleNodeStore
<1>9. CASE op \in {"SetOracleNodeActive", "SetOracleNodeInactive"}
  BY <1>4, <1>9 DEF OracleNodeStore
<1>10. CASE op \in {"OpenOracleNodeInterval", "CloseOracleNodeInterval"}
  BY <1>10, IntervalSafe DEF OracleNodeStore
<1>11. CASE op = "RecordOracleSlash"
  <2> DEFINE e == IF From(d.slashings, ev) # {} THEN d
                  ELSE [d EXCEPT !.slashings =
                          InsertNew(@, <<ev.who, ev.id>>, [amount |-> ev.amount, at |-> ev.at])]
  <2>1. Safe(d, e)
    BY <1>1, SameSafe, InsertSafe
  <2>2. OracleNodeStore(d, op, ev) = SetOracleNodeStake(e, ev)
    BY <1>11 DEF OracleNodeStore, RecordOracleSlash
  <2> HIDE DEF e
  <2>3. Safe(e, SetOracleNodeStake(e, ev))
    BY <1>2, <2>1 DEF Safe
  <2> QED
    BY <2>1, <2>2, <2>3, SafeTwice
<1> QED
  BY <1>5, <1>6, <1>7, <1>8, <1>9, <1>10, <1>11 DEF StakingOps

---------------------------------------------------------------------------
(* The tallies: VotesOf is a sum over rows of the vote table. *)

VotesIn(d, p, s) == {v \in DOMAIN d.votes : v[1] = p /\ d.votes[v].support = s}

(* What VotesOf unfolds to. *)
AddsVotes(g, V, S) ==
  g = [t \in SUBSET S |-> IF t = {} THEN 0 ELSE V[SomeOf(t)].weight + g[t \ {SomeOf(t)}]]

LEMMA VotesOfIsSum ==
  ASSUME NEW d, IsFiniteSet(DOMAIN d.votes), NEW p, NEW s
  PROVE  VotesOf(d, p, s) = Sum([v \in DOMAIN d.votes |-> d.votes[v].weight], VotesIn(d, p, s))
<1> DEFINE V == d.votes
           S == VotesIn(d, p, s)
           F == [v \in DOMAIN d.votes |-> d.votes[v].weight]
           G == CHOOSE g : AddsVotes(g, V, S)
<1>1. VotesOf(d, p, s) = G[S]
  BY DEF VotesOf, MapThenSumSet, MapThenFoldSet, AddsVotes, SomeOf, VotesIn
<1>2. S \subseteq DOMAIN V /\ IsFiniteSet(S)
  BY FS_Subset DEF VotesIn
<1>3. \A v \in DOMAIN V : F[v] = V[v].weight
  OBVIOUS
<1> HIDE DEF V, S, F, G
<1>4. ASSUME NEW t \in SUBSET S, t # {} PROVE F[SomeOf(t)] = V[SomeOf(t)].weight
  BY <1>2, <1>3, <1>4, SomeOfIn
<1>5. ASSUME NEW g PROVE Adds(g, F, S) <=> AddsVotes(g, V, S)
  <2> DEFINE f == [t \in SUBSET S |-> IF t = {} THEN 0 ELSE F[SomeOf(t)] + g[t \ {SomeOf(t)}]]
             h == [t \in SUBSET S |->
                     IF t = {} THEN 0 ELSE V[SomeOf(t)].weight + g[t \ {SomeOf(t)}]]
  <2>1. f = h
    BY <1>4
  <2> QED
    BY <2>1 DEF Adds, AddsVotes
<1>6. \E g : AddsVotes(g, V, S)
  BY <1>2, <1>5, AddsExists
<1>7. Adds(G, F, S)
  BY <1>5, <1>6 DEF G
<1>8. \E g : Adds(g, F, S)
  BY <1>7
<1>9. Adds(CHOOSE g : Adds(g, F, S), F, S)
  BY <1>8
<1>10. G[S] = Sum(F, S)
  BY <1>2, <1>7, <1>9, AddsAgree DEF Sum
<1> QED
  BY <1>1, <1>10 DEF S, F

LEMMA VotesOfAgree ==
  ASSUME NEW d, IsFiniteSet(DOMAIN d.votes), NEW e, IsFiniteSet(DOMAIN e.votes), NEW p, NEW s,
         VotesIn(e, p, s) = VotesIn(d, p, s),
         \A v \in VotesIn(d, p, s) : e.votes[v] = d.votes[v]
  PROVE  VotesOf(e, p, s) = VotesOf(d, p, s)
<1> DEFINE F == [v \in DOMAIN d.votes |-> d.votes[v].weight]
           G == [v \in DOMAIN e.votes |-> e.votes[v].weight]
           S == VotesIn(d, p, s)
<1>1. S \subseteq DOMAIN d.votes /\ S \subseteq DOMAIN e.votes /\ IsFiniteSet(S)
  <2>1. VotesIn(d, p, s) \subseteq DOMAIN d.votes /\ VotesIn(e, p, s) \subseteq DOMAIN e.votes
    BY DEF VotesIn
  <2> QED
    BY <2>1, FS_Subset
<1>2. \A v \in S : F[v] = G[v]
  BY <1>1
<1>3. VotesOf(d, p, s) = Sum(F, S) /\ VotesOf(e, p, s) = Sum(G, S)
  BY VotesOfIsSum
<1> HIDE DEF F, G, S
<1> QED
  BY <1>1, <1>2, <1>3, SumAgree

LEMMA NoVotes ==
  ASSUME NEW d, IsFiniteSet(DOMAIN d.votes), NEW p, NEW s, VotesIn(d, p, s) = {}
  PROVE  VotesOf(d, p, s) = 0
<1> DEFINE F == [v \in DOMAIN d.votes |-> d.votes[v].weight]
<1>1. VotesOf(d, p, s) = Sum(F, {})
  BY VotesOfIsSum
<1> HIDE DEF F
<1>2. IsFiniteSet({})
  BY FS_EmptySet
<1> QED
  BY <1>1, <1>2, SumOfZeros

(* Every proposal carries the tally of the votes stored for it. *)
Tallied(d) ==
  /\ IsFiniteSet(DOMAIN d.votes)
  /\ \A k \in DOMAIN d.votes : k[1] \in DOMAIN d.proposals
  /\ \A p \in DOMAIN d.proposals :
       d.proposals[p] = [state |-> d.proposals[p].state, for |-> VotesOf(d, p, "for"),
                         against |-> VotesOf(d, p, "against")]

Closing == {"ProposalExecuted", "ProposalDispatched", "ProposalCancelled"}
ClosedStates == {"executed", "dispatched", "cancelled"}

ClosedIn(d) == {p \in DOMAIN d.proposals : d.proposals[p].state \in ClosedStates}

(* The vote of transaction i has been stored. *)
Stored(d, i) == \E k \in DOMAIN d.votes : d.votes[k].at = <<i, 1>>

(* What a statement of the governor's handler does to the tables.          *)
Governs(d, e) ==
  /\ TablesAre(e) /\ Tallied(e)
  /\ RowsStay(d.votes, e.votes, DOMAIN d.votes)
  /\ \A t \in Columns \ {"parents", "votes", "proposals"} : e[t] = d[t]

LEMMA GovernsKeeps ==
  ASSUME NEW d, TablesAre(d), NEW e, Governs(d, e),
         RowsStay(d.proposals, e.proposals, ClosedIn(d))
  PROVE  Safe(d, e)
<1>1. \A t \in {"remote", "rounds", "intervals", "submissions", "deposits", "withdrawals",
                 "slashings", "leaves", "spent"} : e[t] = d[t]
  BY DEF Governs, Columns
<1>2. RowsStay(d.proposals, e.proposals, FinalKeys(d).proposals)
  BY DEF FinalKeys, ClosedIn, ClosedStates
<1>3. /\ FinalKeys(d).remote \subseteq DOMAIN d.remote
      /\ FinalKeys(d).rounds \subseteq DOMAIN d.rounds
      /\ FinalKeys(d).intervals \subseteq DOMAIN d.intervals
  BY DEF FinalKeys
<1> QED
  BY <1>1, <1>2, <1>3, SameRowsStay DEF Safe, Kept, Governs

LEMMA StoredStays ==
  ASSUME NEW d, NEW e, RowsStay(d.votes, e.votes, DOMAIN d.votes), NEW i, Stored(d, i)
  PROVE  Stored(e, i)
BY DEF Stored, RowsStay

LEMMA SameVotes ==
  ASSUME NEW d, IsFiniteSet(DOMAIN d.votes), NEW e, e.votes = d.votes
  PROVE  \A p, s : VotesOf(e, p, s) = VotesOf(d, p, s)
<1> SUFFICES ASSUME NEW p, NEW s PROVE VotesOf(e, p, s) = VotesOf(d, p, s)
  OBVIOUS
<1>1. VotesIn(e, p, s) = VotesIn(d, p, s)
  BY DEF VotesIn
<1>2. \A v \in VotesIn(d, p, s) : e.votes[v] = d.votes[v]
  OBVIOUS
<1>3. IsFiniteSet(DOMAIN e.votes)
  OBVIOUS
<1> QED
  BY <1>1, <1>2, <1>3, VotesOfAgree

LEMMA ParentsGovern ==
  ASSUME NEW d, TablesAre(d), Tallied(d), NEW v, NEW e, e = [d EXCEPT !["parents"] = v]
  PROVE  Governs(d, e) /\ e.proposals = d.proposals
<1>1. "parents" \in Columns /\ "votes" \in Columns /\ "proposals" \in Columns
      /\ "intervals" \in Columns
  BY DEF Columns
<1>2. Others(d, e, "parents")
  BY <1>1, SetIsOthers DEF TablesAre
<1>3. e.votes = d.votes /\ e.proposals = d.proposals /\ e.intervals = d.intervals
  BY <1>1, <1>2 DEF Others
<1>4. Tallied(e)
  <2>1. IsFiniteSet(DOMAIN d.votes)
    BY DEF Tallied
  <2>2. \A p, s : VotesOf(e, p, s) = VotesOf(d, p, s)
    BY ONLY <1>3, <2>1, SameVotes
  <2>3. \A p \in DOMAIN d.proposals :
          d.proposals[p] = [state |-> d.proposals[p].state, for |-> VotesOf(e, p, "for"),
                            against |-> VotesOf(e, p, "against")]
    BY ONLY <2>2, Tallied(d) DEF Tallied
  <2>4. \A k \in DOMAIN e.votes : k[1] \in DOMAIN e.proposals
    BY ONLY <1>3, Tallied(d) DEF Tallied
  <2> QED
    BY ONLY <1>3, <2>1, <2>3, <2>4 DEF Tallied
<1>5. TablesAre(e)
  BY <1>2, <1>3 DEF TablesAre, Others
<1>6. RowsStay(d.votes, e.votes, DOMAIN d.votes)
  BY <1>3, SameRowsStay
<1> QED
  BY <1>2, <1>3, <1>4, <1>5, <1>6 DEF Governs, Others

LEMMA ProposalGoverns ==
  ASSUME NEW d, TablesAre(d), Tallied(d), NEW ev, NEW e, e = InsertGovernanceProposal(d, ev)
  PROVE  /\ Governs(d, e)
         /\ RowsStay(d.proposals, e.proposals, DOMAIN d.proposals)
         /\ ClosedIn(e) \subseteq ClosedIn(d)
<1> DEFINE row == [state |-> "pending", for |-> 0, against |-> 0]
           t == InsertNew(d.proposals, ev.id, row)
<1>1. "votes" \in Columns /\ "proposals" \in Columns /\ "intervals" \in Columns
  BY DEF Columns
<1>2. e = [d EXCEPT !["proposals"] = t]
  BY DEF InsertGovernanceProposal
<1>3. RowsStay(d.proposals, t, DOMAIN d.proposals)
  BY InsertStays
<1>4. /\ DOMAIN t = DOMAIN d.proposals \union {ev.id}
      /\ ev.id \notin DOMAIN d.proposals => t[ev.id] = row
  BY DEF InsertNew
<1>5. row.state = "pending" /\ row = [state |-> row.state, for |-> 0, against |-> 0]
  OBVIOUS
<1> HIDE DEF t, row
<1>6. Others(d, e, "proposals") /\ e.proposals = t
  BY <1>1, <1>2, SetIsOthers, ZenonT(60) DEF TablesAre
<1>7. e.votes = d.votes /\ e.intervals = d.intervals
  BY <1>1, <1>6 DEF Others
<1>8. \A p, s : VotesOf(e, p, s) = VotesOf(d, p, s)
  BY <1>7, SameVotes DEF Tallied
<1>9. ASSUME NEW p \in DOMAIN t
      PROVE  t[p] = [state |-> t[p].state, for |-> VotesOf(e, p, "for"),
                     against |-> VotesOf(e, p, "against")]
  <2>1. CASE p \in DOMAIN d.proposals
    <3>1. t[p] = d.proposals[p]
      BY <1>3, <2>1 DEF RowsStay
    <3> QED
      BY <1>8, <2>1, <3>1 DEF Tallied
  <2>2. CASE p \notin DOMAIN d.proposals
    <3>1. p = ev.id /\ t[p] = row
      BY <1>4, <2>2
    <3>2. \A s : VotesIn(d, p, s) = {}
      BY <2>2 DEF Tallied, VotesIn
    <3>3. VotesOf(d, p, "for") = 0 /\ VotesOf(d, p, "against") = 0
      BY <3>2, NoVotes DEF Tallied
    <3> QED
      BY <1>5, <1>8, <3>1, <3>3
  <2> QED
    BY <2>1, <2>2
<1>10. Tallied(e)
  BY <1>4, <1>6, <1>7, <1>9 DEF Tallied
<1>11. TablesAre(e)
  BY <1>6, <1>7 DEF TablesAre, Others
<1>12. RowsStay(d.votes, e.votes, DOMAIN d.votes)
  BY <1>7, SameRowsStay
<1>13. ClosedIn(e) \subseteq ClosedIn(d)
  <2>1. ASSUME NEW p \in ClosedIn(e) PROVE p \in ClosedIn(d)
    <3>1. p \in DOMAIN t /\ t[p].state \in ClosedStates
      BY <1>6, <2>1 DEF ClosedIn
    <3>2. p \in DOMAIN d.proposals
      BY <1>4, <1>5, <3>1 DEF ClosedStates
    <3> QED
      BY <1>3, <3>1, <3>2 DEF RowsStay, ClosedIn
  <2> QED
    BY <2>1
<1> QED
  BY <1>3, <1>6, <1>10, <1>11, <1>12, <1>13 DEF Governs, Others

(* A vote is stored, and only the proposal it is for is tallied again.  A  *)
(* vote that is there already changes nothing.                             *)
StoresVote(d, ev, e) ==
  /\ Governs(d, e)
  /\ \E k \in DOMAIN e.votes : e.votes[k].at = ev.at
  /\ ClosedIn(e) \subseteq ClosedIn(d)
  /\ From(d.votes, ev) # {} => RowsStay(d.proposals, e.proposals, DOMAIN d.proposals)
  /\ ev.id \notin ClosedIn(d) => RowsStay(d.proposals, e.proposals, ClosedIn(d))

LEMMA VoteGoverns ==
  ASSUME NEW d, TablesAre(d), Tallied(d), NEW ev, NEW e, e = InsertGovernanceVote(d, ev),
         ~ GovernanceRefused(d, "InsertGovernanceVote", ev)
  PROVE  StoresVote(d, ev, e)
<1> DEFINE key == <<ev.id, ev.who>>
           row == [support |-> ev.support, weight |-> ev.weight, at |-> ev.at]
           m == InsertVote(d, ev)
           V == m.votes
           P == d.proposals
           p0 == ev.id
<1>1. "votes" \in Columns /\ "proposals" \in Columns /\ "intervals" \in Columns
      /\ DOMAIN d = Columns
  BY DEF Columns, TablesAre
<1>2. /\ p0 \in DOMAIN P
      /\ From(d.votes, ev) = {} => ~ (key \in DOMAIN d.votes /\ d.votes[key].at # ev.at)
  BY DEF GovernanceRefused, New, Taken
<1>3. From(d.votes, ev) = {} => key \notin DOMAIN d.votes
  BY <1>2 DEF From
<1>4. /\ Others(d, m, "votes")
      /\ From(d.votes, ev) # {} => m = d
      /\ From(d.votes, ev) = {} => V = InsertNew(d.votes, key, row)
  <2>1. From(d.votes, ev) # {} => m = d
    BY DEF InsertVote
  <2>2. From(d.votes, ev) = {} => m = [d EXCEPT !["votes"] = InsertNew(d.votes, key, row)]
    BY DEF InsertVote
  <2> HIDE DEF m, row, key
  <2> QED
    BY <1>1, <2>1, <2>2, SetIsOthers, SameIsOthers
<1>5. m.proposals = P /\ m.intervals = d.intervals /\ DOMAIN m = Columns
  BY <1>1, <1>4 DEF Others
<1>6. key[1] = p0 /\ row.at = ev.at
  OBVIOUS
<1> HIDE DEF key, row, V, m
<1>7. /\ RowsStay(d.votes, V, DOMAIN d.votes)
      /\ DOMAIN V \subseteq DOMAIN d.votes \union {key}
      /\ From(d.votes, ev) = {} => key \in DOMAIN V /\ V[key] = row
  BY <1>3, <1>4, SameRowsStay DEF V, RowsStay, InsertNew
<1>8. \E k \in DOMAIN V : V[k].at = ev.at
  <2>1. CASE From(d.votes, ev) = {}
    BY <1>6, <1>7, <2>1
  <2>2. CASE From(d.votes, ev) # {}
    BY <1>7, <2>2 DEF From, RowsStay
  <2> QED
    BY <2>1, <2>2
<1>9. IsFiniteSet(DOMAIN V)
  <2>1. IsFiniteSet(DOMAIN d.votes \union {key})
    BY FS_AddElement DEF Tallied
  <2> QED
    BY <1>7, <2>1, FS_Subset
<1> DEFINE new == [state |-> P[p0].state, for |-> VotesOf(m, p0, "for"),
                   against |-> VotesOf(m, p0, "against")]
<1>10. e = [m EXCEPT !["proposals"] = [P EXCEPT ![p0] = new]]
  <2>1. e = RetallyProposal(m, p0)
    BY DEF InsertGovernanceVote, m
  <2>2. e = [m EXCEPT !["proposals"] =
              [P EXCEPT ![p0] = [[P[p0] EXCEPT !.for = VotesOf(m, p0, "for")]
                                   EXCEPT !.against = VotesOf(m, p0, "against")]]]
    BY <1>2, <1>5, <2>1 DEF RetallyProposal
  <2>3. P[p0] = [state |-> P[p0].state, for |-> VotesOf(d, p0, "for"),
                 against |-> VotesOf(d, p0, "against")]
    BY <1>2 DEF Tallied
  <2>4. [[P[p0] EXCEPT !.for = VotesOf(m, p0, "for")]
                EXCEPT !.against = VotesOf(m, p0, "against")] = new
    <3>1. \E r, x, y : r = P[p0] /\ x = VotesOf(m, p0, "for") /\ y = VotesOf(m, p0, "against")
      OBVIOUS
    <3>2. PICK r, x, y : r = P[p0] /\ x = VotesOf(m, p0, "for") /\ y = VotesOf(m, p0, "against")
      BY <3>1
    <3>3. r = [state |-> r.state, for |-> VotesOf(d, p0, "for"),
               against |-> VotesOf(d, p0, "against")]
      BY <2>3, <3>2
    <3>4. [[r EXCEPT !.for = x] EXCEPT !.against = y]
            = [state |-> r.state, for |-> x, against |-> y]
      <4>1. [r EXCEPT !.for = x] = [state |-> r.state, for |-> x,
                                    against |-> VotesOf(d, p0, "against")]
        BY <3>3
      <4> DEFINE q == [r EXCEPT !.for = x]
      <4>2. q = [state |-> r.state, for |-> x, against |-> VotesOf(d, p0, "against")]
        BY <4>1
      <4> HIDE DEF q
      <4>3. [q EXCEPT !.against = y] = [state |-> r.state, for |-> x, against |-> y]
        BY ONLY <4>2
      <4> QED
        BY ONLY <4>3 DEF q
    <3> QED
      BY <3>2, <3>4
  <2> QED
    BY <2>2, <2>4
<1>11. new.state = P[p0].state
  OBVIOUS
<1> HIDE DEF new
<1>12. /\ Others(m, e, "proposals") /\ e.proposals = [P EXCEPT ![p0] = new]
  <2> DEFINE T == [P EXCEPT ![p0] = new]
  <2>1. e = [m EXCEPT !["proposals"] = T]
    BY <1>10
  <2> HIDE DEF T
  <2>2. Others(m, e, "proposals") /\ e.proposals = T
    <3>1. Others(m, e, "proposals") /\ e["proposals"] = T
      BY ONLY <1>1, <1>5, <2>1, SetIsOthers
    <3> QED
      BY <3>1
  <2> QED
    BY <2>2 DEF T
<1> HIDE DEF P
<1>13. e.votes = V /\ e.intervals = d.intervals /\ DOMAIN e = Columns
       /\ \A t \in Columns \ {"parents", "votes", "proposals"} : e[t] = d[t]
  BY <1>1, <1>4, <1>5, <1>12 DEF Others, V
<1>14. /\ DOMAIN e.proposals = DOMAIN P /\ e.proposals[p0] = new
       /\ \A p \in DOMAIN P : p # p0 => e.proposals[p] = P[p]
  BY <1>2, <1>12
<1>15. \A s : VotesOf(e, p0, s) = VotesOf(m, p0, s)
  BY <1>9, <1>13, SameVotes DEF V
<1>16. ASSUME NEW p, p # p0, NEW s PROVE VotesOf(e, p, s) = VotesOf(d, p, s)
  <2>1. VotesIn(e, p, s) = VotesIn(d, p, s)
    BY <1>6, <1>7, <1>13, <1>16 DEF VotesIn, RowsStay
  <2>2. \A v \in VotesIn(d, p, s) : e.votes[v] = d.votes[v]
    BY <1>7, <1>13 DEF VotesIn, RowsStay
  <2>3. IsFiniteSet(DOMAIN d.votes) /\ IsFiniteSet(DOMAIN e.votes)
    BY <1>9, <1>13 DEF Tallied
  <2> QED
    BY <2>1, <2>2, <2>3, VotesOfAgree
<1>17. Tallied(e)
  <2>1. \A k \in DOMAIN e.votes : k[1] \in DOMAIN e.proposals
    BY <1>2, <1>6, <1>7, <1>13, <1>14 DEF Tallied, P
  <2>2. ASSUME NEW p \in DOMAIN e.proposals
        PROVE  e.proposals[p] = [state |-> e.proposals[p].state, for |-> VotesOf(e, p, "for"),
                                 against |-> VotesOf(e, p, "against")]
    <3>1. CASE p = p0
      BY <1>11, <1>14, <1>15, <3>1 DEF new
    <3>2. CASE p # p0
      BY <1>14, <1>16, <3>2 DEF Tallied, P
    <3> QED
      BY <3>1, <3>2
  <2> QED
    BY <1>9, <1>13, <2>1, <2>2 DEF Tallied
<1>18. Governs(d, e)
  BY <1>7, <1>13, <1>17 DEF Governs, TablesAre
<1>19. ClosedIn(e) \subseteq ClosedIn(d)
  BY <1>11, <1>14 DEF ClosedIn, P
<1>20. From(d.votes, ev) # {} => RowsStay(d.proposals, e.proposals, DOMAIN d.proposals)
  <2>1. ASSUME From(d.votes, ev) # {} PROVE new = P[p0]
    <3>1. m = d
      BY <1>4, <2>1
    <3> QED
      BY <1>2, <3>1 DEF new, Tallied, P
  <2> QED
    BY <1>14, <2>1 DEF RowsStay, P
<1>21. p0 \notin ClosedIn(d) => RowsStay(d.proposals, e.proposals, ClosedIn(d))
  BY <1>14 DEF RowsStay, ClosedIn, P
<1> QED
  BY <1>8, <1>13, <1>18, <1>19, <1>20, <1>21 DEF StoresVote

LEMMA MarkGoverns ==
  ASSUME NEW d, TablesAre(d), Tallied(d), NEW ev, NEW state, NEW e,
         e = MarkProposal(d, ev, state),
         ev.id \in ClosedIn(d) => d.proposals[ev.id].state \notin MayLeave(state)
  PROVE  /\ Governs(d, e)
         /\ RowsStay(d.proposals, e.proposals, ClosedIn(d))
         /\ \A p \in ClosedIn(e) :
              p \in ClosedIn(d)
              \/ (p = ev.id /\ state \in ClosedStates /\ e.proposals[p].state = state)
<1> DEFINE P == d.proposals
           new == [state |-> state, for |-> VotesOf(d, ev.id, "for"),
                   against |-> VotesOf(d, ev.id, "against")]
<1>1. "votes" \in Columns /\ "proposals" \in Columns /\ "intervals" \in Columns
      /\ DOMAIN d = Columns
  BY DEF Columns, TablesAre
<1>2. CASE e = d
  BY <1>2, SameRowsStay DEF Governs, ClosedIn
<1>3. CASE e # d
  <2>1. ev.id \in DOMAIN P /\ e = [d EXCEPT !["proposals"] = [P EXCEPT ![ev.id] =
                                       [P[ev.id] EXCEPT !.state = state]]]
    BY <1>3 DEF MarkProposal
  <2>2. [P[ev.id] EXCEPT !.state = state] = new
    <3>1. P[ev.id] = [state |-> P[ev.id].state, for |-> VotesOf(d, ev.id, "for"),
                      against |-> VotesOf(d, ev.id, "against")]
      BY <2>1 DEF Tallied
    <3> QED
      BY <3>1
  <2>3. e = [d EXCEPT !["proposals"] = [P EXCEPT ![ev.id] = new]]
    BY <2>1, <2>2
  <2>4. new.state = state
    OBVIOUS
  <2> HIDE DEF new
  <2>5. Others(d, e, "proposals") /\ e.proposals = [P EXCEPT ![ev.id] = new]
    <3> DEFINE T == [P EXCEPT ![ev.id] = new]
    <3>1. e = [d EXCEPT !["proposals"] = T]
      BY <2>3
    <3> HIDE DEF T
    <3>2. Others(d, e, "proposals") /\ e.proposals = T
      BY <1>1, <3>1, SetIsOthers
    <3> QED
      BY <3>2 DEF T
  <2> HIDE DEF P
  <2>6. e.votes = d.votes /\ e.intervals = d.intervals
    BY <1>1, <2>5 DEF Others
  <2>7. /\ DOMAIN e.proposals = DOMAIN P /\ e.proposals[ev.id] = new
        /\ \A p \in DOMAIN P : p # ev.id => e.proposals[p] = P[p]
    BY <2>1, <2>5
  <2>8. \A p, s : VotesOf(e, p, s) = VotesOf(d, p, s)
    BY <2>6, SameVotes DEF Tallied
  <2>9. Tallied(e)
    <3>1. ASSUME NEW p \in DOMAIN e.proposals
          PROVE  e.proposals[p] = [state |-> e.proposals[p].state, for |-> VotesOf(e, p, "for"),
                                   against |-> VotesOf(e, p, "against")]
      <4>1. CASE p = ev.id
        BY <2>4, <2>7, <2>8, <4>1 DEF new
      <4>2. CASE p # ev.id
        BY <2>7, <2>8, <4>2 DEF Tallied, P
      <4> QED
        BY <4>1, <4>2
    <3> QED
      BY <2>6, <2>7, <3>1 DEF Tallied, P
  <2>10. Governs(d, e)
    BY <2>5, <2>6, <2>9, SameRowsStay DEF Governs, TablesAre, Others
  <2>11. RowsStay(d.proposals, e.proposals, ClosedIn(d))
    <3>1. ev.id \notin ClosedIn(d)
      BY <1>3 DEF MarkProposal
    <3>2. \A p \in ClosedIn(d) : p \in DOMAIN P /\ p # ev.id
      BY <3>1 DEF ClosedIn, P
    <3> QED
      BY <2>7, <3>2 DEF RowsStay, P
  <2>12. \A p \in ClosedIn(e) :
           p \in ClosedIn(d)
           \/ (p = ev.id /\ state \in ClosedStates /\ e.proposals[p].state = state)
    BY <2>4, <2>7 DEF ClosedIn, P
  <2> QED
    BY <2>10, <2>11, <2>12
<1> QED
  BY <1>2, <1>3

---------------------------------------------------------------------------
(* Part 4: the indexer: the governor's transactions.                     *)

(* The governor's ledger. *)

(* The state the event of this name leaves a proposal in. *)
StateOf(name) ==
  CASE name = "ProposalExecuted" -> "executed"
    [] name = "ProposalDispatched" -> "dispatched"
    [] name = "ProposalCancelled" -> "cancelled"
    [] OTHER -> "queued"

GovernorEntry(x, I) ==
  /\ x.ok = TRUE /\ x.events = <<x.events[1]>>
  /\ {"name", "id"} \subseteq DOMAIN x.events[1]
  /\ x.events[1].id \in I /\ x.events[1].name \in GovernanceFilters
  /\ "state" \in DOMAIN x.post /\ DOMAIN x.post.state = I

(* Transaction i of L is about a proposal, and this is what it does to it. *)
About(L, i) == L[i].events[1].id
Does(L, i) == L[i].events[1].name

(* One event a transaction, and none about a proposal after it was closed. *)
Governed(L, I) ==
  /\ \A i \in 1..Len(L) : GovernorEntry(L[i], I)
  /\ \A i, j \in 1..Len(L) : i <= j /\ Does(L, i) \in Closing =>
       /\ L[j].post.state[About(L, i)] \in ClosedStates
       /\ i < j => About(L, j) # About(L, i)

(* What a call of the governor adds, to the storage s. *)
GovernorAdds(x, s, I) ==
  /\ GovernorEntry(x, I)
  /\ s.state[x.events[1].id] \notin ClosedStates
  /\ \A p \in I : p # x.events[1].id => x.post.state[p] = s.state[p]
  /\ x.events[1].name \in Closing => x.post.state[x.events[1].id] \in ClosedStates

LEMMA GovernedGrows ==
  ASSUME NEW L, IsSeq(L), NEW I, Governed(L, I), NEW x, NEW s, GovernorAdds(x, s, I),
         L # <<>> => s = L[Len(L)].post,
         NEW M, IsSeq(M), Len(M) = Len(L) + 1, M[Len(L) + 1] = x,
         \A i \in 1..Len(L) : M[i] = L[i]
  PROVE  Governed(M, I)
<1> DEFINE N == Len(L)
<1>1. N \in Nat /\ (N # 0 => L # <<>>) /\ (L # <<>> => N # 0)
  <2>1. PICK R : L \in Seq(R)
    BY DEF IsSeq
  <2> QED
    BY <2>1, EmptySeq
<1>2. Len(M) = N + 1 /\ M[N + 1] = x /\ \A i \in 1..N : M[i] = L[i]
  OBVIOUS
<1>3. \A i \in 1..(N + 1) : i \in 1..N \/ i = N + 1
  BY <1>1
<1>4. N # 0 => s = L[N].post /\ N \in 1..N
  BY <1>1
<1>5. \A i \in 1..N : GovernorEntry(L[i], I)
  BY DEF Governed
<1>6. \A i, j \in 1..N : i <= j /\ Does(L, i) \in Closing =>
        /\ L[j].post.state[About(L, i)] \in ClosedStates
        /\ i < j => About(L, j) # About(L, i)
  BY DEF Governed
<1> HIDE DEF N
<1>7. \A i \in 1..(N + 1) : GovernorEntry(M[i], I)
  BY <1>2, <1>3, <1>5 DEF GovernorAdds
<1>8. ASSUME NEW i \in 1..(N + 1), NEW j \in 1..(N + 1), i <= j, Does(M, i) \in Closing
      PROVE  /\ M[j].post.state[About(M, i)] \in ClosedStates
             /\ i < j => About(M, j) # About(M, i)
  <2>1. CASE j \in 1..N
    <3>1. i \in 1..N
      BY <1>1, <1>8, <2>1
    <3>2. M[i] = L[i] /\ M[j] = L[j]
      BY <1>2, <2>1, <3>1
    <3> QED
      BY <1>6, <1>8, <2>1, <3>1, <3>2 DEF Does, About
  <2>2. CASE i = N + 1 /\ j = N + 1
    <3>1. M[i] = x /\ M[j] = x /\ ~ (i < j)
      BY <1>1, <1>2, <2>2
    <3> QED
      BY <1>8, <3>1 DEF GovernorAdds, Does, About
  <2>3. CASE i \in 1..N /\ j = N + 1
    <3>1. N # 0 /\ i <= N
      BY <1>1, <2>3
    <3>2. M[i] = L[i] /\ M[j] = x
      BY <1>2, <2>3
    <3>3. L[N].post.state[About(L, i)] \in ClosedStates /\ About(L, i) = About(M, i)
      BY <1>4, <1>6, <1>8, <2>3, <3>1, <3>2 DEF Does, About
    <3>4. s.state[About(M, i)] \in ClosedStates /\ About(M, i) \in I
      <4>1. GovernorEntry(L[i], I)
        BY <1>5, <2>3
      <4> QED
        BY <1>4, <3>1, <3>3, <4>1 DEF GovernorEntry, About
    <3>5. About(M, j) = x.events[1].id
      BY <3>2 DEF About
    <3>6. About(M, j) # About(M, i)
      BY <3>4, <3>5 DEF GovernorAdds
    <3>7. M[j].post.state[About(M, i)] = s.state[About(M, i)]
      BY <3>2, <3>4, <3>5, <3>6 DEF GovernorAdds
    <3> QED
      BY <3>4, <3>6, <3>7
  <2> QED
    BY <1>3, <2>1, <2>2, <2>3
<1> QED
  BY <1>2, <1>7, <1>8 DEF Governed

LEMMA GovernedShrinks ==
  ASSUME NEW L, NEW I, Governed(L, I), NEW M, Len(M) \in Nat, Len(L) \in Nat,
         Len(M) <= Len(L), \A i \in 1..Len(M) : M[i] = L[i]
  PROVE  Governed(M, I)
<1>1. \A i \in 1..Len(M) : i \in 1..Len(L)
  OBVIOUS
<1>2. \A i \in 1..Len(M) : GovernorEntry(M[i], I)
  BY <1>1 DEF Governed
<1>3. \A i, j \in 1..Len(M) : i <= j /\ Does(M, i) \in Closing =>
        /\ M[j].post.state[About(M, i)] \in ClosedStates
        /\ i < j => About(M, j) # About(M, i)
  BY <1>1 DEF Governed, Does, About
<1> QED
  BY <1>2, <1>3 DEF Governed

(* What every step of the chain keeps. *)
Grows(L, M, b) ==
  \E m \in 0..Len(L) :
    /\ m <= Len(M)
    /\ \A i \in 1..m : M[i] = L[i]
    /\ \A i \in 1..Len(L) : L[i].slot <= b => i <= m
    /\ \A i \in 1..Len(M) : M[i].slot <= b => i <= m

(* The final blocks stay as they are. *)
LEMMA FinalBlocksStay ==
  ASSUME ChainTyped, ChainNext
  PROVE  Grows(ledger, ledger', final)
<1> DEFINE N == Len(ledger)
<1>1. PICK R : ledger \in Seq(R)
  BY DEF ChainTyped, Readable
<1>2. N \in Nat /\ DOMAIN ledger = 1..N /\ final \in Nat
  BY <1>1 DEF ChainTyped
<1>3. CASE ContractCall
  <2>1. PICK tx : Append1(tx) /\ {"slot", "events"} \subseteq DOMAIN tx
    BY <1>3, ContractCallJoins DEF Joined1
  <2>2. PICK slot \in {head, head + 1} :
          slot > final /\ ledger' = Append(ledger, [tx EXCEPT !.slot = slot])
    BY <2>1 DEF Append1
  <2> DEFINE e == [tx EXCEPT !.slot = slot]
  <2>3. e.slot = slot
    BY <2>1
  <2> HIDE DEF e
  <2>4. /\ Len(ledger') = N + 1 /\ ledger'[N + 1] = e
        /\ \A i \in 1..N : ledger'[i] = ledger[i]
    <3>1. ledger \in Seq(R \union {e})
      BY <1>1, SeqMonotonic
    <3> QED
      BY <2>2, <3>1, AppendProperties DEF e
  <2>5. ~ (slot <= final)
    <3>1. slot \in Nat
      BY <2>2 DEF ChainTyped
    <3> QED
      BY <1>2, <2>2, <3>1
  <2>6. \A i \in 1..(N + 1) : ledger'[i].slot <= final => i <= N
    BY <1>2, <2>3, <2>4, <2>5
  <2>7. N \in 0..N /\ N <= N + 1 /\ \A i \in 1..N : i <= N
    BY <1>2
  <2> HIDE DEF N
  <2> QED
    BY <2>4, <2>6, <2>7 DEF Grows, N
<1>4. CASE EmptyBlock
  <2>1. ledger' = ledger
    BY <1>4 DEF EmptyBlock
  <2>2. N \in 0..N /\ N <= N /\ \A i \in 1..N : i <= N
    BY <1>2
  <2> QED
    BY <2>1, <2>2 DEF Grows
<1>5. CASE Reorg
  <2>1. PICK kept \in final..(head - 1), n \in 0..N :
          /\ \A i \in DOMAIN ledger : ledger[i].slot <= kept <=> i <= n
          /\ ledger' = SubSeq(ledger, 1, n)
    BY <1>5 DEF Reorg
  <2>2. Len(ledger') = n /\ \A i \in 1..n : ledger'[i] = ledger[i]
    BY <1>1, <2>1
  <2>3. \A i \in 1..N : ledger[i].slot <= final => i <= n
    <3>1. \A i \in 1..N : ledger[i].slot \in Nat
      BY DEF ChainTyped, Readable
    <3>2. kept \in Nat /\ final <= kept
      BY <1>2, <2>1 DEF ChainTyped
    <3> QED
      BY <1>2, <2>1, <3>1, <3>2
  <2>4. n <= n /\ \A i \in 1..n : i <= n
    BY <2>1
  <2> QED
    BY <2>1, <2>2, <2>3, <2>4 DEF Grows
<1> QED
  BY <1>3, <1>4, <1>5 DEF ChainNext

---------------------------------------------------------------------------
(* What a call of the governor does to its storage s. *)
GovernorCalls(e, post, s, I) ==
  /\ {"name", "id"} \subseteq DOMAIN e /\ e.id \in I /\ e.name \in GovernanceFilters
  /\ "state" \in DOMAIN post /\ DOMAIN post.state = I
  /\ s.state[e.id] \notin ClosedStates
  /\ \A p \in I : p # e.id => post.state[p] = s.state[p]
  /\ e.name \in Closing => post.state[e.id] \in ClosedStates

LEMMA StateSet ==
  ASSUME NEW s, "state" \in DOMAIN s, NEW I, DOMAIN s.state = I, NEW p \in I, NEW v, NEW post,
         \/ post = [s EXCEPT !.state[p] = v]
         \/ \E w : post = [s EXCEPT !.state[p] = v, !.remote[p] = w]
  PROVE  /\ "state" \in DOMAIN post /\ DOMAIN post.state = I
         /\ post.state[p] = v
         /\ \A q \in I : q # p => post.state[q] = s.state[q]
<1>1. CASE post = [s EXCEPT !.state[p] = v]
  BY <1>1
<1>2. CASE \E w : post = [s EXCEPT !.state[p] = v, !.remote[p] = w]
  <2>1. PICK w : post = [s EXCEPT !.state[p] = v, !.remote[p] = w]
    BY <1>2
  <2> DEFINE q == [s EXCEPT !.state[p] = v]
  <2>2. "state" \in DOMAIN q /\ q.state = [s.state EXCEPT ![p] = v]
    OBVIOUS
  <2>3. post = [q EXCEPT !.remote[p] = w]
    BY <2>1
  <2> HIDE DEF q
  <2>4. DOMAIN post = DOMAIN q /\ post.state = q.state
    BY <2>3
  <2> QED
    BY <2>2, <2>4
<1> QED
  BY <1>1, <1>2

LEMMA GovernorCallIs ==
  ASSUME contract = "governor", ContractCall,
         "state" \in DOMAIN Storage, DOMAIN Storage.state = Ids
  PROVE  \E e, post : Call(<<e>>, post) /\ GovernorCalls(e, post, Storage, Ids)
<1> DEFINE s == Storage
           I == Ids
<1>0. "state" \in DOMAIN s /\ DOMAIN s.state = I
  OBVIOUS
<1>1. CASE Propose
  <2>1. PICK p \in I, remote \in BOOLEAN :
          /\ s.state[p] = "none"
          /\ Call(<<[name |-> "ProposalCreated", id |-> p]>>,
                  [s EXCEPT !.state[p] = "pending", !.remote[p] = remote])
    BY <1>1 DEF Propose
  <2> DEFINE e == [name |-> "ProposalCreated", id |-> p]
             post == [s EXCEPT !.state[p] = "pending", !.remote[p] = remote]
  <2>2. Call(<<e>>, post)
    BY <2>1
  <2>3. DOMAIN e = {"name", "id"} /\ e.id = p /\ e.name = "ProposalCreated"
    OBVIOUS
  <2>4. \E w : post = [s EXCEPT !.state[p] = "pending", !.remote[p] = w]
    OBVIOUS
  <2> HIDE DEF e, post, s, I
  <2>5. /\ "state" \in DOMAIN post /\ DOMAIN post.state = I
        /\ \A q \in I : q # p => post.state[q] = s.state[q]
    BY ONLY <1>0, <2>1, <2>4, StateSet, ZenonT(60)
  <2>6. GovernorCalls(e, post, s, I)
    BY <2>1, <2>3, <2>5 DEF GovernorCalls, GovernanceFilters, ClosedStates, Closing
  <2> QED
    BY <2>2, <2>6 DEF s, I
<1>2. CASE CastVote
  <2>1. PICK p \in I, v \in Accounts, support \in {"for", "against"} :
          /\ s.state[p] = "pending"
          /\ Call(<<[name |-> "VoteCast", id |-> p, who |-> v,
                     support |-> support, weight |-> Weight[v]]>>,
                  [s EXCEPT !.cast = With(@, <<p, v>>, support)])
    BY <1>2 DEF CastVote
  <2> DEFINE e == [name |-> "VoteCast", id |-> p, who |-> v,
                   support |-> support, weight |-> Weight[v]]
             post == [s EXCEPT !.cast = With(@, <<p, v>>, support)]
  <2>2. Call(<<e>>, post)
    BY <2>1
  <2>3. {"name", "id"} \subseteq DOMAIN e /\ e.id = p /\ e.name = "VoteCast"
    OBVIOUS
  <2>4. DOMAIN post = DOMAIN s /\ post.state = s.state
    BY <1>0
  <2> HIDE DEF e, post, s, I
  <2>5. GovernorCalls(e, post, s, I)
    BY <1>0, <2>1, <2>3, <2>4 DEF GovernorCalls, GovernanceFilters, ClosedStates, Closing
  <2> QED
    BY <2>2, <2>5 DEF s, I
<1>3. ASSUME NEW p \in I, NEW name \in GovernanceFilters, NEW v, s.state[p] \notin ClosedStates,
             name \in Closing => v \in ClosedStates,
             Call(<<[name |-> name, id |-> p]>>, [s EXCEPT !.state[p] = v])
      PROVE  \E e, post : Call(<<e>>, post) /\ GovernorCalls(e, post, s, I)
  <2> DEFINE e == [name |-> name, id |-> p]
             post == [s EXCEPT !.state[p] = v]
  <2>1. Call(<<e>>, post)
    BY <1>3
  <2>2. DOMAIN e = {"name", "id"} /\ e.id = p /\ e.name = name
    OBVIOUS
  <2>3. post = [s EXCEPT !.state[p] = v]
    OBVIOUS
  <2> HIDE DEF e, post, s, I
  <2>4. /\ "state" \in DOMAIN post /\ DOMAIN post.state = I
        /\ post.state[p] = v
        /\ \A q \in I : q # p => post.state[q] = s.state[q]
    BY <1>0, <2>3, StateSet
  <2>5. GovernorCalls(e, post, s, I)
    BY <1>3, <2>2, <2>4 DEF GovernorCalls
  <2> QED
    BY <2>1, <2>5
<1>4. CASE Queue
  <2>1. PICK p \in I : s.state[p] = "pending"
          /\ Call(<<[name |-> "ProposalQueued", id |-> p]>>, [s EXCEPT !.state[p] = "queued"])
    BY <1>4 DEF Queue
  <2>2. "ProposalQueued" \in GovernanceFilters /\ "ProposalQueued" \notin Closing
        /\ "pending" \notin ClosedStates
    BY DEF GovernanceFilters, Closing, ClosedStates
  <2> HIDE DEF s, I
  <2> QED
    BY <1>3, <2>1, <2>2 DEF s, I
<1>5. CASE ExecuteProposal
  <2>1. PICK p \in I : s.state[p] = "queued"
          /\ \/ Call(<<[name |-> "ProposalDispatched", id |-> p]>>,
                     [s EXCEPT !.state[p] = "dispatched"])
             \/ Call(<<[name |-> "ProposalExecuted", id |-> p]>>,
                     [s EXCEPT !.state[p] = "executed"])
    BY <1>5 DEF ExecuteProposal
  <2>2. /\ {"ProposalDispatched", "ProposalExecuted"} \subseteq GovernanceFilters
        /\ {"dispatched", "executed"} \subseteq ClosedStates /\ "queued" \notin ClosedStates
    BY DEF GovernanceFilters, ClosedStates
  <2> HIDE DEF s, I
  <2> QED
    BY <1>3, <2>1, <2>2 DEF s, I
<1>6. CASE CancelProposal
  <2>1. PICK p \in I : s.state[p] \in {"pending", "queued"}
          /\ Call(<<[name |-> "ProposalCancelled", id |-> p]>>,
                  [s EXCEPT !.state[p] = "cancelled"])
    BY <1>6 DEF CancelProposal
  <2>2. /\ "ProposalCancelled" \in GovernanceFilters /\ "cancelled" \in ClosedStates
        /\ s.state[p] \notin ClosedStates
    BY <2>1 DEF GovernanceFilters, ClosedStates
  <2> HIDE DEF s, I
  <2> QED
    BY <1>3, <2>1, <2>2 DEF s, I
<1>7. CASE \/ ReceiveMessage \/ CloseMessage \/ FailedTransaction \/ ParameterChanged
           \/ Deposit \/ Withdraw
           \/ RegisterFeed \/ DeregisterFeed \/ OpenRound \/ SubmitValue \/ SettleRound
           \/ Register \/ TopUp \/ RequestUnstake \/ CancelUnstake \/ CompleteUnstake
           \/ SlashNode \/ Deactivate
           \/ InsertCommitment \/ RegisterAction \/ DeregisterAction \/ ExecutePrivateAction
  <2>1. contract # "governor"
    <3>1. CASE ReceiveMessage \/ CloseMessage \/ FailedTransaction \/ ParameterChanged
      BY <3>1 DEF ReceiveMessage, CloseMessage, FailedTransaction, ParameterChanged
    <3>2. CASE Deposit \/ Withdraw
      BY <3>2 DEF Deposit, Withdraw
    <3>3. CASE RegisterFeed \/ DeregisterFeed \/ OpenRound \/ SubmitValue \/ SettleRound
      BY <3>3 DEF RegisterFeed, DeregisterFeed, OpenRound, SubmitValue, SettleRound
    <3>4. CASE Register \/ TopUp \/ RequestUnstake \/ CancelUnstake
      BY <3>4 DEF Register, TopUp, RequestUnstake, CancelUnstake
    <3>5. CASE CompleteUnstake \/ SlashNode \/ Deactivate
      BY <3>5 DEF CompleteUnstake, SlashNode, Deactivate
    <3>6. CASE InsertCommitment \/ RegisterAction \/ DeregisterAction \/ ExecutePrivateAction
      BY <3>6 DEF InsertCommitment, RegisterAction, DeregisterAction, ExecutePrivateAction
    <3> QED
      BY <1>7, <3>1, <3>2, <3>3, <3>4, <3>5, <3>6
  <2> QED
    BY <2>1
<1> QED
  BY <1>1, <1>2, <1>4, <1>5, <1>6, <1>7 DEF ContractCall

LEMMA StorageOfGovernor ==
  ASSUME ChainTyped, contract = "governor", Governed(ledger, Ids)
  PROVE  "state" \in DOMAIN Storage /\ DOMAIN Storage.state = Ids
         /\ (ledger # <<>> => Storage = ledger[Len(ledger)].post)
<1>1. PICK R : ledger \in Seq(R)
  BY DEF ChainTyped, Readable
<1>2. CASE ledger = <<>>
  <2>1. Storage = [state |-> [p \in Ids |-> "none"],
                   remote |-> [p \in Ids |-> FALSE], cast |-> <<>>]
    BY <1>2 DEF Storage, Deployed
  <2> QED
    BY <1>2, <2>1
<1>3. CASE ledger # <<>>
  <2>1. Storage = ledger[Len(ledger)].post
    BY <1>3 DEF Storage, Last
  <2>2. Len(ledger) \in 1..Len(ledger)
    BY <1>1, <1>3, EmptySeq
  <2>3. GovernorEntry(ledger[Len(ledger)], Ids)
    BY <2>2 DEF Governed
  <2> QED
    BY <2>1, <2>3 DEF GovernorEntry
<1> QED
  BY <1>2, <1>3

LEMMA GovernedNext ==
  ASSUME ChainTyped, ChainNext, contract = "governor", Governed(ledger, Ids)
  PROVE  Governed(ledger', Ids)
<1> DEFINE N == Len(ledger)
           s == Storage
           I == Ids
<1>1. PICK R : ledger \in Seq(R)
  BY DEF ChainTyped, Readable
<1>2. N \in Nat /\ DOMAIN ledger = 1..N
  BY <1>1
<1>3. CASE ContractCall
  <2>1. "state" \in DOMAIN s /\ DOMAIN s.state = I /\ (ledger # <<>> => s = ledger[N].post)
    BY StorageOfGovernor
  <2>2. PICK e, post : Call(<<e>>, post) /\ GovernorCalls(e, post, s, I)
    BY <1>3, <2>1, GovernorCallIs
  <2> DEFINE tx == [slot |-> 0, ok |-> TRUE, events |-> <<e>>, post |-> post]
  <2>3. PICK slot : ledger' = Append(ledger, [tx EXCEPT !.slot = slot])
    BY <2>2 DEF Call, Append1
  <2> DEFINE x == [tx EXCEPT !.slot = slot]
  <2>4. x.ok = TRUE /\ x.events = <<e>> /\ x.post = post /\ x.events[1] = e
    OBVIOUS
  <2>5. ledger' = Append(ledger, x)
    BY <2>3
  <2> HIDE DEF x, tx, s, I
  <2>6. GovernorAdds(x, s, I)
    BY <2>2, <2>4 DEF GovernorAdds, GovernorCalls, GovernorEntry
  <2>7. /\ IsSeq(ledger') /\ Len(ledger') = N + 1 /\ ledger'[N + 1] = x
        /\ \A i \in 1..N : ledger'[i] = ledger[i]
    <3>1. ledger \in Seq(R \union {x})
      BY <1>1, SeqMonotonic
    <3> QED
      BY <2>5, <3>1, AppendProperties DEF IsSeq
  <2>8. IsSeq(ledger) /\ Governed(ledger, I)
    BY <1>1 DEF IsSeq, I
  <2>9. \E M : M = ledger'
    OBVIOUS
  <2>10. PICK M : M = ledger'
    BY <2>9
  <2>11. Governed(M, I)
    BY ONLY <2>1, <2>6, <2>7, <2>8, <2>10, GovernedGrows
  <2> QED
    BY <2>10, <2>11 DEF I
<1>4. CASE EmptyBlock
  <2>1. ledger' = ledger
    BY <1>4 DEF EmptyBlock
  <2> QED
    BY <2>1
<1>5. CASE Reorg
  <2>1. PICK n \in 0..N : ledger' = SubSeq(ledger, 1, n)
    BY <1>5 DEF Reorg
  <2>2. Len(ledger') = n /\ \A i \in 1..n : ledger'[i] = ledger[i]
    BY <1>1, <2>1
  <2>3. PICK M : M = ledger'
    OBVIOUS
  <2>4. Len(M) \in Nat /\ N \in Nat /\ Len(M) <= N /\ \A i \in 1..Len(M) : M[i] = ledger[i]
    BY <1>2, <2>1, <2>2, <2>3
  <2>5. Governed(M, Ids)
    BY ONLY <2>4, GovernedShrinks, Governed(ledger, Ids)
  <2> QED
    BY <2>3, <2>5
<1> QED
  BY <1>3, <1>4, <1>5 DEF ChainNext

---------------------------------------------------------------------------
(* Which votes and closings are in the tables. *)

IsVote(L, i) == Does(L, i) = "VoteCast"

(* Every vote up to block b is stored. *)
AllWritten(L, d, b) == \A i \in 1..Len(L) : IsVote(L, i) /\ L[i].slot <= b => Stored(d, i)

(* A proposal the tables d show closed was closed by a final transaction,  *)
(* and none of its votes is missing.                                       *)
Proven(L, d, b) ==
  \A p \in ClosedIn(d) :
    /\ \E i \in 1..Len(L) :
         /\ L[i].slot <= b /\ About(L, i) = p
         /\ Does(L, i) \in Closing /\ d.proposals[p].state = StateOf(Does(L, i))
    /\ \A i \in 1..Len(L) : IsVote(L, i) /\ About(L, i) = p => Stored(d, i)

(* The events left of a batch: in order, and with every vote of the batch  *)
(* that is not stored.                                                     *)
Remain(L, d, es, c, t) ==
  /\ \A n \in 1..Len(es) : \E i \in 1..Len(L) :
       es[n] = Decode(L, i, 1) /\ L[i].slot \in (c + 1)..t
  /\ \A m, n \in 1..Len(es) : m < n => es[m].at[1] < es[n].at[1]
  /\ \A i \in 1..Len(L) : IsVote(L, i) /\ L[i].slot \in (c + 1)..t =>
       Stored(d, i) \/ \E n \in 1..Len(es) : es[n] = Decode(L, i, 1)

LEMMA AllWrittenNext ==
  ASSUME NEW L, NEW M, NEW f \in Nat, Grows(L, M, f), NEW d, NEW b \in Int, b <= f,
         \A i \in 1..Len(M) : M[i].slot \in Nat, AllWritten(L, d, b)
  PROVE  AllWritten(M, d, b)
<1>1. PICK m \in 0..Len(L) :
        /\ \A i \in 1..m : M[i] = L[i]
        /\ \A i \in 1..Len(M) : M[i].slot <= f => i <= m
  BY DEF Grows
<1> SUFFICES ASSUME NEW i \in 1..Len(M), IsVote(M, i), M[i].slot <= b
             PROVE  Stored(d, i)
  BY DEF AllWritten
<1>2. i <= m
  <2>1. M[i].slot <= f
    OBVIOUS
  <2> QED
    BY <1>1, <2>1
<1>3. i \in 1..m /\ i \in 1..Len(L)
  BY <1>1, <1>2
<1>4. M[i] = L[i]
  BY <1>1, <1>3
<1> QED
  BY <1>3, <1>4 DEF AllWritten, IsVote, Does

LEMMA ProvenNext ==
  ASSUME NEW L, NEW M, NEW f \in Nat, Grows(L, M, f), NEW g \in Nat, f <= g, NEW d, NEW I,
         \A i \in 1..Len(L) : L[i].slot \in Nat, \A i \in 1..Len(M) : M[i].slot \in Nat,
         Len(L) \in Nat, Len(M) \in Nat, Governed(M, I), Proven(L, d, f)
  PROVE  Proven(M, d, g)
<1>1. PICK m \in 0..Len(L) :
        /\ m <= Len(M)
        /\ \A i \in 1..m : M[i] = L[i]
        /\ \A i \in 1..Len(L) : L[i].slot <= f => i <= m
  BY DEF Grows
<1> SUFFICES ASSUME NEW p \in ClosedIn(d)
             PROVE  /\ \E i \in 1..Len(M) :
                         /\ M[i].slot <= g /\ About(M, i) = p
                         /\ Does(M, i) \in Closing /\ d.proposals[p].state = StateOf(Does(M, i))
                    /\ \A i \in 1..Len(M) : IsVote(M, i) /\ About(M, i) = p => Stored(d, i)
  BY DEF Proven
<1>2. PICK i \in 1..Len(L) :
        /\ L[i].slot <= f /\ About(L, i) = p
        /\ Does(L, i) \in Closing /\ d.proposals[p].state = StateOf(Does(L, i))
  BY DEF Proven
<1>3. i \in 1..m /\ i \in 1..Len(M) /\ M[i] = L[i]
  BY <1>1, <1>2
<1>4. /\ M[i].slot <= g /\ About(M, i) = p
      /\ Does(M, i) \in Closing /\ d.proposals[p].state = StateOf(Does(M, i))
  BY <1>2, <1>3 DEF About, Does
<1>5. ASSUME NEW j \in 1..Len(M), IsVote(M, j), About(M, j) = p
      PROVE  Stored(d, j)
  <2>1. ~ (i < j)
    BY <1>3, <1>4, <1>5 DEF Governed
  <2>2. j \in 1..m
    BY <1>3, <2>1
  <2>3. M[j] = L[j] /\ j \in 1..Len(L)
    BY <1>1, <2>2
  <2>4. IsVote(L, j) /\ About(L, j) = p
    BY <1>5, <2>3 DEF IsVote, Does, About
  <2> QED
    BY <2>3, <2>4 DEF Proven
<1> QED
  BY <1>3, <1>4, <1>5

---------------------------------------------------------------------------
(* Part 5: the indexer: the statements of each handler.                  *)

(* The statements a handler may ask for. *)

GovernorOps(ev) ==
  CASE ev.name = "ProposalCreated" ->
         {"UpsertAsset", "UpsertGovernor", "InsertGovernanceProposal"}
    [] ev.name = "VoteCast" -> {"InsertGovernanceVote"}
    [] ev.name = "ProposalQueued" -> {"MarkProposalQueued"}
    [] ev.name = "ProposalDispatched" -> {"MarkProposalDispatched"}
    [] ev.name = "ProposalExecuted" -> {"MarkProposalExecuted"}
    [] ev.name = "ProposalCancelled" -> {"MarkProposalCancelled"}
    [] OTHER -> {}

OpsFor(which, ev) ==
  CASE which = "governor" -> GovernorOps(ev)
    [] which = "receiver" -> ReceiverOps
    [] which = "vault" -> VaultOps
    [] which = "rounds" -> RoundsOps
    [] which = "staking" -> StakingOps
    [] which = "zk" -> ZkOps

LEMMA ListIsSeq ==
  ASSUME NEW S, NEW x \in S
  PROVE  /\ <<x>> \in Seq(S) /\ <<>> \in Seq(S)
         /\ \A y \in S : <<x, y>> \in Seq(S)
OBVIOUS

LEMMA OnceIsSeq == ASSUME NEW S, NEW op \in S, NEW memo PROVE Once(op, memo) \in Seq(S)
BY ListIsSeq DEF Once

LEMMA ConcatIn ==
  ASSUME NEW S, NEW s \in Seq(S), NEW t \in Seq(S)
  PROVE  s \o t \in Seq(S)
BY ConcatProperties

LEMMA GovernorDispatch ==
  ASSUME NEW ev, NEW memo
  PROVE  /\ GovernanceHandler(ev, memo) \in Seq(GovernorOps(ev))
         /\ ev.name # "ProposalCreated" /\ GovernanceHandler(ev, memo) # <<>> =>
              Tail(GovernanceHandler(ev, memo)) = <<>>
<1> DEFINE h == GovernanceHandler(ev, memo)
<1>1. CASE ev.name = "ProposalCreated"
  <2> DEFINE S == {"UpsertAsset", "UpsertGovernor", "InsertGovernanceProposal"}
  <2>1. GovernorOps(ev) = S /\ h = EnsureGovernor(memo) \o <<"InsertGovernanceProposal">>
    BY <1>1 DEF GovernorOps, GovernanceHandler, HandleProposalCreated
  <2>2. "UpsertAsset" \in S /\ "UpsertGovernor" \in S /\ "InsertGovernanceProposal" \in S
    OBVIOUS
  <2> HIDE DEF S
  <2>3. EnsureGovernor(memo) \in Seq(S)
    BY <2>2, ListIsSeq DEF EnsureGovernor
  <2>4. <<"InsertGovernanceProposal">> \in Seq(S)
    BY <2>2, ListIsSeq
  <2> QED
    BY <1>1, <2>1, <2>3, <2>4, ConcatIn
<1>2. ASSUME NEW op, h = <<op>>, op \in GovernorOps(ev)
      PROVE  h \in Seq(GovernorOps(ev)) /\ Tail(h) = <<>>
  <2>1. <<op>> \in Seq(GovernorOps(ev))
    BY <1>2, ListIsSeq
  <2>2. Tail(<<op>>) = <<>>
    OBVIOUS
  <2> QED
    BY <1>2, <2>1, <2>2
<1>3. CASE ev.name = "VoteCast"
  <2>1. h = <<"InsertGovernanceVote">> /\ "InsertGovernanceVote" \in GovernorOps(ev)
    BY <1>3 DEF GovernorOps, GovernanceHandler, HandleVoteCast
  <2> QED
    BY <1>2, <2>1
<1>4. CASE ev.name = "ProposalQueued"
  <2>1. h = <<"MarkProposalQueued">> /\ "MarkProposalQueued" \in GovernorOps(ev)
    BY <1>4 DEF GovernorOps, GovernanceHandler, HandleQueued
  <2> QED
    BY <1>2, <2>1
<1>5. CASE ev.name = "ProposalDispatched"
  <2>1. h = <<"MarkProposalDispatched">> /\ "MarkProposalDispatched" \in GovernorOps(ev)
    BY <1>5 DEF GovernorOps, GovernanceHandler, HandleDispatched
  <2> QED
    BY <1>2, <2>1
<1>6. CASE ev.name = "ProposalExecuted"
  <2>1. h = <<"MarkProposalExecuted">> /\ "MarkProposalExecuted" \in GovernorOps(ev)
    BY <1>6 DEF GovernorOps, GovernanceHandler, HandleExecuted
  <2> QED
    BY <1>2, <2>1
<1>7. CASE ev.name = "ProposalCancelled"
  <2>1. h = <<"MarkProposalCancelled">> /\ "MarkProposalCancelled" \in GovernorOps(ev)
    BY <1>7 DEF GovernorOps, GovernanceHandler, HandleCancelled
  <2> QED
    BY <1>2, <2>1
<1>8. CASE ev.name \notin GovernanceFilters
  <2>1. h = <<>>
    BY <1>8 DEF GovernanceHandler, GovernanceFilters
  <2>2. <<>> \in Seq(GovernorOps(ev))
    OBVIOUS
  <2> QED
    BY <2>1, <2>2
<1> QED
  BY <1>1, <1>3, <1>4, <1>5, <1>6, <1>7, <1>8 DEF GovernanceFilters

LEMMA OthersDispatch ==
  ASSUME NEW ev, NEW memo
  PROVE  /\ GovernanceReceiverHandler(ev) \in Seq(ReceiverOps)
         /\ VaultHandler(ev, memo) \in Seq(VaultOps)
         /\ OracleRoundsHandler(ev) \in Seq(RoundsOps)
         /\ OracleStakingHandler(ev, memo) \in Seq(StakingOps)
         /\ ZkHandler(ev, memo) \in Seq(ZkOps)
<1>1. GovernanceReceiverHandler(ev) \in Seq(ReceiverOps)
  <2>1. \A x \in ReceiverOps : <<x>> \in Seq(ReceiverOps)
    BY ListIsSeq
  <2>2. \/ GovernanceReceiverHandler(ev) = <<>>
        \/ \E x \in ReceiverOps : GovernanceReceiverHandler(ev) = <<x>>
    BY DEF GovernanceReceiverHandler, HandleReceived, HandleClosed, ReceiverOps
  <2> QED
    BY <2>1, <2>2, EmptySeq
<1>2. VaultHandler(ev, memo) \in Seq(VaultOps)
  <2>1. \A x \in VaultOps : <<x>> \in Seq(VaultOps) /\ Once(x, memo) \in Seq(VaultOps)
    BY ListIsSeq, OnceIsSeq
  <2>2. "UpsertAsset" \in VaultOps /\ "UpsertVault" \in VaultOps
        /\ "InsertVaultDeposit" \in VaultOps /\ "InsertVaultWithdrawal" \in VaultOps
    BY DEF VaultOps
  <2>3. EnsureAsset(memo) \in Seq(VaultOps) /\ EnsureVault(memo) \in Seq(VaultOps)
    BY <2>1, <2>2 DEF EnsureAsset, EnsureVault
  <2>4. \A x \in VaultOps : EnsureAsset(memo) \o EnsureVault(memo) \o <<x>> \in Seq(VaultOps)
    BY <2>1, <2>3, ConcatIn
  <2>5. \/ VaultHandler(ev, memo) = <<>>
        \/ \E x \in VaultOps :
             VaultHandler(ev, memo) = EnsureAsset(memo) \o EnsureVault(memo) \o <<x>>
    BY <2>2 DEF VaultHandler
  <2> QED
    BY <2>4, <2>5, EmptySeq
<1>3. OracleRoundsHandler(ev) \in Seq(RoundsOps)
  <2>1. \A x \in RoundsOps : /\ <<x>> \in Seq(RoundsOps)
                             /\ \A y \in RoundsOps : <<x, y>> \in Seq(RoundsOps)
    BY ListIsSeq
  <2>2. \/ OracleRoundsHandler(ev) = <<>>
        \/ \E x \in RoundsOps : OracleRoundsHandler(ev) = <<x>>
        \/ \E x, y \in RoundsOps : OracleRoundsHandler(ev) = <<x, y>>
    BY DEF OracleRoundsHandler, RoundsOps, HandleFeedRegistered, HandleRoundStarted,
           HandleQuorumMet, HandleSettled, HandleFailed, HandleSubmission
  <2> QED
    BY <2>1, <2>2, EmptySeq
<1>4. OracleStakingHandler(ev, memo) \in Seq(StakingOps)
  <2>1. \A x \in StakingOps :
          <<x>> \in Seq(StakingOps) /\ \A y \in StakingOps : <<x, y>> \in Seq(StakingOps)
    BY ListIsSeq
  <2>2. HandleRegistered(memo) \in Seq(StakingOps)
    <3>1. "UpsertAsset" \in StakingOps /\ "UpsertOracleNode" \in StakingOps
      BY DEF StakingOps
    <3>2. EnsureStakeAsset(memo) \in Seq(StakingOps)
      BY <3>1, OnceIsSeq, SMTT(30) DEF EnsureStakeAsset
    <3> QED
      BY <2>1, <3>1, <3>2, ConcatIn DEF HandleRegistered
  <2>3. \/ OracleStakingHandler(ev, memo) = <<>>
        \/ OracleStakingHandler(ev, memo) = HandleRegistered(memo)
        \/ \E x \in StakingOps : OracleStakingHandler(ev, memo) = <<x>>
        \/ \E x, y \in StakingOps : OracleStakingHandler(ev, memo) = <<x, y>>
    BY ZenonT(60) DEF OracleStakingHandler, StakingOps, HandleUnstakeRequested, HandleDeactivated,
           HandleSlashed
  <2> QED
    BY <2>1, <2>2, <2>3, EmptySeq
<1>5. ZkHandler(ev, memo) \in Seq(ZkOps)
  <2>1. \A x \in ZkOps : <<x>> \in Seq(ZkOps)
    BY ListIsSeq
  <2>2. EnsureGate(memo) \in Seq(ZkOps)
    <3>1. "UpsertZkGate" \in ZkOps
      BY DEF ZkOps
    <3> QED
      BY <3>1, OnceIsSeq DEF EnsureGate
  <2>3. \A x \in ZkOps : EnsureGate(memo) \o <<x>> \in Seq(ZkOps)
    BY <2>1, <2>2, ConcatIn
  <2>4. \/ ZkHandler(ev, memo) = <<>>
        \/ \E x \in ZkOps : ZkHandler(ev, memo) = <<x>>
        \/ \E x \in ZkOps : ZkHandler(ev, memo) = EnsureGate(memo) \o <<x>>
    BY DEF ZkHandler, ZkOps, HandleCommitmentInserted, HandlePrivateAction,
           HandleActionRegistered, HandleActionDeregistered
  <2> QED
    BY <2>1, <2>3, <2>4, EmptySeq
<1> QED
  BY <1>1, <1>2, <1>3, <1>4, <1>5

LEMMA DispatchFits ==
  ASSUME NEW which \in {"governor", "receiver", "vault", "rounds", "staking", "zk"},
         NEW ev, NEW memo
  PROVE  Dispatch(which, ev, memo) \in Seq(OpsFor(which, ev))
BY GovernorDispatch, OthersDispatch DEF Dispatch, OpsFor

LEMMA OtherKindsSafe ==
  ASSUME NEW which \in {"receiver", "vault", "rounds", "staking", "zk"},
         NEW d, TablesAre(d), NEW ev, NEW op \in OpsFor(which, ev), NEW row
  PROVE  Safe(d, Exec(which, d, op, row))
<1>1. CASE which = "receiver"
  BY <1>1, ReceiverSafe DEF OpsFor, Exec
<1>2. CASE which = "vault"
  BY <1>2, VaultSafe DEF OpsFor, Exec
<1>3. CASE which = "rounds"
  BY <1>3, RoundsSafe DEF OpsFor, Exec
<1>4. CASE which = "staking"
  BY <1>4, StakingSafe DEF OpsFor, Exec
<1>5. CASE which = "zk"
  BY <1>5, ZkSafe DEF OpsFor, Exec
<1> QED
  BY <1>1, <1>2, <1>3, <1>4, <1>5

---------------------------------------------------------------------------
(* A statement of the governor's handler. *)

LEMMA ProvenKept ==
  ASSUME NEW L, NEW d, NEW b, Proven(L, d, b), NEW e,
         RowsStay(d.votes, e.votes, DOMAIN d.votes),
         RowsStay(d.proposals, e.proposals, ClosedIn(d)), ClosedIn(e) \subseteq ClosedIn(d)
  PROVE  Proven(L, e, b)
<1> SUFFICES ASSUME NEW p \in ClosedIn(e)
             PROVE  /\ \E i \in 1..Len(L) :
                         /\ L[i].slot <= b /\ About(L, i) = p
                         /\ Does(L, i) \in Closing /\ e.proposals[p].state = StateOf(Does(L, i))
                    /\ \A i \in 1..Len(L) : IsVote(L, i) /\ About(L, i) = p => Stored(e, i)
  BY DEF Proven
<1>1. p \in ClosedIn(d) /\ e.proposals[p] = d.proposals[p]
  BY DEF RowsStay
<1>2. \E i \in 1..Len(L) :
         /\ L[i].slot <= b /\ About(L, i) = p
         /\ Does(L, i) \in Closing /\ e.proposals[p].state = StateOf(Does(L, i))
  BY <1>1 DEF Proven
<1>3. \A i \in 1..Len(L) : IsVote(L, i) /\ About(L, i) = p => Stored(e, i)
  BY <1>1, StoredStays DEF Proven
<1> QED
  BY <1>2, <1>3

(* Two closings of one proposal are the same transaction. *)
LEMMA ClosedOnce ==
  ASSUME NEW L, NEW I, Governed(L, I), NEW i \in 1..Len(L), NEW j \in 1..Len(L),
         Does(L, i) \in Closing, Does(L, j) \in Closing, About(L, i) = About(L, j)
  PROVE  i = j
<1>1. ~ (i < j) /\ ~ (j < i)
  BY DEF Governed
<1> QED
  BY <1>1

LEMMA ClosedForGood ==
  ASSUME NEW state \in ClosedStates
  PROVE  state \notin MayLeave(state) /\ state \notin MayLeave("queued")
BY DEF ClosedStates, MayLeave

(* A mark only closes a proposal whose votes are all there, and leaves a   *)
(* closed one alone.                                                       *)
LEMMA MarkProves ==
  ASSUME NEW L, NEW I, Governed(L, I), NEW d, TablesAre(d), Tallied(d), NEW b, Proven(L, d, b),
         NEW i \in 1..Len(L), L[i].slot <= b,
         Does(L, i) \in Closing =>
           \A j \in 1..Len(L) : IsVote(L, j) /\ About(L, j) = About(L, i) => Stored(d, j),
         NEW row, row.id = About(L, i), NEW state, state = StateOf(Does(L, i)),
         Does(L, i) \in Closing \/ state = "queued", NEW e, e = MarkProposal(d, row, state)
  PROVE  /\ Governs(d, e) /\ RowsStay(d.proposals, e.proposals, ClosedIn(d))
         /\ Proven(L, e, b)
<1>1. ASSUME row.id \in ClosedIn(d) PROVE d.proposals[row.id].state \notin MayLeave(state)
  <2>1. d.proposals[row.id].state \in ClosedStates
    BY <1>1 DEF ClosedIn
  <2>2. CASE state = "queued"
    BY <2>1, <2>2, ClosedForGood
  <2>3. CASE Does(L, i) \in Closing
    <3>1. PICK k \in 1..Len(L) :
            /\ About(L, k) = row.id /\ Does(L, k) \in Closing
            /\ d.proposals[row.id].state = StateOf(Does(L, k))
      BY <1>1 DEF Proven
    <3>2. k = i
      BY <2>3, <3>1, ClosedOnce
    <3> QED
      BY <2>1, <3>1, <3>2, ClosedForGood
  <2> QED
    BY <2>2, <2>3
<1>2. /\ Governs(d, e)
      /\ RowsStay(d.proposals, e.proposals, ClosedIn(d))
      /\ \A p \in ClosedIn(e) :
           p \in ClosedIn(d)
           \/ (p = row.id /\ state \in ClosedStates /\ e.proposals[p].state = state)
  BY <1>1, MarkGoverns
<1>3. RowsStay(d.votes, e.votes, DOMAIN d.votes)
  BY <1>2 DEF Governs
<1>4. ASSUME NEW p \in ClosedIn(e)
      PROVE  /\ \E k \in 1..Len(L) :
                  /\ L[k].slot <= b /\ About(L, k) = p
                  /\ Does(L, k) \in Closing /\ e.proposals[p].state = StateOf(Does(L, k))
             /\ \A k \in 1..Len(L) : IsVote(L, k) /\ About(L, k) = p => Stored(e, k)
  <2>1. CASE p \in ClosedIn(d)
    <3>1. e.proposals[p] = d.proposals[p]
      BY <1>2, <2>1 DEF RowsStay
    <3>2. \E k \in 1..Len(L) :
            /\ L[k].slot <= b /\ About(L, k) = p
            /\ Does(L, k) \in Closing /\ e.proposals[p].state = StateOf(Does(L, k))
      BY <2>1, <3>1 DEF Proven
    <3>3. \A k \in 1..Len(L) : IsVote(L, k) /\ About(L, k) = p => Stored(e, k)
      BY <1>3, <2>1, StoredStays DEF Proven
    <3> QED
      BY <3>2, <3>3
  <2>2. CASE p \notin ClosedIn(d)
    <3>1. p = About(L, i) /\ state \in ClosedStates /\ e.proposals[p].state = state
      BY <1>2, <1>4, <2>2
    <3>2. Does(L, i) \in Closing
      BY <3>1 DEF ClosedStates
    <3>3. \A k \in 1..Len(L) : IsVote(L, k) /\ About(L, k) = p => Stored(e, k)
      BY <1>3, <3>1, <3>2, StoredStays
    <3> QED
      BY <3>1, <3>2, <3>3
  <2> QED
    BY <2>1, <2>2
<1>5. Proven(L, e, b)
  BY <1>4 DEF Proven
<1> QED
  BY <1>2, <1>5

LEMMA GovernorWrites ==
  ASSUME NEW L, NEW I, Governed(L, I), NEW d, TablesAre(d), Tallied(d), NEW b, Proven(L, d, b),
         NEW i \in 1..Len(L), L[i].slot <= b,
         Does(L, i) \in Closing =>
           \A j \in 1..Len(L) : IsVote(L, j) /\ About(L, j) = About(L, i) => Stored(d, j),
         NEW row, row.id = About(L, i), row.at = <<i, 1>>,
         NEW op \in GovernorOps(L[i].events[1]), ~ GovernanceRefused(d, op, row),
         NEW e, e = GovernanceStore(d, op, row)
  PROVE  /\ Safe(d, e) /\ Tallied(e) /\ Proven(L, e, b)
         /\ RowsStay(d.votes, e.votes, DOMAIN d.votes)
         /\ IsVote(L, i) => Stored(e, i)
<1>1. ASSUME Governs(d, e), RowsStay(d.proposals, e.proposals, ClosedIn(d)), Proven(L, e, b)
      PROVE  /\ Safe(d, e) /\ Tallied(e) /\ Proven(L, e, b)
             /\ RowsStay(d.votes, e.votes, DOMAIN d.votes)
  BY <1>1, GovernsKeeps DEF Governs
<1>2. ASSUME Governs(d, e), RowsStay(d.proposals, e.proposals, ClosedIn(d)),
             ClosedIn(e) \subseteq ClosedIn(d)
      PROVE  /\ Safe(d, e) /\ Tallied(e) /\ Proven(L, e, b)
             /\ RowsStay(d.votes, e.votes, DOMAIN d.votes)
  <2>1. RowsStay(d.votes, e.votes, DOMAIN d.votes)
    BY <1>2 DEF Governs
  <2>2. Proven(L, e, b)
    BY <1>2, <2>1, ProvenKept
  <2> QED
    BY <1>1, <1>2, <2>2
<1>3. ClosedIn(d) \subseteq DOMAIN d.proposals
  BY DEF ClosedIn
<1>4. Does(L, i) = L[i].events[1].name
  BY DEF Does
<1>5. CASE op \in {"UpsertAsset", "UpsertGovernor"}
  <2>1. \E v : e = [d EXCEPT !["parents"] = v]
    BY <1>5 DEF GovernanceStore, UpsertAsset, UpsertGovernor
  <2>2. Governs(d, e) /\ e.proposals = d.proposals
    BY <2>1, ParentsGovern, ZenonT(60)
  <2>3. RowsStay(d.proposals, e.proposals, ClosedIn(d)) /\ ClosedIn(e) \subseteq ClosedIn(d)
    BY <1>3, <2>2, SameRowsStay DEF ClosedIn
  <2>4. ~ IsVote(L, i)
    BY <1>4, <1>5 DEF IsVote, GovernorOps
  <2> QED
    BY <1>2, <2>2, <2>3, <2>4
<1>6. CASE op = "InsertGovernanceProposal"
  <2>1. e = InsertGovernanceProposal(d, row)
    BY <1>6 DEF GovernanceStore
  <2>2. /\ Governs(d, e) /\ ClosedIn(e) \subseteq ClosedIn(d)
        /\ RowsStay(d.proposals, e.proposals, DOMAIN d.proposals)
    BY <2>1, ProposalGoverns
  <2>3. RowsStay(d.proposals, e.proposals, ClosedIn(d))
    BY <1>3, <2>2 DEF RowsStay
  <2>4. ~ IsVote(L, i)
    BY <1>4, <1>6 DEF IsVote, GovernorOps
  <2> QED
    BY <1>2, <2>2, <2>3, <2>4
<1>7. CASE op = "InsertGovernanceVote"
  <2>1. e = InsertGovernanceVote(d, row) /\ ~ GovernanceRefused(d, "InsertGovernanceVote", row)
    BY <1>7 DEF GovernanceStore
  <2>2. /\ Governs(d, e) /\ ClosedIn(e) \subseteq ClosedIn(d)
        /\ \E k \in DOMAIN e.votes : e.votes[k].at = row.at
        /\ From(d.votes, row) # {} => RowsStay(d.proposals, e.proposals, DOMAIN d.proposals)
        /\ row.id \notin ClosedIn(d) => RowsStay(d.proposals, e.proposals, ClosedIn(d))
    <3>1. StoresVote(d, row, e)
      BY <2>1, VoteGoverns
    <3> QED
      BY <3>1 DEF StoresVote
  <2>3. Stored(e, i)
    BY <2>2 DEF Stored
  <2>4. IsVote(L, i)
    BY <1>4, <1>7 DEF IsVote, GovernorOps
  <2>5. row.id \in ClosedIn(d) => From(d.votes, row) # {}
    <3>1. ASSUME row.id \in ClosedIn(d) PROVE From(d.votes, row) # {}
      <4>1. Stored(d, i)
        BY <2>4, <3>1 DEF Proven
      <4>2. PICK k \in DOMAIN d.votes : d.votes[k].at = row.at
        BY <4>1 DEF Stored
      <4> QED
        BY <4>2 DEF From
    <3> QED
      BY <3>1
  <2>6. RowsStay(d.proposals, e.proposals, ClosedIn(d))
    BY <1>3, <2>2, <2>5 DEF RowsStay
  <2> QED
    BY <1>2, <2>2, <2>3, <2>6
<1>8. CASE op \in {"MarkProposalQueued", "MarkProposalDispatched", "MarkProposalExecuted",
                   "MarkProposalCancelled"}
  <2>1. /\ e = MarkProposal(d, row, StateOf(Does(L, i)))
        /\ Does(L, i) \in Closing \/ StateOf(Does(L, i)) = "queued"
        /\ ~ IsVote(L, i)
    <3>1. CASE op = "MarkProposalQueued"
      BY <1>4, <3>1 DEF GovernanceStore, StateOf, GovernorOps, IsVote
    <3>2. CASE op = "MarkProposalDispatched"
      BY <1>4, <3>2 DEF GovernanceStore, StateOf, GovernorOps, IsVote, Closing
    <3>3. CASE op = "MarkProposalExecuted"
      BY <1>4, <3>3 DEF GovernanceStore, StateOf, GovernorOps, IsVote, Closing
    <3>4. CASE op = "MarkProposalCancelled"
      BY <1>4, <3>4 DEF GovernanceStore, StateOf, GovernorOps, IsVote, Closing
    <3> QED
      BY <1>8, <3>1, <3>2, <3>3, <3>4
  <2>2. PICK state : state = StateOf(Does(L, i))
    OBVIOUS
  <2>3. /\ Governs(d, e) /\ RowsStay(d.proposals, e.proposals, ClosedIn(d))
        /\ Proven(L, e, b)
    BY <2>1, <2>2, MarkProves
  <2> QED
    BY <1>1, <2>1, <2>3
<1> QED
  BY <1>5, <1>6, <1>7, <1>8 DEF GovernorOps

---------------------------------------------------------------------------
(* Part 6: the indexer: the inductive invariant.                         *)

(* Lemmas on what is written and what remains. *)

LEMMA NothingRemains ==
  ASSUME NEW L, \A i \in 1..Len(L) : L[i].slot \in Nat, NEW d, NEW c \in Nat, NEW es, es = <<>>
  PROVE  Remain(L, d, es, c, 0)
<1>1. Len(es) = 0
  OBVIOUS
<1>2. \A i \in 1..Len(L) : L[i].slot \notin (c + 1)..0
  OBVIOUS
<1> QED
  BY <1>1, <1>2 DEF Remain

LEMMA NothingBefore ==
  ASSUME NEW L, NEW h, \A i \in 1..Len(L) : L[i].slot \in 1..h, NEW d, NEW b \in {0, NotSaved}
  PROVE  AllWritten(L, d, b)
BY DEF AllWritten, NotSaved

LEMMA WrittenThrough ==
  ASSUME NEW L, \A i \in 1..Len(L) : L[i].slot \in Nat, NEW d, NEW c \in Nat, NEW t \in Nat,
         NEW es, es = <<>>, Remain(L, d, es, c, t), AllWritten(L, d, c)
  PROVE  AllWritten(L, d, t)
<1> SUFFICES ASSUME NEW i \in 1..Len(L), IsVote(L, i), L[i].slot <= t PROVE Stored(d, i)
  BY DEF AllWritten
<1>1. CASE L[i].slot <= c
  BY <1>1 DEF AllWritten
<1>2. CASE ~ (L[i].slot <= c)
  <2>1. L[i].slot \in (c + 1)..t
    BY <1>2
  <2>2. Len(es) = 0
    OBVIOUS
  <2> QED
    BY <2>1, <2>2 DEF Remain
<1> QED
  BY <1>1, <1>2

LEMMA WrittenStays ==
  ASSUME NEW L, NEW d, NEW e, RowsStay(d.votes, e.votes, DOMAIN d.votes), NEW b, AllWritten(L, d, b)
  PROVE  AllWritten(L, e, b)
BY StoredStays DEF AllWritten

LEMMA RemainStays ==
  ASSUME NEW L, NEW d, NEW e, RowsStay(d.votes, e.votes, DOMAIN d.votes),
         NEW es, NEW c, NEW t, Remain(L, d, es, c, t)
  PROVE  Remain(L, e, es, c, t)
BY StoredStays DEF Remain

LEMMA DecodeIs ==
  ASSUME NEW L, NEW i
  PROVE  /\ Decode(L, i, 1).at = <<i, 1>> /\ Decode(L, i, 1).at[1] = i
         /\ Decode(L, i, 1).ev = L[i].events[1]
BY DEF Decode

LEMMA RemainAfter ==
  ASSUME NEW L, NEW d, NEW e, RowsStay(d.votes, e.votes, DOMAIN d.votes),
         NEW es, IsSeq(es), es # <<>>, NEW c, NEW t, Remain(L, d, es, c, t),
         NEW i \in 1..Len(L), es[1] = Decode(L, i, 1), IsVote(L, i) => Stored(e, i)
  PROVE  Remain(L, e, Tail(es), c, t)
<1> DEFINE r == Tail(es)
<1>1. /\ Len(es) \in Nat /\ Len(es) > 0 /\ Len(r) = Len(es) - 1
      /\ \A n \in 1..Len(r) : r[n] = es[n + 1]
  <2>1. PICK R : es \in Seq(R)
    BY DEF IsSeq
  <2> QED
    BY <2>1, EmptySeq, HeadTailProperties
<1> HIDE DEF r
<1>2. \A n \in 1..Len(r) : n + 1 \in 1..Len(es)
  BY <1>1
<1>3. Remain(L, e, es, c, t)
  BY RemainStays
<1>4. \A n \in 1..Len(r) : \E j \in 1..Len(L) :
        r[n] = Decode(L, j, 1) /\ L[j].slot \in (c + 1)..t
  BY <1>1, <1>2, <1>3 DEF Remain
<1>5. ASSUME NEW m \in 1..Len(r), NEW n \in 1..Len(r), m < n
      PROVE  r[m].at[1] < r[n].at[1]
  <2>1. m + 1 \in 1..Len(es) /\ n + 1 \in 1..Len(es) /\ m + 1 < n + 1
    BY <1>1, <1>2, <1>5
  <2>2. es[m + 1].at[1] < es[n + 1].at[1]
    BY <1>3, <2>1 DEF Remain
  <2> QED
    BY <1>1, <2>2
<1>6. ASSUME NEW j \in 1..Len(L), IsVote(L, j), L[j].slot \in (c + 1)..t
      PROVE  Stored(e, j) \/ \E n \in 1..Len(r) : r[n] = Decode(L, j, 1)
  <2>1. CASE \E n \in 1..Len(es) : es[n] = Decode(L, j, 1)
    <3>1. PICK n \in 1..Len(es) : es[n] = Decode(L, j, 1)
      BY <2>1
    <3>2. CASE n = 1
      <4>1. i = j
        <5>1. Decode(L, i, 1).at[1] = i /\ Decode(L, j, 1).at[1] = j
          BY ONLY DecodeIs, ZenonT(60)
        <5>2. Decode(L, i, 1) = Decode(L, j, 1)
          BY <3>1, <3>2
        <5> QED
          BY ONLY <5>1, <5>2
      <4> QED
        BY <1>6, <4>1
    <3>3. CASE n # 1
      <4>1. n - 1 \in 1..Len(r) /\ (n - 1) + 1 = n
        BY <1>1, <3>3
      <4> QED
        BY <1>1, <3>1, <4>1
    <3> QED
      BY <3>2, <3>3
  <2> QED
    BY <1>3, <1>6, <2>1 DEF Remain
<1> QED
  BY <1>4, <1>5, <1>6 DEF Remain, r

(* When a closing is handled, every vote on that proposal is stored.       *)
LEMMA VotesComeFirst ==
  ASSUME NEW L, Readable(L), NEW I, Governed(L, I), NEW d, NEW c \in Nat, NEW t \in Nat,
         AllWritten(L, d, c), NEW es, IsSeq(es), es # <<>>, Remain(L, d, es, c, t),
         NEW i \in 1..Len(L), es[1] = Decode(L, i, 1), L[i].slot \in (c + 1)..t,
         Does(L, i) \in Closing,
         NEW j \in 1..Len(L), IsVote(L, j), About(L, j) = About(L, i)
  PROVE  Stored(d, j)
<1>1. ~ (i < j) /\ i # j
  <2>1. Does(L, j) \notin Closing
    BY DEF IsVote, Closing
  <2> QED
    BY <2>1 DEF Governed
<1>2. j < i /\ L[j].slot <= L[i].slot /\ L[j].slot \in Nat
  <2>1. j < i
    BY <1>1
  <2> QED
    BY <2>1 DEF Readable
<1>3. CASE L[j].slot <= c
  BY <1>3 DEF AllWritten
<1>4. CASE ~ (L[j].slot <= c)
  <2>1. L[j].slot \in (c + 1)..t
    BY <1>2, <1>4
  <2>2. ASSUME NEW n \in 1..Len(es), es[n] = Decode(L, j, 1) PROVE FALSE
    <3>1. Len(es) \in Nat
      BY DEF IsSeq
    <3>2. n = 1 \/ 1 < n
      BY <3>1
    <3>3. 1 \in 1..Len(es) /\ es[1].at[1] = i /\ es[n].at[1] = j
      <4>1. Decode(L, i, 1).at[1] = i /\ Decode(L, j, 1).at[1] = j
        BY ONLY DecodeIs, ZenonT(60)
      <4>2. Len(es) # 0
        <5>1. PICK R : es \in Seq(R)
          BY DEF IsSeq
        <5> QED
          BY <5>1, EmptySeq
      <4> QED
        BY <2>2, <3>1, <4>1, <4>2
    <3>4. 1 < n => i < j
      BY <3>3 DEF Remain
    <3> QED
      BY <1>2, <3>2, <3>3, <3>4
  <2> QED
    BY <2>1, <2>2 DEF Remain
<1> QED
  BY <1>3, <1>4

LEMMA EventRowIs ==
  ASSUME NEW e, "id" \in DOMAIN e.ev
  PROVE  EventRow(e).id = e.ev.id /\ EventRow(e).at = e.at
BY DEF EventRow

---------------------------------------------------------------------------
(* The inductive invariant. *)

(* The statements left are the handler's for the event at hand. *)
WorkFits == work \in Seq(OpsFor(contract, Head(events).ev))

GovernorRight ==
  /\ start = 0
  /\ Governed(ledger, Ids)
  /\ Tallied(db)
  /\ AllWritten(ledger, db, cursor)
  /\ AllWritten(ledger, db, saved)
  /\ \A b \in late : AllWritten(ledger, db, b)
  /\ Proven(ledger, db, final)
  /\ Remain(ledger, db, events, cursor, to)
  /\ work # <<>> => Head(events).ev.name = "ProposalCreated"

MirrorRight ==
  /\ IndexerTyped
  /\ TablesAre(db)
  /\ WorkFits
  /\ contract = "governor" => GovernorRight

LEMMA HeadIsFirst ==
  ASSUME NEW s, IsSeq(s), s # <<>>
  PROVE  Head(s) = s[1] /\ 1 \in 1..Len(s)
<1>1. PICK R : s \in Seq(R)
  BY DEF IsSeq
<1> QED
  BY <1>1, EmptySeq

(* The statement at hand is one the handler asks for. *)
LEMMA StatementFits ==
  ASSUME MirrorRight, WriteStatement
  PROVE  LET todo == StatementsLeft(Head(events))
             ops  == OpsFor(contract, Head(events).ev)
         IN  /\ todo \in Seq(ops) /\ Head(todo) \in ops /\ Tail(todo) \in Seq(ops)
             /\ contract = "governor" /\ Tail(todo) # <<>> =>
                  Head(events).ev.name = "ProposalCreated"
<1> DEFINE e == Head(events)
           todo == StatementsLeft(e)
           ops == OpsFor(contract, e.ev)
<1>1. todo # <<>>
  BY DEF WriteStatement
<1>2. contract \in {"governor", "receiver", "vault", "rounds", "staking", "zk"}
  BY ContractsAssumption DEF MirrorRight, IndexerTyped, ChainTyped
<1>3. todo = IF work # <<>> THEN work ELSE Dispatch(contract, e.ev, known)
  BY DEF StatementsLeft
<1>4. work \in Seq(ops)
  BY DEF MirrorRight, WorkFits
<1>5. Dispatch(contract, e.ev, known) \in Seq(ops)
  BY <1>2, DispatchFits
<1> HIDE DEF todo, ops
<1>6. todo \in Seq(ops)
  BY <1>3, <1>4, <1>5
<1>7. Head(todo) \in ops /\ Tail(todo) \in Seq(ops)
  BY <1>1, <1>6, HeadTailProperties
<1>8. ASSUME contract = "governor", Tail(todo) # <<>>
      PROVE  e.ev.name = "ProposalCreated"
  <2>1. CASE work # <<>>
    BY <1>8, <2>1 DEF MirrorRight, GovernorRight
  <2>2. CASE work = <<>>
    <3>1. todo = GovernanceHandler(e.ev, known)
      BY <1>3, <1>8, <2>2 DEF Dispatch
    <3> QED
      BY <1>1, <1>8, <3>1, GovernorDispatch
  <2> QED
    BY <2>1, <2>2
<1> QED
  BY <1>6, <1>7, <1>8 DEF todo, ops

(* A statement that is not refused: what it leaves behind. *)
Wrote(e, op, rest) ==
  /\ ~ StatementRefused(contract, db, op, EventRow(e))
  /\ db' = Exec(contract, db, op, EventRow(e))
  /\ work' = rest
  /\ events' = IF rest = <<>> THEN Tail(events) ELSE events
  /\ to' = to

LEMMA WriteIs ==
  ASSUME WriteStatement
  PROVE  /\ events # <<>>
         /\ UNCHANGED chainVars /\ saved' = saved /\ cursor' = cursor /\ late' = late
         /\ \/ StepFails /\ db' = db
            \/ Wrote(Head(events), Head(StatementsLeft(Head(events))),
                     Tail(StatementsLeft(Head(events))))
BY DEF WriteStatement, Wrote

LEMMA WriteFits ==
  ASSUME MirrorRight, WriteStatement
  PROVE  WorkFits'
<1> DEFINE todo == StatementsLeft(Head(events))
<1>1. contract' = contract
  BY WriteIs DEF chainVars
<1>2. CASE StepFails
  <2>1. work' = <<>>
    BY <1>2 DEF StepFails
  <2> QED
    BY <2>1, EmptySeq DEF WorkFits
<1>3. CASE Wrote(Head(events), Head(todo), Tail(todo))
  <2>1. Tail(todo) \in Seq(OpsFor(contract, Head(events).ev))
    BY StatementFits
  <2>2. work' = Tail(todo) /\ (Tail(todo) # <<>> => events' = events)
    BY <1>3 DEF Wrote
  <2> HIDE DEF todo
  <2>3. CASE Tail(todo) = <<>>
    <3>1. work' = <<>>
      BY <2>2, <2>3
    <3> QED
      BY <3>1, EmptySeq DEF WorkFits
  <2>4. CASE Tail(todo) # <<>>
    BY <1>1, <2>1, <2>2, <2>4 DEF WorkFits
  <2> QED
    BY <2>3, <2>4
<1> QED
  BY <1>2, <1>3, WriteIs

LEMMA OthersWrite ==
  ASSUME MirrorRight, WriteStatement, contract # "governor"
  PROVE  Safe(db, db')
<1> DEFINE e == Head(events)
           todo == StatementsLeft(e)
<1>1. TablesAre(db)
  BY DEF MirrorRight
<1>2. contract \in {"receiver", "vault", "rounds", "staking", "zk"}
  BY ContractsAssumption DEF MirrorRight, IndexerTyped, ChainTyped
<1>3. CASE db' = db
  BY <1>1, <1>3, SameSafe
<1>4. CASE Wrote(e, Head(todo), Tail(todo))
  <2>1. db' = Exec(contract, db, Head(todo), EventRow(e))
    BY <1>4 DEF Wrote
  <2>2. Head(todo) \in OpsFor(contract, e.ev)
    BY StatementFits
  <2> HIDE DEF e, todo
  <2> QED
    BY <1>1, <1>2, <2>1, <2>2, OtherKindsSafe
<1> QED
  BY <1>3, <1>4, WriteIs

LEMMA IdsSame == ASSUME contract' = contract PROVE Ids' = Ids
BY DEF Ids

(* The transaction whose event the governor's handler has at hand. *)
LEMMA AtHand ==
  ASSUME MirrorRight, contract = "governor", events # <<>>
  PROVE  \E i \in 1..Len(ledger) :
           /\ events[1] = Decode(ledger, i, 1) /\ Head(events) = events[1]
           /\ ledger[i].slot \in (cursor + 1)..to /\ ledger[i].slot <= final
           /\ EventRow(Head(events)).id = About(ledger, i)
           /\ EventRow(Head(events)).at = <<i, 1>>
           /\ Head(events).ev = ledger[i].events[1]
           /\ Does(ledger, i) \in Closing =>
                \A j \in 1..Len(ledger) :
                  IsVote(ledger, j) /\ About(ledger, j) = About(ledger, i) => Stored(db, j)
<1>1. IndexerTyped /\ GovernorRight
  BY DEF MirrorRight
<1>2. /\ Readable(ledger) /\ IsSeq(events) /\ cursor \in Nat /\ to \in Nat /\ final \in Nat
      /\ to <= final
  BY <1>1 DEF IndexerTyped, ChainTyped, ProcessTyped, BatchTyped
<1>3. Head(events) = events[1] /\ 1 \in 1..Len(events)
  BY <1>2, HeadIsFirst
<1>4. PICK i \in 1..Len(ledger) :
        events[1] = Decode(ledger, i, 1) /\ ledger[i].slot \in (cursor + 1)..to
  BY <1>1, <1>3 DEF GovernorRight, Remain
<1>5. ledger[i].slot <= final
  BY <1>2, <1>4
<1>6. /\ Head(events).at = <<i, 1>> /\ Head(events).ev = ledger[i].events[1]
  <2>1. Decode(ledger, i, 1).at = <<i, 1>> /\ Decode(ledger, i, 1).ev = ledger[i].events[1]
    BY ONLY DecodeIs
  <2>2. Head(events) = Decode(ledger, i, 1)
    BY <1>3, <1>4
  <2> QED
    BY ONLY <2>1, <2>2
<1>7. "id" \in DOMAIN Head(events).ev
  <2>1. GovernorEntry(ledger[i], Ids)
    BY <1>1 DEF GovernorRight, Governed
  <2> QED
    BY <1>6, <2>1 DEF GovernorEntry
<1>8. EventRow(Head(events)).id = About(ledger, i) /\ EventRow(Head(events)).at = <<i, 1>>
  BY <1>6, <1>7, EventRowIs DEF About
<1>9. ASSUME Does(ledger, i) \in Closing, NEW j \in 1..Len(ledger), IsVote(ledger, j),
             About(ledger, j) = About(ledger, i)
      PROVE  Stored(db, j)
  BY <1>1, <1>2, <1>4, <1>9, VotesComeFirst DEF GovernorRight
<1> QED
  BY <1>3, <1>4, <1>5, <1>6, <1>8, <1>9

LEMMA GovernorWrite ==
  ASSUME MirrorRight, WriteStatement, contract = "governor"
  PROVE  Safe(db, db') /\ GovernorRight'
<1> DEFINE e == Head(events)
           todo == StatementsLeft(e)
           row == EventRow(e)
           op == Head(todo)
<1>1. /\ IndexerTyped /\ GovernorRight /\ TablesAre(db)
  BY DEF MirrorRight
<1>2. /\ Readable(ledger) /\ IsSeq(events) /\ cursor \in Nat
      /\ \A i \in 1..Len(ledger) : ledger[i].slot \in Nat
  BY <1>1 DEF IndexerTyped, ChainTyped, ProcessTyped, BatchTyped, Readable
<1>3. /\ events # <<>> /\ saved' = saved /\ cursor' = cursor /\ late' = late
      /\ ledger' = ledger /\ start' = start /\ final' = final /\ Ids' = Ids
  BY WriteIs, IdsSame DEF chainVars
<1>4. CASE StepFails /\ db' = db
  <2>1. Safe(db, db')
    BY <1>1, <1>4, SameSafe
  <2>2. to' = 0 /\ events' = <<>> /\ work' = <<>>
    BY <1>4 DEF StepFails
  <2>3. Remain(ledger, db, events', cursor, 0)
    BY <1>2, <2>2, NothingRemains
  <2> QED
    BY <1>1, <1>3, <1>4, <2>1, <2>2, <2>3 DEF GovernorRight
<1>5. CASE Wrote(e, op, Tail(todo))
  <2>1. PICK i \in 1..Len(ledger) :
           /\ events[1] = Decode(ledger, i, 1) /\ e = events[1]
           /\ ledger[i].slot <= final
           /\ row.id = About(ledger, i) /\ row.at = <<i, 1>>
           /\ e.ev = ledger[i].events[1]
           /\ Does(ledger, i) \in Closing =>
                \A j \in 1..Len(ledger) :
                  IsVote(ledger, j) /\ About(ledger, j) = About(ledger, i) => Stored(db, j)
    BY <1>3, AtHand
  <2>2. /\ ~ GovernanceRefused(db, op, row) /\ db' = GovernanceStore(db, op, row)
        /\ work' = Tail(todo) /\ to' = to
        /\ events' = IF Tail(todo) = <<>> THEN Tail(events) ELSE events
    BY <1>5 DEF Wrote, StatementRefused, Exec
  <2>3. /\ op \in GovernorOps(e.ev)
        /\ Tail(todo) # <<>> => e.ev.name = "ProposalCreated"
    <3>1. OpsFor(contract, e.ev) = GovernorOps(e.ev)
      BY DEF OpsFor
    <3> QED
      BY <3>1, StatementFits
  <2> HIDE DEF todo, op, row
  <2>4. PICK d : d = db'
    OBVIOUS
  <2>5. /\ Governed(ledger, Ids) /\ Tallied(db) /\ Proven(ledger, db, final)
        /\ Remain(ledger, db, events, cursor, to)
    BY <1>1 DEF GovernorRight
  <2>6. /\ Safe(db, d) /\ Tallied(d) /\ Proven(ledger, d, final)
        /\ RowsStay(db.votes, d.votes, DOMAIN db.votes)
        /\ IsVote(ledger, i) => Stored(d, i)
    BY <1>1, <2>1, <2>2, <2>3, <2>4, <2>5, GovernorWrites
  <2>7. Remain(ledger, d, events', cursor, to)
    <3>1. CASE Tail(todo) = <<>>
      BY <1>2, <1>3, <2>1, <2>2, <2>5, <2>6, <3>1, RemainAfter
    <3>2. CASE Tail(todo) # <<>>
      BY <2>2, <2>5, <2>6, <3>2, RemainStays
    <3> QED
      BY <3>1, <3>2
  <2>8. /\ AllWritten(ledger, d, cursor) /\ AllWritten(ledger, d, saved)
        /\ \A b \in late : AllWritten(ledger, d, b)
    BY <1>1, <2>6, WrittenStays DEF GovernorRight
  <2>9. work' # <<>> => Head(events').ev.name = "ProposalCreated"
    BY <2>2, <2>3
  <2>10. Tallied(db') /\ Proven(ledger', db', final') /\ Remain(ledger', db', events', cursor', to')
    BY <1>3, <2>2, <2>4, <2>6, <2>7
  <2>11. /\ AllWritten(ledger', db', cursor') /\ AllWritten(ledger', db', saved')
         /\ \A b \in late' : AllWritten(ledger', db', b)
    BY <1>3, <2>4, <2>8
  <2>12. start' = 0 /\ Governed(ledger', Ids')
    BY <1>1, <1>3 DEF GovernorRight
  <2>13. GovernorRight'
    BY <2>9, <2>10, <2>11, <2>12 DEF GovernorRight
  <2> QED
    BY <2>4, <2>6, <2>13
<1> QED
  BY <1>4, <1>5, WriteIs

(* A step of the process that writes no row of a table. *)
LEMMA GovernorRest ==
  ASSUME MirrorRight, contract = "governor", UNCHANGED chainVars, db' = db,
         \A b \in {cursor', saved'} \union late' : AllWritten(ledger, db, b),
         Remain(ledger, db, events', cursor', to'),
         work' # <<>> => Head(events').ev.name = "ProposalCreated"
  PROVE  GovernorRight'
<1>1. /\ ledger' = ledger /\ start' = start /\ final' = final /\ Ids' = Ids
  BY IdsSame DEF chainVars
<1>2. GovernorRight
  BY DEF MirrorRight
<1>3. start' = 0 /\ Governed(ledger', Ids') /\ Tallied(db') /\ Proven(ledger', db', final')
  BY <1>1, <1>2 DEF GovernorRight
<1>4. Remain(ledger', db', events', cursor', to')
  BY <1>1
<1>5. /\ AllWritten(ledger', db', cursor') /\ AllWritten(ledger', db', saved')
      /\ \A b \in late' : AllWritten(ledger', db', b)
  BY <1>1
<1> QED
  BY <1>3, <1>4, <1>5 DEF GovernorRight

---------------------------------------------------------------------------
(* Part 7: the indexer: every step keeps it.                             *)

(* The mirror starts right. *)

LEMMA EmptyTablesAre == TablesAre(EmptyTables) /\ Tallied(EmptyTables)
<1> DEFINE d == EmptyTables
<1>1. DOMAIN d = Columns /\ d.intervals = <<>> /\ d.votes = <<>> /\ d.proposals = <<>>
  BY DEF EmptyTables, Columns
<1> HIDE DEF d
<1>2. DOMAIN d.intervals = {} /\ DOMAIN d.votes = {} /\ DOMAIN d.proposals = {}
  BY <1>1
<1>3. IsFiniteSet(DOMAIN d.votes)
  BY <1>2, FS_EmptySet
<1>4. TablesAre(d)
  BY <1>1, <1>2 DEF TablesAre
<1>5. Tallied(d)
  BY <1>2, <1>3 DEF Tallied
<1> QED
  BY <1>4, <1>5 DEF d

LEMMA MirrorInitRight == MirrorInit => MirrorRight
<1> SUFFICES ASSUME MirrorInit PROVE MirrorRight
  OBVIOUS
<1>1. IndexerTyped
  BY MirrorInitTyped
<1>2. /\ db = EmptyTables /\ work = <<>> /\ events = <<>> /\ cursor = 0 /\ to = 0
      /\ saved = NotSaved /\ late = {}
  BY DEF MirrorInit
<1>3. TablesAre(db) /\ Tallied(db) /\ DOMAIN db.proposals = {}
  <2>1. db.proposals = <<>>
    BY <1>2 DEF EmptyTables
  <2> QED
    BY <1>2, <2>1, EmptyTablesAre
<1>4. WorkFits
  BY <1>2, EmptySeq DEF WorkFits
<1>5. ASSUME contract = "governor" PROVE GovernorRight
  <2>1. contract \notin LateKinds
    BY <1>5, MirrorAssumption
  <2>2. start = 0 /\ ledger = <<>>
    BY <2>1 DEF MirrorInit
  <2>3. Len(ledger) = 0 /\ 1..Len(ledger) = {}
    BY <2>2
  <2>4. Governed(ledger, Ids)
    BY <2>3 DEF Governed
  <2>5. \A b : AllWritten(ledger, db, b)
    BY <2>3 DEF AllWritten
  <2>6. Proven(ledger, db, final)
    BY <1>3 DEF Proven, ClosedIn
  <2>7. Remain(ledger, db, events, cursor, to)
    BY <1>2, <2>3, NothingRemains
  <2> QED
    BY <1>2, <1>3, <2>2, <2>4, <2>5, <2>6, <2>7 DEF GovernorRight
<1> QED
  BY <1>1, <1>3, <1>4, <1>5 DEF MirrorRight

---------------------------------------------------------------------------
(* A batch that is read holds every vote of its blocks. *)
LEMMA FetchRemains ==
  ASSUME MirrorRight, contract = "governor", FetchBatch
  PROVE  Remain(ledger, db, events', cursor', to')
<1> DEFINE L == ledger
           names == GovernanceFilters
           first == cursor + 1
           last == to'
           r == EvmLogsInRange(L, first, last, names)
<1>1. IndexerTyped /\ GovernorRight
  BY DEF MirrorRight
<1>2. Readable(L) /\ \A i \in 1..Len(L) : GovernorEntry(L[i], Ids)
  BY <1>1 DEF IndexerTyped, ChainTyped, GovernorRight, Governed
<1>3. events' = r /\ cursor' = cursor
  <2>1. contract \notin SvmKinds
    BY MirrorAssumption DEF SolanaHandlers
  <2>2. Filters(contract) = names
    BY DEF Filters
  <2> QED
    BY <2>1, <2>2 DEF FetchBatch, LogsInRange
<1>4. /\ Exact(r, L, first, last, names)
      /\ \A a, b \in 1..Len(r) : a < b => Before(r[a].at[1], r[a].at[2], r[b].at[1], r[b].at[2])
  <2> HIDE DEF first, last, names, L
  <2> QED
    BY <1>2, EvmReaderIsExact
<1> HIDE DEF r, first, last, L, names
<1>5. ASSUME NEW i, NEW j, Wanted(L, i, j, first, last, names)
      PROVE  j = 1 /\ i \in 1..Len(L) /\ L[i].slot \in first..last
  <2>1. i \in 1..Len(L) /\ j \in 1..Len(L[i].events) /\ L[i].slot \in first..last
    BY <1>5 DEF Wanted
  <2>2. L[i].events = <<L[i].events[1]>>
    BY <1>2, <2>1 DEF GovernorEntry
  <2>3. Len(L[i].events) = 1
    BY <2>2
  <2> QED
    BY <2>1, <2>3
<1>6. ASSUME NEW n \in 1..Len(r)
      PROVE  \E i \in 1..Len(L) : r[n] = Decode(L, i, 1) /\ L[i].slot \in first..last
  <2>1. PICK i, j : Wanted(L, i, j, first, last, names) /\ r[n] = Decode(L, i, j)
    BY <1>4 DEF Exact
  <2> QED
    BY <1>5, <2>1
<1>7. ASSUME NEW m \in 1..Len(r), NEW n \in 1..Len(r), m < n
      PROVE  r[m].at[1] < r[n].at[1]
  <2>1. Before(r[m].at[1], r[m].at[2], r[n].at[1], r[n].at[2])
    BY <1>4, <1>7
  <2>2. PICK i \in 1..Len(L), j \in 1..Len(L) : r[m] = Decode(L, i, 1) /\ r[n] = Decode(L, j, 1)
    BY <1>6
  <2>3. r[m].at = <<i, 1>> /\ r[n].at = <<j, 1>>
    BY <2>2 DEF Decode
  <2>4. r[m].at[1] = i /\ r[m].at[2] = 1 /\ r[n].at[1] = j /\ r[n].at[2] = 1
    BY <2>3
  <2> QED
    BY <2>1, <2>4 DEF Before
<1>8. ASSUME NEW i \in 1..Len(L), IsVote(L, i), L[i].slot \in first..last
      PROVE  \E n \in 1..Len(r) : r[n] = Decode(L, i, 1)
  <2>1. L[i].ok = TRUE /\ L[i].events = <<L[i].events[1]>>
    BY <1>2 DEF GovernorEntry
  <2>2. 1 \in 1..Len(L[i].events)
    <3>1. PICK x : L[i].events = <<x>>
      BY <2>1
    <3>2. Len(L[i].events) = 1
      BY ONLY <3>1
    <3> QED
      BY <3>2
  <2>3. L[i].events[1].name \in names
    BY <1>8 DEF IsVote, Does, GovernanceFilters, names
  <2>4. Wanted(L, i, 1, first, last, names)
    BY <1>8, <2>1, <2>2, <2>3 DEF Wanted
  <2> QED
    BY <1>4, <2>4 DEF Exact
<1> QED
  BY <1>3, <1>6, <1>7, <1>8 DEF Remain, L, first, last

LEMMA ChainFixed == ChainNext => contract' = contract /\ start' = start
<1>1. ContractCall => contract' = contract /\ start' = start
  BY ContractCallJoins DEF Joined1, Append1
<1> QED
  BY <1>1 DEF ChainNext, EmptyBlock, Reorg

(* Nothing the chain does disturbs the mirror. *)
LEMMA ChainKeepsGovernor ==
  ASSUME MirrorRight, contract = "governor", Idle, ChainNext, UNCHANGED mirrorVars,
         IndexerTyped', final' >= final
  PROVE  GovernorRight'
<1>1. IndexerTyped /\ GovernorRight /\ ChainTyped /\ ChainTyped'
  BY DEF MirrorRight, IndexerTyped
<1>2. Grows(ledger, ledger', final) /\ Governed(ledger', Ids)
  BY <1>1, FinalBlocksStay, GovernedNext DEF GovernorRight
<1>3. contract' = contract /\ start' = start
  BY ChainFixed
<1>4. /\ db' = db /\ saved' = saved /\ cursor' = cursor /\ to' = to /\ events' = events
      /\ work' = work /\ late' = late
  BY DEF mirrorVars, processVars
<1>5. to = 0 /\ events = <<>> /\ work = <<>>
  BY <1>1 DEF Idle, IndexerTyped, ProcessTyped
<1>6. PICK M : M = ledger'
  OBVIOUS
<1>7. PICK g : g = final'
  OBVIOUS
<1>8. /\ final \in Nat /\ g \in Nat /\ final <= g
      /\ \A i \in 1..Len(ledger) : ledger[i].slot \in Nat
      /\ \A i \in 1..Len(M) : M[i].slot \in Nat
      /\ Len(ledger) \in Nat /\ Len(M) \in Nat
  <2>1. final \in Nat /\ \A i \in 1..Len(ledger) : ledger[i].slot \in Nat
    BY <1>1 DEF ChainTyped, Readable
  <2>2. g \in Nat /\ \A i \in 1..Len(M) : M[i].slot \in Nat
    BY <1>1, <1>6, <1>7 DEF ChainTyped, Readable
  <2>3. Len(ledger) \in Nat /\ Len(M) \in Nat
    BY <1>1, <1>6, LengthIsNat DEF ChainTyped, Readable
  <2> QED
    BY <1>7, <2>1, <2>2, <2>3
<1>9. Grows(ledger, M, final) /\ Governed(M, Ids)
  BY <1>2, <1>6
<1>10. ASSUME NEW b \in Int, b <= final, AllWritten(ledger, db, b)
       PROVE  AllWritten(M, db, b)
  BY ONLY <1>8, <1>9, <1>10, AllWrittenNext
<1>11. cursor \in Int /\ cursor <= final /\ saved \in Int /\ saved <= final
       /\ \A b \in late : b \in Int /\ b <= final
  BY <1>1, <1>8 DEF IndexerTyped, ProcessTyped, NotSaved
<1>12. /\ AllWritten(M, db, cursor) /\ AllWritten(M, db, saved)
       /\ \A b \in late : AllWritten(M, db, b)
  BY <1>1, <1>10, <1>11 DEF GovernorRight
<1>13. Proven(M, db, g)
  <2>1. Proven(ledger, db, final)
    BY <1>1 DEF GovernorRight
  <2> QED
    BY ONLY <1>8, <1>9, <2>1, ProvenNext
<1>14. Remain(M, db, events, cursor, 0)
  <2>1. cursor \in Nat
    BY <1>1, <1>8 DEF IndexerTyped, ProcessTyped
  <2> QED
    BY ONLY <1>5, <1>8, <2>1, NothingRemains
<1>15. Ids' = Ids
  BY <1>3, IdsSame
<1>16. start' = 0 /\ Tallied(db') /\ Governed(ledger', Ids')
  BY <1>1, <1>2, <1>3, <1>4, <1>15 DEF GovernorRight
<1>17. /\ AllWritten(ledger', db', cursor') /\ AllWritten(ledger', db', saved')
       /\ \A b \in late' : AllWritten(ledger', db', b)
  BY <1>4, <1>6, <1>12
<1>18. Proven(ledger', db', final') /\ Remain(ledger', db', events', cursor', to')
  BY <1>4, <1>5, <1>6, <1>7, <1>13, <1>14
<1>19. work' = <<>>
  BY <1>4, <1>5
<1> QED
  BY <1>16, <1>17, <1>18, <1>19 DEF GovernorRight

---------------------------------------------------------------------------
(* The step of the process between two statements. *)

(* What the process may hold of the chain's votes after a step that writes *)
(* no row.                                                                 *)
LEMMA GovernorReads ==
  ASSUME MirrorRight, contract = "governor",
         RestoreCursor \/ FetchBatch \/ CommitBatch \/ LoseStep \/ Crash \/ LateSave
  PROVE  GovernorRight'
<1>1. /\ IndexerTyped /\ GovernorRight
  BY DEF MirrorRight
<1>2. /\ cursor \in Nat /\ to \in Nat /\ saved \in {NotSaved} \union Nat /\ start = 0
      /\ late \subseteq Nat
      /\ to = 0 => events = <<>>
      /\ events = <<>> => work = <<>>
  <2>1. /\ final \in Nat /\ cursor \in 0..final /\ to \in 0..final
        /\ saved \in {NotSaved} \union 0..final /\ late \subseteq 1..final
    BY <1>1 DEF IndexerTyped, ChainTyped, ProcessTyped
  <2> QED
    BY <1>1, <2>1 DEF IndexerTyped, ProcessTyped, GovernorRight
<1>3. /\ \A i \in 1..Len(ledger) : ledger[i].slot \in Nat
      /\ \A i \in 1..Len(ledger) : ledger[i].slot \in 1..head
  BY <1>1 DEF IndexerTyped, ChainTyped, Readable
<1>4. AllWritten(ledger, db, 0)
  BY <1>3, NothingBefore
<1>5. /\ AllWritten(ledger, db, cursor) /\ AllWritten(ledger, db, saved)
      /\ \A b \in late : AllWritten(ledger, db, b)
      /\ Remain(ledger, db, events, cursor, to)
      /\ work # <<>> => Head(events).ev.name = "ProposalCreated"
  BY <1>1 DEF GovernorRight
<1>6. ASSUME events = <<>> PROVE AllWritten(ledger, db, to)
  BY <1>2, <1>3, <1>5, <1>6, WrittenThrough
<1>7. ASSUME NEW b \in Nat, AllWritten(ledger, db, b)
      PROVE  AllWritten(ledger, db, SaveCursor(b))
  BY <1>5, <1>7 DEF SaveCursor
<1>8. ASSUME NEW c \in Nat PROVE Remain(ledger, db, <<>>, c, 0)
  BY <1>3, NothingRemains
<1>9. CASE RestoreCursor
  <2>1. /\ UNCHANGED chainVars /\ db' = db /\ late' = late
        /\ to' = 0 /\ events' = <<>> /\ work' = <<>>
    <3>1. to = 0
      BY <1>1, <1>9 DEF RestoreCursor, IndexerTyped, ProcessTyped
    <3> QED
      BY <1>2, <1>9, <3>1 DEF RestoreCursor
  <2>2. cursor' \in Nat /\ AllWritten(ledger, db, cursor') /\ AllWritten(ledger, db, saved')
    <3>1. CASE saved = NotSaved
      <4>1. cursor' = 0 /\ saved' = SaveCursor(0)
        BY <1>2, <1>9, <3>1 DEF RestoreCursor
      <4> QED
        BY <1>4, <1>7, <4>1
    <3>2. CASE saved # NotSaved
      <4>1. cursor' = saved /\ saved' = saved
        BY <1>9, <3>2 DEF RestoreCursor
      <4> QED
        BY <1>2, <1>5, <3>2, <4>1
    <3> QED
      BY <3>1, <3>2
  <2>3. Remain(ledger, db, events', cursor', to')
    BY <1>8, <2>1, <2>2
  <2> QED
    BY <1>5, <2>1, <2>2, <2>3, GovernorRest
<1>10. CASE FetchBatch
  <2>1. /\ UNCHANGED chainVars /\ db' = db /\ cursor' = cursor /\ saved' = saved /\ late' = late
        /\ work' = <<>>
    BY <1>2, <1>10 DEF FetchBatch, Idle
  <2>2. Remain(ledger, db, events', cursor', to')
    BY <1>10, FetchRemains
  <2> QED
    BY <1>5, <2>1, <2>2, GovernorRest
<1>11. CASE CommitBatch
  <2>1. /\ UNCHANGED chainVars /\ db' = db /\ cursor' = to /\ saved' = SaveCursor(to)
        /\ to' = 0 /\ events' = <<>> /\ events = <<>> /\ work' = <<>> /\ late' = late
    BY <1>2, <1>11 DEF CommitBatch
  <2>2. AllWritten(ledger, db, cursor') /\ AllWritten(ledger, db, saved')
    BY <1>2, <1>6, <1>7, <2>1
  <2>3. Remain(ledger, db, events', cursor', to')
    BY <1>2, <1>8, <2>1
  <2> QED
    BY <1>5, <2>1, <2>2, <2>3, GovernorRest
<1>12. CASE LoseStep
  <2>1. /\ UNCHANGED chainVars /\ db' = db /\ cursor' = cursor /\ saved' = saved /\ late' = late
        /\ to' = 0 /\ events' = <<>> /\ work' = <<>>
    BY <1>12 DEF LoseStep, StepFails
  <2>2. Remain(ledger, db, events', cursor', to')
    BY <1>2, <1>8, <2>1
  <2> QED
    BY <1>5, <2>1, <2>2, GovernorRest
<1>13. CASE Crash
  <2>1. /\ UNCHANGED chainVars /\ db' = db /\ cursor' = 0 /\ saved' = saved
        /\ to' = 0 /\ events' = <<>> /\ work' = <<>>
        /\ (late' = late \/ (events = <<>> /\ late' = late \union {to}))
    BY <1>13 DEF Crash, StepFails
  <2>2. \A b \in late' : AllWritten(ledger, db, b)
    BY <1>5, <1>6, <2>1
  <2>3. Remain(ledger, db, events', cursor', to')
    BY <1>8, <2>1
  <2> QED
    BY <1>4, <1>5, <2>1, <2>2, <2>3, GovernorRest
<1>14. CASE LateSave
  <2>1. PICK b \in late : saved' = SaveCursor(b) /\ late' = late
    BY <1>14 DEF LateSave
  <2>2. /\ UNCHANGED chainVars /\ db' = db /\ cursor' = cursor /\ to' = to /\ events' = events
        /\ work' = work
    BY <1>14 DEF LateSave, processVars
  <2>3. AllWritten(ledger, db, saved') /\ \A x \in late' : AllWritten(ledger, db, x)
    BY <1>2, <1>5, <1>7, <2>1
  <2> QED
    BY <1>5, <2>2, <2>3, GovernorRest
<1> QED
  BY <1>9, <1>10, <1>11, <1>12, <1>13, <1>14

(* The statements left after such a step. *)
LEMMA RestFits ==
  ASSUME MirrorRight, IndexerTyped',
         \/ RestoreCursor \/ FetchBatch \/ CommitBatch \/ LoseStep \/ Crash \/ LateSave
         \/ (ChainNext /\ UNCHANGED mirrorVars) \/ UNCHANGED indexerVars
  PROVE  db' = db /\ WorkFits'
<1>1. contract' = contract /\ db' = db
  BY ChainFixed DEF RestoreCursor, FetchBatch, CommitBatch, LoseStep, Crash, LateSave, chainVars,
                    mirrorVars, indexerVars
<1>2. CASE work' = <<>>
  BY <1>1, <1>2, EmptySeq DEF WorkFits
<1>3. CASE work' = work /\ events' = events
  BY <1>1, <1>3 DEF WorkFits, MirrorRight
<1>4. work' = <<>> \/ (work' = work /\ events' = events)
  <2>1. CASE RestoreCursor \/ CommitBatch \/ LateSave \/ UNCHANGED mirrorVars
    BY <2>1 DEF RestoreCursor, CommitBatch, LateSave, mirrorVars, processVars
  <2>2. CASE FetchBatch
    BY <2>2 DEF FetchBatch, Idle, MirrorRight, IndexerTyped, ProcessTyped
  <2>3. CASE LoseStep \/ Crash
    BY <2>3 DEF LoseStep, Crash, StepFails
  <2> QED
    BY <2>1, <2>2, <2>3 DEF indexerVars
<1> QED
  BY <1>1, <1>2, <1>3, <1>4

LEMMA MirrorStepRight ==
  ASSUME MirrorRight, [MirrorNext]_indexerVars
  PROVE  MirrorRight' /\ Kept(db, db')
<1>1. IndexerTyped /\ TablesAre(db) /\ IndexerTyped' /\ final' >= final
  <2>1. IndexerTyped /\ TablesAre(db)
    BY DEF MirrorRight
  <2> QED
    BY <2>1, IndexerStepTyped
<1>2. CASE WriteStatement
  <2>1. contract' = contract
    BY <1>2 DEF WriteStatement, chainVars
  <2>2. WorkFits'
    BY <1>2, WriteFits
  <2>3. Safe(db, db') /\ (contract = "governor" => GovernorRight')
    BY <1>2, GovernorWrite, OthersWrite
  <2> QED
    BY <1>1, <2>1, <2>2, <2>3 DEF Safe, MirrorRight
<1>3. ASSUME \/ RestoreCursor \/ FetchBatch \/ CommitBatch \/ LoseStep \/ Crash \/ LateSave
             \/ (ChainNext /\ UNCHANGED mirrorVars) \/ UNCHANGED indexerVars,
             contract' = contract, contract = "governor" => GovernorRight'
      PROVE  MirrorRight' /\ Kept(db, db')
  <2>1. db' = db /\ WorkFits'
    BY <1>1, <1>3, RestFits
  <2>2. Safe(db, db)
    BY <1>1, SameSafe
  <2>3. TablesAre(db') /\ Kept(db, db')
    BY <1>1, <2>1, <2>2 DEF Safe
  <2> QED
    BY <1>1, <1>3, <2>1, <2>3 DEF MirrorRight
<1>4. CASE RestoreCursor \/ FetchBatch \/ CommitBatch \/ LoseStep \/ Crash \/ LateSave
  <2>1. contract' = contract
    BY <1>4 DEF RestoreCursor, FetchBatch, CommitBatch, LoseStep, Crash, LateSave, chainVars
  <2> QED
    BY <1>3, <1>4, <2>1, GovernorReads
<1>5. CASE Idle /\ ChainNext /\ UNCHANGED mirrorVars
  <2>1. contract' = contract
    BY <1>5, ChainFixed
  <2>2. contract = "governor" => GovernorRight'
    BY <1>1, <1>5, ChainKeepsGovernor
  <2> QED
    BY <1>3, <1>5, <2>1, <2>2
<1>6. CASE UNCHANGED indexerVars
  <2>1. /\ UNCHANGED chainVars /\ db' = db /\ cursor' = cursor /\ to' = to /\ events' = events
        /\ work' = work /\ saved' = saved /\ late' = late
    BY <1>6 DEF indexerVars, mirrorVars, processVars
  <2>2. contract' = contract
    BY <2>1 DEF chainVars
  <2>3. contract = "governor" => GovernorRight'
    BY <2>1, GovernorRest DEF MirrorRight, GovernorRight
  <2> QED
    BY <1>3, <1>6, <2>2, <2>3
<1> QED
  BY <1>2, <1>4, <1>5, <1>6 DEF MirrorNext, Process

(* A governor's tables are right about what they hold, whatever was        *)
(* retried, replayed or reorganised: every proposal row carries the sums   *)
(* of the votes stored for it (governance.go:36-50), and a proposal is   *)
(* only shown closed when a transaction of a final block closed it, so,    *)
(* and no vote on it is missing.                                           *)
THEOREM ClosedProposalsAreComplete ==
  MirrorSpec => [](contract = "governor" => Tallied(db) /\ Proven(ledger, db, final))
<1>1. MirrorRight /\ [MirrorNext]_indexerVars => MirrorRight'
  BY MirrorStepRight
<1>2. MirrorRight => (contract = "governor" => Tallied(db) /\ Proven(ledger, db, final))
  BY DEF MirrorRight, GovernorRight
<1> QED
  BY <1>1, <1>2, MirrorInitRight, PTL DEF MirrorSpec

(* No statement of any handler changes or removes a final row.  For most   *)
(* tables the statement's own guard or conflict clause is enough; an       *)
(* executed or cancelled proposal also needs its last vote to be stored    *)
(* before it is closed, as a vote writes the tally of its proposal         *)
(* whatever state that is in: batches in block order and a cursor saved    *)
(* after the batch see to it (indexer.go:138-155, governance.go:52-80).    *)
THEOREM FinalRowsAreKept == MirrorSpec => FinalRowsStay
<1>1. ASSUME Kept(db, db')
      PROVE  \A t \in DOMAIN FinalRows : \A k \in FinalRows[t] :
               k \in DOMAIN db'[t] /\ db'[t][k] = db[t][k]
  <2>1. FinalRows = FinalKeys(db)
    BY DEF FinalRows, FinalKeys
  <2>2. PICK e : e = db'
    OBVIOUS
  <2>3. \A t \in DOMAIN FinalKeys(db) : \A k \in FinalKeys(db)[t] :
          k \in DOMAIN e[t] /\ e[t][k] = db[t][k]
    BY <1>1, <2>2, KeptIs
  <2> QED
    BY <2>1, <2>2, <2>3
<1>2. MirrorRight /\ [MirrorNext]_indexerVars => MirrorRight'
  BY MirrorStepRight
<1>3. MirrorRight /\ [MirrorNext]_indexerVars =>
        [\A t \in DOMAIN FinalRows : \A k \in FinalRows[t] :
           k \in DOMAIN db'[t] /\ db'[t][k] = db[t][k]]_indexerVars
  BY <1>1, MirrorStepRight
<1> QED
  BY <1>2, <1>3, MirrorInitRight, PTL DEF MirrorSpec, FinalRowsStay

---------------------------------------------------------------------------
(* Part 8: the indexer: every event is stored once.                      *)

(* The events that have a row of their own, and that row. *)

Logged ==
  {"VoteCast", "Deposited", "Withdrawn", "SubmissionReceived", "NodeSlashed",
   "CommitmentInserted", "PrivateActionExecuted"}

(* Those a contract of this kind emits. *)
LoggedBy(which) == Logged \cap Filters(which)

TableOf(name) ==
  CASE name = "VoteCast" -> "votes"
    [] name = "Deposited" -> "deposits"
    [] name = "Withdrawn" -> "withdrawals"
    [] name = "SubmissionReceived" -> "submissions"
    [] name = "NodeSlashed" -> "slashings"
    [] name = "CommitmentInserted" -> "leaves"
    [] name = "PrivateActionExecuted" -> "spent"

InsertOf(name) ==
  CASE name = "VoteCast" -> "InsertGovernanceVote"
    [] name = "Deposited" -> "InsertVaultDeposit"
    [] name = "Withdrawn" -> "InsertVaultWithdrawal"
    [] name = "SubmissionReceived" -> "InsertOracleSubmission"
    [] name = "NodeSlashed" -> "RecordOracleSlash"
    [] name = "CommitmentInserted" -> "InsertZkCommitment"
    [] name = "PrivateActionExecuted" -> "InsertZkPrivateAction"

KeyFor(name, ev) ==
  CASE name \in {"VoteCast", "SubmissionReceived"} -> <<ev.id, ev.who>>
    [] name = "NodeSlashed" -> <<ev.who, ev.id>>
    [] name \in {"CommitmentInserted", "PrivateActionExecuted"} -> ev.id
    [] name \in {"Deposited", "Withdrawn"} -> ev.at

RowFor(name, ev) ==
  CASE name = "VoteCast" -> [support |-> ev.support, weight |-> ev.weight, at |-> ev.at]
    [] name \in {"Deposited", "Withdrawn"} ->
         [user |-> ev.who, shares |-> ev.shares, at |-> ev.at]
    [] name = "SubmissionReceived" -> [value |-> ev.value, at |-> ev.at]
    [] name = "NodeSlashed" -> [amount |-> ev.amount, at |-> ev.at]
    [] name = "CommitmentInserted" -> [commitment |-> ev.commitment, at |-> ev.at]
    [] name = "PrivateActionExecuted" -> [action |-> ev.action, at |-> ev.at]

Inserts ==
  {"InsertGovernanceVote", "InsertVaultDeposit", "InsertVaultWithdrawal",
   "InsertOracleSubmission", "RecordOracleSlash", "InsertZkCommitment", "InsertZkPrivateAction"}

LogTables ==
  {"votes", "deposits", "withdrawals", "submissions", "slashings", "leaves", "spent"}

(* The row of the event x, decoded, is in the tables d. *)
IsRowOf(d, name, k, x) ==
  k = KeyFor(name, EventRow(x)) /\ d[TableOf(name)][k] = RowFor(name, EventRow(x))

HasRow(d, name, x) == \E k \in DOMAIN d[TableOf(name)] : IsRowOf(d, name, k, x)

(* Every row is an event's of a block up to b. *)
RowsAreEvents(d, L, b) ==
  \A name \in Logged : \A k \in DOMAIN d[TableOf(name)] :
    \E i, j : Wanted(L, i, j, 1, b, {name}) /\ IsRowOf(d, name, k, Decode(L, i, j))

(* Every event of the blocks first..last that has one of the names has its row. *)
EventsHaveRows(d, L, first, last, names) ==
  \A i, j : Wanted(L, i, j, first, last, names) => HasRow(d, L[i].events[j].name, Decode(L, i, j))

(* No two rows of one event. *)
OneRowEach(d) ==
  \A name \in Logged : \A k, l \in DOMAIN d[TableOf(name)] :
    (d[TableOf(name)][k].at = d[TableOf(name)][l].at) => k = l

LEMMA LoggedNames ==
  ASSUME NEW name \in Logged
  PROVE  TableOf(name) \in LogTables /\ InsertOf(name) \in Inserts
BY DEF Logged, TableOf, LogTables, InsertOf, Inserts

LEMMA NamesDiffer ==
  ASSUME NEW m \in Logged, NEW n \in Logged, m # n
  PROVE  TableOf(m) # TableOf(n)
BY DEF Logged, TableOf

LEMMA LogColumns == LogTables \subseteq Columns
BY DEF LogTables, Columns

LEMMA RowPlace ==
  ASSUME NEW name \in Logged, NEW L, NEW i, NEW j
  PROVE  RowFor(name, EventRow(Decode(L, i, j))).at = <<i, j>>
<1>1. PICK x : x = Decode(L, i, j)
  OBVIOUS
<1>2. x.at = <<i, j>>
  BY <1>1 DEF Decode
<1>3. EventRow(x).at = <<i, j>>
  BY <1>2 DEF EventRow
<1>4. PICK ev : ev = EventRow(x)
  OBVIOUS
<1>5. RowFor(name, ev).at = ev.at
  BY DEF RowFor, Logged
<1> QED
  BY <1>1, <1>3, <1>4, <1>5

(* Two rows of one event would have to have one key. *)
LEMMA RowsAreDistinct ==
  ASSUME NEW d, NEW L, NEW b, RowsAreEvents(d, L, b)
  PROVE  OneRowEach(d)
<1> SUFFICES ASSUME NEW name \in Logged, NEW k \in DOMAIN d[TableOf(name)],
                    NEW l \in DOMAIN d[TableOf(name)],
                    d[TableOf(name)][k].at = d[TableOf(name)][l].at
             PROVE  k = l
  BY DEF OneRowEach
<1>1. PICK i, j : IsRowOf(d, name, k, Decode(L, i, j))
  BY DEF RowsAreEvents
<1>2. PICK m, n : IsRowOf(d, name, l, Decode(L, m, n))
  BY DEF RowsAreEvents
<1>3. d[TableOf(name)][k].at = <<i, j>> /\ d[TableOf(name)][l].at = <<m, n>>
  BY <1>1, <1>2, RowPlace DEF IsRowOf
<1>4. i = m /\ j = n
  <2>1. <<i, j>> = <<m, n>>
    BY <1>3
  <2> QED
    BY ONLY <2>1
<1> QED
  BY <1>1, <1>2, <1>4 DEF IsRowOf

---------------------------------------------------------------------------
(* What the statements do to the tables with a row for each event. *)

Untouched(d, e) == \A t \in LogTables : e[t] = d[t]

LEMMA ElsewhereUntouched ==
  ASSUME NEW d, TablesAre(d), NEW c \in Columns \ LogTables, NEW v, NEW e,
         e = [d EXCEPT ![c] = v]
  PROVE  Untouched(d, e)
<1>1. Others(d, e, c)
  BY SetIsOthers DEF TablesAre
<1> QED
  BY <1>1, LogColumns DEF Others, Untouched

LEMMA ElsewhereIs ==
  {"parents", "proposals", "remote", "feeds", "rounds", "nodes", "intervals", "actions"}
    \subseteq Columns \ LogTables
BY DEF Columns, LogTables

LEMMA SameUntouched == ASSUME NEW d PROVE Untouched(d, d)
BY DEF Untouched

LEMMA GovernorUntouched ==
  ASSUME NEW d, TablesAre(d), NEW ev, NEW op \in GovernorOps(ev), op \notin Inserts, NEW row
  PROVE  Untouched(d, GovernanceStore(d, op, row))
<1> USE ElsewhereIs
<1>1. ASSUME NEW state PROVE Untouched(d, MarkProposal(d, row, state))
  <2>1. \/ MarkProposal(d, row, state) = d
        \/ \E v : MarkProposal(d, row, state) = [d EXCEPT !["proposals"] = v]
    BY DEF MarkProposal
  <2> QED
    BY <2>1, ElsewhereUntouched, SameUntouched
<1>2. CASE op = "UpsertAsset"
  BY <1>2, ElsewhereUntouched DEF GovernanceStore, UpsertAsset
<1>3. CASE op = "UpsertGovernor"
  BY <1>3, ElsewhereUntouched DEF GovernanceStore, UpsertGovernor
<1>4. CASE op = "InsertGovernanceProposal"
  BY <1>4, ElsewhereUntouched DEF GovernanceStore, InsertGovernanceProposal
<1>5. CASE op = "MarkProposalQueued"
  BY <1>1, <1>5 DEF GovernanceStore
<1>6. CASE op = "MarkProposalDispatched"
  BY <1>1, <1>6 DEF GovernanceStore
<1>7. CASE op = "MarkProposalExecuted"
  BY <1>1, <1>7 DEF GovernanceStore
<1>8. CASE op = "MarkProposalCancelled"
  BY <1>1, <1>8 DEF GovernanceStore
<1> QED
  BY <1>2, <1>3, <1>4, <1>5, <1>6, <1>7, <1>8 DEF GovernorOps, Inserts

LEMMA RoundsUntouched ==
  ASSUME NEW d, TablesAre(d), NEW op \in RoundsOps, op \notin Inserts, NEW row
  PROVE  Untouched(d, OracleRoundStore(d, op, row))
<1> USE ElsewhereIs
<1>1. ASSUME NEW from, NEW new PROVE Untouched(d, MoveRound(d, row, from, new))
  <2>1. \/ MoveRound(d, row, from, new) = d
        \/ \E v : MoveRound(d, row, from, new) = [d EXCEPT !["rounds"] = v]
    BY DEF MoveRound
  <2> QED
    BY <2>1, ElsewhereUntouched, SameUntouched
<1>2. CASE op = "UpsertOracleFeed"
  BY <1>2, ElsewhereUntouched DEF OracleRoundStore, UpsertOracleFeed
<1>3. CASE op = "EnsureOracleFeed"
  BY <1>3, ElsewhereUntouched DEF OracleRoundStore, EnsureOracleFeed
<1>4. CASE op = "DeactivateOracleFeed"
  <2>1. \/ OracleRoundStore(d, op, row) = d
        \/ \E v : OracleRoundStore(d, op, row) = [d EXCEPT !["feeds"] = v]
    BY <1>4 DEF OracleRoundStore, DeactivateOracleFeed
  <2> QED
    BY <2>1, ElsewhereUntouched, SameUntouched
<1>5. CASE op = "InsertOracleRound"
  BY <1>5, ElsewhereUntouched DEF OracleRoundStore, InsertOracleRound
<1>6. CASE op = "MarkOracleRoundQuorumMet"
  BY <1>1, <1>6 DEF OracleRoundStore, MarkOracleRoundQuorumMet
<1>7. CASE op = "SettleOracleRound"
  BY <1>1, <1>7 DEF OracleRoundStore, SettleOracleRound
<1>8. CASE op = "FailOracleRound"
  BY <1>1, <1>8 DEF OracleRoundStore, FailOracleRound
<1> QED
  BY <1>2, <1>3, <1>4, <1>5, <1>6, <1>7, <1>8 DEF RoundsOps, Inserts

LEMMA NodesUntouched ==
  ASSUME NEW d, TablesAre(d), NEW row, NEW x
  PROVE  /\ Untouched(d, SetOracleNodeStake(d, row)) /\ Untouched(d, SetOracleNodeUnstake(d, row, x))
         /\ Untouched(d, SetOracleNodeActive(d, row, x)) /\ Untouched(d, UpsertOracleNode(d, row))
<1> USE ElsewhereIs
<1>1. Untouched(d, UpsertOracleNode(d, row))
  BY ElsewhereUntouched DEF UpsertOracleNode
<1>2. ASSUME NEW e, e = d \/ \E v : e = [d EXCEPT !["nodes"] = v] PROVE Untouched(d, e)
  BY <1>2, ElsewhereUntouched, SameUntouched
<1>3. Untouched(d, SetOracleNodeStake(d, row))
  BY <1>2 DEF SetOracleNodeStake
<1>4. Untouched(d, SetOracleNodeUnstake(d, row, x))
  BY <1>2 DEF SetOracleNodeUnstake
<1>5. Untouched(d, SetOracleNodeActive(d, row, x))
  BY <1>2 DEF SetOracleNodeActive
<1> QED
  BY <1>1, <1>3, <1>4, <1>5

LEMMA StakingUntouched ==
  ASSUME NEW d, TablesAre(d), NEW op \in StakingOps, op \notin Inserts, NEW row
  PROVE  Untouched(d, OracleNodeStore(d, op, row))
<1> USE ElsewhereIs
<1>1. CASE op = "UpsertAsset"
  BY <1>1, ElsewhereUntouched DEF OracleNodeStore, UpsertAsset
<1>2. CASE op = "UpsertOracleNode"
  BY <1>2, NodesUntouched DEF OracleNodeStore
<1>3. CASE op = "SetOracleNodeStake"
  BY <1>3, NodesUntouched DEF OracleNodeStore
<1>4. CASE op \in {"SetOracleNodeUnstake", "ClearOracleNodeUnstake"}
  BY <1>4, NodesUntouched DEF OracleNodeStore
<1>5. CASE op \in {"SetOracleNodeActive", "SetOracleNodeInactive"}
  BY <1>5, NodesUntouched DEF OracleNodeStore
<1>6. CASE op = "OpenOracleNodeInterval"
  BY <1>6, ElsewhereUntouched DEF OracleNodeStore, OpenOracleNodeInterval
<1>7. CASE op = "CloseOracleNodeInterval"
  <2>1. \/ OracleNodeStore(d, op, row) = d
        \/ \E v : OracleNodeStore(d, op, row) = [d EXCEPT !["intervals"] = v]
    BY <1>7 DEF OracleNodeStore, CloseOracleNodeInterval
  <2> QED
    BY <2>1, ElsewhereUntouched, SameUntouched
<1> QED
  BY <1>1, <1>2, <1>3, <1>4, <1>5, <1>6, <1>7 DEF StakingOps, Inserts

LEMMA RestUntouched ==
  ASSUME NEW d, TablesAre(d), NEW op, op \notin Inserts, NEW row
  PROVE  /\ op \in ReceiverOps => Untouched(d, GovernanceReceiverStore(d, op, row))
         /\ op \in VaultOps => Untouched(d, VaultStore(d, op, row))
         /\ op \in ZkOps => Untouched(d, ZkStore(d, op, row))
<1> USE ElsewhereIs
<1>1. ASSUME op \in ReceiverOps PROVE Untouched(d, GovernanceReceiverStore(d, op, row))
  <2>1. \/ GovernanceReceiverStore(d, op, row) = d
        \/ \E v : GovernanceReceiverStore(d, op, row) = [d EXCEPT !["remote"] = v]
    BY <1>1 DEF GovernanceReceiverStore, ReceiverOps, InsertRemoteAction, CloseRemoteAction
  <2> QED
    BY <2>1, ElsewhereUntouched, SameUntouched
<1>2. ASSUME op \in VaultOps PROVE Untouched(d, VaultStore(d, op, row))
  <2>1. \E v : VaultStore(d, op, row) = [d EXCEPT !["parents"] = v]
    BY <1>2 DEF VaultStore, VaultOps, Inserts, UpsertAsset, UpsertVault
  <2> QED
    BY <2>1, ElsewhereUntouched
<1>3. ASSUME op \in ZkOps PROVE Untouched(d, ZkStore(d, op, row))
  <2>1. \/ ZkStore(d, op, row) = d
        \/ \E v : ZkStore(d, op, row) = [d EXCEPT !["parents"] = v]
        \/ \E v : ZkStore(d, op, row) = [d EXCEPT !["actions"] = v]
    BY <1>3 DEF ZkStore, ZkOps, Inserts, UpsertZkGate, UpsertZkAction, DeregisterZkAction
  <2> QED
    BY <2>1, ElsewhereUntouched, SameUntouched
<1> QED
  BY <1>1, <1>2, <1>3

LEMMA OthersUntouched ==
  ASSUME NEW which \in {"governor", "receiver", "vault", "rounds", "staking", "zk"},
         NEW d, TablesAre(d), NEW ev, NEW op \in OpsFor(which, ev), op \notin Inserts, NEW row
  PROVE  Untouched(d, Exec(which, d, op, row))
BY GovernorUntouched, RoundsUntouched, StakingUntouched, RestUntouched DEF OpsFor, Exec

LEMMA InsertedIs ==
  ASSUME NEW d, DOMAIN d = Columns, NEW c \in LogTables, NEW key, NEW new, NEW e,
         e = [d EXCEPT ![c] = InsertNew(d[c], key, new)]
  PROVE  /\ \A t \in LogTables \ {c} : e[t] = d[t]
         /\ e[c] = InsertNew(d[c], key, new)
BY LogColumns

(* What the insert of an event does: nothing, when the event is there, and *)
(* a new row otherwise.                                                    *)
Inserted(d, e, name, row) ==
  /\ \A t \in LogTables \ {TableOf(name)} : e[t] = d[t]
  /\ From(d[TableOf(name)], row) # {} => e[TableOf(name)] = d[TableOf(name)]
  /\ From(d[TableOf(name)], row) = {} =>
       /\ KeyFor(name, row) \notin DOMAIN d[TableOf(name)]
       /\ e[TableOf(name)] =
            InsertNew(d[TableOf(name)], KeyFor(name, row), RowFor(name, row))

LEMMA FreshKey ==
  ASSUME NEW table, NEW key, NEW row, From(table, row) = {}, ~ Taken(table, key, row)
  PROVE  key \notin DOMAIN table
BY DEF From, Taken

(* An insert that leaves out an event that is there, and then changes      *)
(* tables of another kind.                                                 *)
LEMMA InsertIs ==
  ASSUME NEW d, DOMAIN d = Columns, NEW name \in Logged, NEW row,
         From(d[TableOf(name)], row) = {} => KeyFor(name, row) \notin DOMAIN d[TableOf(name)],
         NEW m, m = IF From(d[TableOf(name)], row) # {} THEN d
                    ELSE [d EXCEPT ![TableOf(name)] =
                            InsertNew(d[TableOf(name)], KeyFor(name, row), RowFor(name, row))],
         NEW e, Untouched(m, e)
  PROVE  Inserted(d, e, name, row)
<1> DEFINE c == TableOf(name)
<1>1. c \in LogTables
  BY LoggedNames
<1> HIDE DEF c
<1>2. CASE From(d[c], row) # {}
  <2>1. \A t \in LogTables : e[t] = d[t]
    BY <1>2 DEF Untouched, c
  <2> QED
    BY <1>1, <1>2, <2>1 DEF Inserted, c
<1>3. CASE From(d[c], row) = {}
  <2>1. m = [d EXCEPT ![c] = InsertNew(d[c], KeyFor(name, row), RowFor(name, row))]
    BY <1>3 DEF c
  <2>2. PICK key, new : key = KeyFor(name, row) /\ new = RowFor(name, row)
    OBVIOUS
  <2>3. m = [d EXCEPT ![c] = InsertNew(d[c], key, new)]
    BY <2>1, <2>2
  <2>4. /\ \A t \in LogTables \ {c} : m[t] = d[t]
        /\ m[c] = InsertNew(d[c], key, new)
    BY <1>1, <2>3, LogColumns
  <2>5. /\ \A t \in LogTables \ {c} : e[t] = d[t]
        /\ e[c] = InsertNew(d[c], key, new)
    BY <1>1, <2>4 DEF Untouched
  <2> QED
    BY <1>3, <2>2, <2>5 DEF Inserted, c
<1> QED
  BY <1>2, <1>3

LEMMA InsertsAre ==
  ASSUME NEW which \in {"governor", "receiver", "vault", "rounds", "staking", "zk"},
         NEW name \in LoggedBy(which), NEW d, TablesAre(d), NEW row,
         name \in {"Deposited", "Withdrawn"} =>
           \A k \in DOMAIN d[TableOf(name)] : k = d[TableOf(name)][k].at,
         ~ StatementRefused(which, d, InsertOf(name), row),
         NEW e, e = Exec(which, d, InsertOf(name), row)
  PROVE  Inserted(d, e, name, row)
<1>1. DOMAIN d = Columns /\ name \in Logged
  BY DEF TablesAre, LoggedBy
<1>2. CASE name = "VoteCast"
  <2>1. which = "governor" /\ TableOf(name) = "votes" /\ InsertOf(name) = "InsertGovernanceVote"
    BY <1>2 DEF LoggedBy, Filters, GovernanceFilters, GovernanceReceiverFilters, VaultFilters,
                OracleRoundsFilters, OracleStakingFilters, ZkFilters, TableOf, InsertOf
  <2>2. /\ KeyFor(name, row) = <<row.id, row.who>>
        /\ RowFor(name, row) = [support |-> row.support, weight |-> row.weight, at |-> row.at]
    BY <1>2 DEF KeyFor, RowFor
  <2>3. e = RetallyProposal(InsertVote(d, row), row.id)
    BY <2>1 DEF Exec, GovernanceStore, InsertGovernanceVote
  <2>4. From(d.votes, row) = {} => <<row.id, row.who>> \notin DOMAIN d.votes
    BY <2>1, FreshKey DEF StatementRefused, GovernanceRefused, New
  <2>5. PICK m : m = InsertVote(d, row)
    OBVIOUS
  <2>6. m = IF From(d["votes"], row) # {} THEN d
            ELSE [d EXCEPT !["votes"] =
                    InsertNew(d["votes"], KeyFor(name, row), RowFor(name, row))]
    BY <2>2, <2>5 DEF InsertVote
  <2>7. TablesAre(m)
    <3>1. "votes" \in Columns
      BY DEF Columns
    <3> QED
      BY <2>6, <3>1, InsertSafe DEF Safe
  <2>8. Untouched(m, e)
    <3>1. e = m \/ \E v : e = [m EXCEPT !["proposals"] = v]
      BY <2>3, <2>5 DEF RetallyProposal
    <3> QED
      BY <2>7, <3>1, ElsewhereIs, ElsewhereUntouched, SameUntouched
  <2> QED
    BY <1>1, <2>1, <2>2, <2>4, <2>6, <2>8, InsertIs
<1>3. CASE name = "NodeSlashed"
  <2>1. which = "staking" /\ TableOf(name) = "slashings" /\ InsertOf(name) = "RecordOracleSlash"
    BY <1>3 DEF LoggedBy, Filters, GovernanceFilters, GovernanceReceiverFilters, VaultFilters,
                OracleRoundsFilters, OracleStakingFilters, ZkFilters, TableOf, InsertOf
  <2>2. /\ KeyFor(name, row) = <<row.who, row.id>>
        /\ RowFor(name, row) = [amount |-> row.amount, at |-> row.at]
    BY <1>3 DEF KeyFor, RowFor
  <2>3. From(d.slashings, row) = {} => <<row.who, row.id>> \notin DOMAIN d.slashings
    BY <2>1, FreshKey DEF StatementRefused, OracleRefused, New
  <2> DEFINE n == IF From(d["slashings"], row) # {} THEN d
                  ELSE [d EXCEPT !["slashings"] =
                          InsertNew(d["slashings"], <<row.who, row.id>>,
                                    [amount |-> row.amount, at |-> row.at])]
  <2>4. e = SetOracleNodeStake(n, row)
    BY <2>1 DEF Exec, OracleNodeStore, RecordOracleSlash
  <2>5. PICK m : m = n
    OBVIOUS
  <2>6. m = IF From(d["slashings"], row) # {} THEN d
            ELSE [d EXCEPT !["slashings"] =
                    InsertNew(d["slashings"], KeyFor(name, row), RowFor(name, row))]
    BY <2>2, <2>5
  <2> HIDE DEF n
  <2>7. TablesAre(m)
    <3>1. "slashings" \in Columns
      BY DEF Columns
    <3> QED
      BY <2>6, <3>1, InsertSafe DEF Safe
  <2>8. Untouched(m, e)
    BY <2>4, <2>5, <2>7, NodesUntouched
  <2> QED
    BY <1>1, <2>1, <2>2, <2>3, <2>6, <2>8, InsertIs
<1>4. ASSUME From(d[TableOf(name)], row) = {} =>
               KeyFor(name, row) \notin DOMAIN d[TableOf(name)],
             e = IF From(d[TableOf(name)], row) # {} THEN d
                 ELSE [d EXCEPT ![TableOf(name)] =
                         InsertNew(d[TableOf(name)], KeyFor(name, row), RowFor(name, row))]
      PROVE  Inserted(d, e, name, row)
  <2>1. Untouched(e, e)
    BY SameUntouched
  <2> QED
    BY <1>1, <1>4, <2>1, InsertIs
<1>5. ASSUME name \in {"Deposited", "Withdrawn"}
      PROVE  Inserted(d, e, name, row)
  <2>1. which = "vault" /\ KeyFor(name, row) = row.at
        /\ RowFor(name, row) = [user |-> row.who, shares |-> row.shares, at |-> row.at]
    BY <1>5 DEF LoggedBy, Filters, GovernanceFilters, GovernanceReceiverFilters, VaultFilters,
                OracleRoundsFilters, OracleStakingFilters, ZkFilters, KeyFor, RowFor
  <2>2. From(d[TableOf(name)], row) = {} => row.at \notin DOMAIN d[TableOf(name)]
    BY <1>5 DEF From
  <2>3. CASE name = "Deposited"
    <3>1. TableOf(name) = "deposits" /\ InsertOf(name) = "InsertVaultDeposit"
      BY <2>3 DEF TableOf, InsertOf
    <3> QED
      BY <1>4, <2>1, <2>2, <3>1 DEF Exec, VaultStore, InsertVaultDeposit
  <2>4. CASE name = "Withdrawn"
    <3>1. TableOf(name) = "withdrawals" /\ InsertOf(name) = "InsertVaultWithdrawal"
      BY <2>4 DEF TableOf, InsertOf
    <3> QED
      BY <1>4, <2>1, <2>2, <3>1 DEF Exec, VaultStore, InsertVaultWithdrawal
  <2> QED
    BY <1>5, <2>3, <2>4
<1>6. CASE name = "SubmissionReceived"
  <2>1. /\ which = "rounds" /\ TableOf(name) = "submissions"
        /\ InsertOf(name) = "InsertOracleSubmission"
        /\ KeyFor(name, row) = <<row.id, row.who>>
        /\ RowFor(name, row) = [value |-> row.value, at |-> row.at]
    BY <1>6 DEF LoggedBy, Filters, GovernanceFilters, GovernanceReceiverFilters, VaultFilters,
                OracleRoundsFilters, OracleStakingFilters, ZkFilters, KeyFor, RowFor, TableOf,
                InsertOf
  <2>2. From(d.submissions, row) = {} => <<row.id, row.who>> \notin DOMAIN d.submissions
    BY <2>1, FreshKey DEF StatementRefused, OracleRefused, New
  <2> QED
    BY <1>4, <2>1, <2>2 DEF Exec, OracleRoundStore, InsertOracleSubmission
<1>7. CASE name = "CommitmentInserted"
  <2>1. /\ which = "zk" /\ TableOf(name) = "leaves"
        /\ InsertOf(name) = "InsertZkCommitment" /\ KeyFor(name, row) = row.id
        /\ RowFor(name, row) = [commitment |-> row.commitment, at |-> row.at]
    BY <1>7 DEF LoggedBy, Filters, GovernanceFilters, GovernanceReceiverFilters, VaultFilters,
                OracleRoundsFilters, OracleStakingFilters, ZkFilters, KeyFor, RowFor, TableOf,
                InsertOf
  <2>2. From(d.leaves, row) = {} => row.id \notin DOMAIN d.leaves
    BY <2>1, FreshKey DEF StatementRefused, ZkRefused, New
  <2> QED
    BY <1>4, <2>1, <2>2 DEF Exec, ZkStore, InsertZkCommitment
<1>8. CASE name = "PrivateActionExecuted"
  <2>1. /\ which = "zk" /\ TableOf(name) = "spent"
        /\ InsertOf(name) = "InsertZkPrivateAction" /\ KeyFor(name, row) = row.id
        /\ RowFor(name, row) = [action |-> row.action, at |-> row.at]
    BY <1>8 DEF LoggedBy, Filters, GovernanceFilters, GovernanceReceiverFilters, VaultFilters,
                OracleRoundsFilters, OracleStakingFilters, ZkFilters, KeyFor, RowFor, TableOf,
                InsertOf
  <2>2. From(d.spent, row) = {} => row.id \notin DOMAIN d.spent
    BY <2>1, FreshKey DEF StatementRefused, ZkRefused, New
  <2> QED
    BY <1>4, <2>1, <2>2 DEF Exec, ZkStore, InsertZkPrivateAction
<1> QED
  BY <1>1, <1>2, <1>3, <1>5, <1>6, <1>7, <1>8 DEF Logged

---------------------------------------------------------------------------
(* The insert is the last statement of its handler. *)

Plain ==
  {"UpsertAsset", "UpsertVault", "UpsertGovernor", "UpsertZkGate", "InsertGovernanceProposal",
   "MarkProposalQueued", "MarkProposalDispatched", "MarkProposalExecuted",
   "MarkProposalCancelled", "InsertRemoteAction", "CloseRemoteActionExecuted",
   "CloseRemoteActionCancelled", "UpsertOracleFeed", "EnsureOracleFeed",
   "DeactivateOracleFeed", "InsertOracleRound", "MarkOracleRoundQuorumMet",
   "SettleOracleRound", "FailOracleRound", "UpsertOracleNode", "SetOracleNodeStake",
   "SetOracleNodeUnstake", "ClearOracleNodeUnstake", "SetOracleNodeActive",
   "SetOracleNodeInactive", "OpenOracleNodeInterval", "CloseOracleNodeInterval",
   "UpsertZkAction", "DeregisterZkAction"}

EndsWith(w, name) ==
  IF name \in Logged THEN w = <<>> \/ \E s \in Seq(Plain) : w = s \o <<InsertOf(name)>>
                     ELSE w \in Seq(Plain)

LEMMA PlainOps == Plain \cap Inserts = {}
BY DEF Plain, Inserts

LEMMA EndsPlain ==
  ASSUME NEW name, name \notin Logged, NEW w \in Seq(Plain)
  PROVE  EndsWith(w, name)
BY DEF EndsWith

LEMMA EndsAfter ==
  ASSUME NEW name \in Logged, NEW s \in Seq(Plain)
  PROVE  EndsWith(s \o <<InsertOf(name)>>, name)
BY DEF EndsWith

LEMMA EndsAlone ==
  ASSUME NEW name \in Logged
  PROVE  EndsWith(<<InsertOf(name)>>, name)
<1>1. PICK x : x = InsertOf(name)
  OBVIOUS
<1>2. <<>> \o <<x>> = <<x>>
  OBVIOUS
<1>3. <<>> \in Seq(Plain)
  BY EmptySeq
<1> QED
  BY <1>1, <1>2, <1>3, EndsAfter

LEMMA DispatchEnds ==
  ASSUME NEW which \in {"governor", "receiver", "vault", "rounds", "staking", "zk"},
         NEW ev, NEW memo, ev.name \in Filters(which)
  PROVE  EndsWith(Dispatch(which, ev, memo), ev.name)
<1>1. PICK name : name = ev.name
  OBVIOUS
<1>2. \A op \in Plain : Once(op, memo) \in Seq(Plain)
  BY OnceIsSeq
<1>3. \A x, y \in Plain : <<x>> \in Seq(Plain) /\ <<x, y>> \in Seq(Plain)
  BY ListIsSeq
<1>4. <<>> \in Seq(Plain)
  BY EmptySeq
<1>5. CASE which = "governor"
  <2>1. name \in GovernanceFilters /\ Dispatch(which, ev, memo) = GovernanceHandler(ev, memo)
    BY <1>1, <1>5 DEF Filters, Dispatch
  <2>2. CASE name = "VoteCast"
    <3>1. GovernanceHandler(ev, memo) = <<InsertOf(name)>> /\ name \in Logged
      BY <1>1, <2>2 DEF GovernanceHandler, HandleVoteCast, InsertOf, Logged
    <3> QED
      BY <1>1, <2>1, <3>1, EndsAlone
  <2>3. CASE name # "VoteCast"
    <3>1. name \notin Logged
      BY <2>1, <2>3 DEF GovernanceFilters, Logged
    <3>2. CASE name = "ProposalCreated"
      <4>1. GovernanceHandler(ev, memo) = EnsureGovernor(memo) \o <<"InsertGovernanceProposal">>
        BY <1>1, <3>2 DEF GovernanceHandler, HandleProposalCreated
      <4>2. EnsureGovernor(memo) \in Seq(Plain)
        <5>1. "UpsertAsset" \in Plain /\ "UpsertGovernor" \in Plain
          BY DEF Plain
        <5> QED
          BY <1>3, <1>4, <5>1 DEF EnsureGovernor
      <4>3. <<"InsertGovernanceProposal">> \in Seq(Plain)
        BY <1>3 DEF Plain
      <4> QED
        BY <1>1, <2>1, <3>1, <4>1, <4>2, <4>3, ConcatIn, EndsPlain
    <3>3. CASE name # "ProposalCreated"
      <4>1. GovernanceHandler(ev, memo) \in Seq(Plain)
        <5>1. {"MarkProposalQueued", "MarkProposalDispatched", "MarkProposalExecuted",
               "MarkProposalCancelled"} \subseteq Plain
          BY DEF Plain
        <5> QED
          BY <1>1, <1>3, <2>1, <2>3, <3>3, <5>1
             DEF GovernanceFilters, GovernanceHandler, HandleQueued, HandleExecuted,
                 HandleDispatched, HandleCancelled
      <4> QED
        BY <1>1, <2>1, <3>1, <4>1, EndsPlain
    <3> QED
      BY <3>2, <3>3
  <2> QED
    BY <2>2, <2>3
<1>6. CASE which = "receiver"
  <2>1. /\ name \in GovernanceReceiverFilters
        /\ Dispatch(which, ev, memo) = GovernanceReceiverHandler(ev)
    BY <1>1, <1>6 DEF Filters, Dispatch
  <2>2. name \notin Logged
    BY <2>1 DEF GovernanceReceiverFilters, Logged
  <2>3. GovernanceReceiverHandler(ev) \in Seq(Plain)
    <3>1. {"InsertRemoteAction", "CloseRemoteActionExecuted", "CloseRemoteActionCancelled"}
            \subseteq Plain
      BY DEF Plain
    <3> QED
      BY <1>1, <1>3, <2>1, <3>1
         DEF GovernanceReceiverFilters, GovernanceReceiverHandler, HandleReceived, HandleClosed
  <2> QED
    BY <1>1, <2>1, <2>2, <2>3, EndsPlain
<1>7. CASE which = "vault"
  <2>1. name \in VaultFilters /\ Dispatch(which, ev, memo) = VaultHandler(ev, memo)
    BY <1>1, <1>7 DEF Filters, Dispatch
  <2>2. name \in Logged
    BY <2>1 DEF VaultFilters, Logged
  <2>3. EnsureAsset(memo) \o EnsureVault(memo) \in Seq(Plain)
    BY <1>2, ConcatIn DEF Plain, EnsureAsset, EnsureVault
  <2>4. VaultHandler(ev, memo) = EnsureAsset(memo) \o EnsureVault(memo) \o <<InsertOf(name)>>
    BY <1>1, <2>1 DEF VaultFilters, VaultHandler, InsertOf
  <2> QED
    BY <1>1, <2>1, <2>2, <2>3, <2>4, EndsAfter
<1>8. CASE which = "rounds"
  <2>1. name \in OracleRoundsFilters /\ Dispatch(which, ev, memo) = OracleRoundsHandler(ev)
    BY <1>1, <1>8 DEF Filters, Dispatch
  <2>2. CASE name = "SubmissionReceived"
    <3>1. OracleRoundsHandler(ev) = <<InsertOf(name)>> /\ name \in Logged
      BY <1>1, <2>2 DEF OracleRoundsHandler, HandleSubmission, InsertOf, Logged
    <3> QED
      BY <1>1, <2>1, <3>1, EndsAlone
  <2>3. CASE name # "SubmissionReceived"
    <3>1. name \notin Logged
      BY <2>1, <2>3 DEF OracleRoundsFilters, Logged
    <3>2. OracleRoundsHandler(ev) \in Seq(Plain)
      <4>1. {"UpsertOracleFeed", "EnsureOracleFeed", "DeactivateOracleFeed", "InsertOracleRound",
             "MarkOracleRoundQuorumMet", "SettleOracleRound", "FailOracleRound"} \subseteq Plain
        BY DEF Plain
      <4> QED
        BY <1>1, <1>3, <2>1, <2>3, <4>1
           DEF OracleRoundsFilters, OracleRoundsHandler, HandleFeedRegistered,
               HandleRoundStarted, HandleQuorumMet, HandleSettled, HandleFailed
    <3> QED
      BY <1>1, <2>1, <3>1, <3>2, EndsPlain
  <2> QED
    BY <2>2, <2>3
<1>9. CASE which = "staking"
  <2>1. name \in OracleStakingFilters /\ Dispatch(which, ev, memo) = OracleStakingHandler(ev, memo)
    BY <1>1, <1>9 DEF Filters, Dispatch
  <2>2. CASE name = "NodeSlashed"
    <3>1. OracleStakingHandler(ev, memo) = <<InsertOf(name)>> /\ name \in Logged
      BY <1>1, <2>2 DEF OracleStakingHandler, HandleSlashed, InsertOf, Logged
    <3> QED
      BY <1>1, <2>1, <3>1, EndsAlone
  <2>3. CASE name # "NodeSlashed"
    <3>1. name \notin Logged
      BY <2>1, <2>3 DEF OracleStakingFilters, Logged
    <3>2. CASE name = "NodeRegistered"
      <4>1. OracleStakingHandler(ev, memo) = Once("UpsertAsset", memo) \o <<"UpsertOracleNode">>
        BY <1>1, <3>2 DEF OracleStakingHandler, HandleRegistered, EnsureStakeAsset
      <4>2. Once("UpsertAsset", memo) \in Seq(Plain) /\ <<"UpsertOracleNode">> \in Seq(Plain)
        BY <1>2, <1>3 DEF Plain
      <4> QED
        BY <1>1, <2>1, <3>1, <4>1, <4>2, ConcatIn, EndsPlain
    <3>3. CASE name # "NodeRegistered"
      <4>1. OracleStakingHandler(ev, memo) \in Seq(Plain)
        <5>1. {"SetOracleNodeStake", "SetOracleNodeUnstake", "ClearOracleNodeUnstake",
               "SetOracleNodeActive", "SetOracleNodeInactive", "OpenOracleNodeInterval",
               "CloseOracleNodeInterval"} \subseteq Plain
          BY DEF Plain
        <5> QED
          BY <1>1, <1>3, <2>1, <2>3, <3>3, <5>1
             DEF OracleStakingFilters, OracleStakingHandler, HandleUnstakeRequested,
                 HandleDeactivated
      <4> QED
        BY <1>1, <2>1, <3>1, <4>1, EndsPlain
    <3> QED
      BY <3>2, <3>3
  <2> QED
    BY <2>2, <2>3
<1>10. CASE which = "zk"
  <2>1. name \in ZkFilters /\ Dispatch(which, ev, memo) = ZkHandler(ev, memo)
    BY <1>1, <1>10 DEF Filters, Dispatch
  <2>2. EnsureGate(memo) \in Seq(Plain)
    BY <1>2 DEF Plain, EnsureGate
  <2>3. CASE name = "CommitmentInserted"
    <3>1. ZkHandler(ev, memo) = <<InsertOf(name)>> /\ name \in Logged
      BY <1>1, <2>3 DEF ZkHandler, HandleCommitmentInserted, InsertOf, Logged
    <3> QED
      BY <1>1, <2>1, <3>1, EndsAlone
  <2>4. CASE name = "PrivateActionExecuted"
    <3>1. ZkHandler(ev, memo) = EnsureGate(memo) \o <<InsertOf(name)>> /\ name \in Logged
      BY <1>1, <2>4 DEF ZkHandler, HandlePrivateAction, InsertOf, Logged
    <3> QED
      BY <1>1, <2>1, <2>2, <3>1, EndsAfter
  <2>5. CASE name = "ActionRegistered"
    <3>1. ZkHandler(ev, memo) = EnsureGate(memo) \o <<"UpsertZkAction">> /\ name \notin Logged
      BY <1>1, <2>5 DEF ZkHandler, HandleActionRegistered, Logged
    <3>2. <<"UpsertZkAction">> \in Seq(Plain)
      BY <1>3 DEF Plain
    <3> QED
      BY <1>1, <2>1, <2>2, <3>1, <3>2, ConcatIn, EndsPlain
  <2>6. CASE name = "ActionDeregistered"
    <3>1. ZkHandler(ev, memo) = <<"DeregisterZkAction">> /\ name \notin Logged
      BY <1>1, <2>6 DEF ZkHandler, HandleActionDeregistered, Logged
    <3>2. <<"DeregisterZkAction">> \in Seq(Plain)
      BY <1>3 DEF Plain
    <3> QED
      BY <1>1, <2>1, <3>1, <3>2, EndsPlain
  <2> QED
    BY <2>1, <2>3, <2>4, <2>5, <2>6 DEF ZkFilters
<1> QED
  BY <1>5, <1>6, <1>7, <1>8, <1>9, <1>10

(* What taking the first statement off says. *)
LEMMA EndsTail ==
  ASSUME NEW w, NEW name, EndsWith(w, name), w # <<>>
  PROVE  /\ Head(w) \in Inserts => name \in Logged /\ Head(w) = InsertOf(name)
         /\ name \in Logged /\ Tail(w) = <<>> => Head(w) \in Inserts
         /\ EndsWith(Tail(w), name)
<1>1. CASE name \notin Logged
  <2>1. w \in Seq(Plain)
    BY <1>1 DEF EndsWith
  <2>2. Head(w) \in Plain /\ Tail(w) \in Seq(Plain)
    BY <2>1, HeadTailProperties
  <2> QED
    BY <1>1, <2>2, PlainOps DEF EndsWith
<1>2. CASE name \in Logged
  <2>1. PICK s \in Seq(Plain) : w = s \o <<InsertOf(name)>>
    BY <1>2 DEF EndsWith
  <2>2. PICK x : x = InsertOf(name)
    OBVIOUS
  <2>3. x \in Inserts
    BY <1>2, <2>2, LoggedNames
  <2>4. CASE s = <<>>
    <3>1. w = <<x>>
      BY <2>1, <2>2, <2>4
    <3>2. Head(w) = x /\ Tail(w) = <<>>
      BY ONLY <3>1
    <3> QED
      BY <1>2, <2>2, <2>3, <3>2 DEF EndsWith
  <2>5. CASE s # <<>>
    <3>1. Head(s) \in Plain /\ Tail(s) \in Seq(Plain)
      BY <2>5, HeadTailProperties
    <3>2. Head(w) = Head(s) /\ Tail(w) = Tail(s) \o <<x>>
      <4>1. <<x>> \in Seq({x}) /\ w = s \o <<x>>
        BY <2>1, <2>2
      <4> QED
        BY ONLY <2>5, <4>1, s \in Seq(Plain)
    <3>3. Tail(w) # <<>>
      BY ONLY <3>1, <3>2
    <3>4. EndsWith(Tail(w), name)
      BY <1>2, <2>2, <3>1, <3>2 DEF EndsWith
    <3> QED
      BY <3>1, <3>2, <3>3, <3>4, PlainOps
  <2> QED
    BY <2>4, <2>5
<1> QED
  BY <1>1, <1>2

---------------------------------------------------------------------------
(* What one statement does to the rows of the events. *)

LEMMA NameAt ==
  ASSUME NEW L, NEW i, NEW j
  PROVE  /\ Decode(L, i, j).ev.name = L[i].events[j].name
         /\ EventRow(Decode(L, i, j)).at = <<i, j>>
<1>1. PICK x : x = Decode(L, i, j)
  OBVIOUS
<1>2. x.at = <<i, j>> /\ x.ev = L[i].events[j]
  BY <1>1 DEF Decode
<1>3. EventRow(x).at = <<i, j>>
  BY <1>2 DEF EventRow
<1> QED
  BY <1>1, <1>2, <1>3

LEMMA SameRows ==
  ASSUME NEW d, NEW e, \A name \in Logged : e[TableOf(name)] = d[TableOf(name)],
         NEW L, NEW b, RowsAreEvents(d, L, b)
  PROVE  RowsAreEvents(e, L, b)
<1> SUFFICES ASSUME NEW name \in Logged, NEW k \in DOMAIN e[TableOf(name)]
             PROVE  \E i, j : /\ Wanted(L, i, j, 1, b, {name})
                              /\ IsRowOf(e, name, k, Decode(L, i, j))
  BY DEF RowsAreEvents
<1>1. e[TableOf(name)] = d[TableOf(name)]
  OBVIOUS
<1>2. PICK i, j : Wanted(L, i, j, 1, b, {name}) /\ IsRowOf(d, name, k, Decode(L, i, j))
  BY <1>1 DEF RowsAreEvents
<1> QED
  BY <1>1, <1>2 DEF IsRowOf

LEMMA InsertedRows ==
  ASSUME NEW d, NEW e, NEW L, NEW b, RowsAreEvents(d, L, b), NEW name \in Logged,
         NEW i, NEW j, Wanted(L, i, j, 1, b, {name}), NEW x, x = Decode(L, i, j),
         NEW row, row = EventRow(x), Inserted(d, e, name, row)
  PROVE  RowsAreEvents(e, L, b) /\ HasRow(e, name, x)
<1> DEFINE c == TableOf(name)
<1>1. row.at = <<i, j>>
  BY NameAt
<1>2. \A n \in Logged \ {name} : e[TableOf(n)] = d[TableOf(n)]
  BY LoggedNames, NamesDiffer DEF Inserted
<1>3. CASE From(d[c], row) # {}
  <2>1. PICK k \in DOMAIN d[c] : d[c][k].at = row.at
    BY <1>3 DEF From
  <2>2. PICK p, q : Wanted(L, p, q, 1, b, {name}) /\ IsRowOf(d, name, k, Decode(L, p, q))
    BY <2>1 DEF RowsAreEvents
  <2>3. d[c][k].at = <<p, q>>
    BY <2>2, RowPlace DEF IsRowOf
  <2>4. p = i /\ q = j
    <3>1. <<p, q>> = <<i, j>>
      BY <1>1, <2>1, <2>3
    <3> QED
      BY ONLY <3>1
  <2>5. e[c] = d[c]
    BY <1>3 DEF Inserted
  <2>6. IsRowOf(e, name, k, x)
    BY <2>2, <2>4, <2>5 DEF IsRowOf
  <2>7. HasRow(e, name, x)
    BY <2>1, <2>5, <2>6 DEF HasRow
  <2>8. \A n \in Logged : e[TableOf(n)] = d[TableOf(n)]
    BY <1>2, <2>5
  <2>9. RowsAreEvents(e, L, b)
    BY <2>8, SameRows
  <2> QED
    BY <2>7, <2>9
<1>4. CASE From(d[c], row) = {}
  <2>1. PICK key, new : key = KeyFor(name, row) /\ new = RowFor(name, row)
    OBVIOUS
  <2>2. key \notin DOMAIN d[c] /\ e[c] = InsertNew(d[c], key, new)
    BY <1>4, <2>1 DEF Inserted
  <2>3. /\ DOMAIN e[c] = DOMAIN d[c] \union {key} /\ e[c][key] = new
        /\ \A k \in DOMAIN d[c] : e[c][k] = d[c][k]
    BY <2>2 DEF InsertNew
  <2>4. IsRowOf(e, name, key, x)
    BY <2>1, <2>3 DEF IsRowOf
  <2>5. HasRow(e, name, x)
    BY <2>3, <2>4 DEF HasRow
  <2>6. ASSUME NEW n \in Logged, NEW k \in DOMAIN e[TableOf(n)]
        PROVE  \E p, q : Wanted(L, p, q, 1, b, {n}) /\ IsRowOf(e, n, k, Decode(L, p, q))
    <3>1. CASE n # name
      BY <1>2, <2>6, <3>1 DEF RowsAreEvents, IsRowOf
    <3>2. CASE n = name /\ k = key
      BY <2>4, <3>2
    <3>3. CASE n = name /\ k # key
      <4>1. k \in DOMAIN d[c] /\ e[c][k] = d[c][k]
        BY <2>3, <2>6, <3>3
      <4>2. PICK p, q : Wanted(L, p, q, 1, b, {name}) /\ IsRowOf(d, name, k, Decode(L, p, q))
        BY <4>1 DEF RowsAreEvents
      <4> QED
        BY <3>3, <4>1, <4>2 DEF IsRowOf
    <3> QED
      BY <3>1, <3>2, <3>3
  <2> QED
    BY <2>5, <2>6 DEF RowsAreEvents
<1> QED
  BY <1>3, <1>4

(* A row of the vault's is found by its event's place. *)
LEMMA VaultKeys ==
  ASSUME NEW d, NEW L, NEW b, RowsAreEvents(d, L, b), NEW name \in {"Deposited", "Withdrawn"},
         NEW k \in DOMAIN d[TableOf(name)]
  PROVE  k = d[TableOf(name)][k].at
<1>1. name \in Logged
  BY DEF Logged
<1>2. PICK i, j : IsRowOf(d, name, k, Decode(L, i, j))
  BY <1>1 DEF RowsAreEvents
<1>3. PICK row : row = EventRow(Decode(L, i, j))
  OBVIOUS
<1>4. KeyFor(name, row) = row.at /\ RowFor(name, row).at = row.at
  BY DEF KeyFor, RowFor
<1> QED
  BY <1>2, <1>3, <1>4 DEF IsRowOf

LEMMA LoggedWrite ==
  ASSUME NEW which \in {"governor", "receiver", "vault", "rounds", "staking", "zk"},
         NEW d, TablesAre(d), NEW L, NEW b, RowsAreEvents(d, L, b),
         NEW i, NEW j, Wanted(L, i, j, 1, b, Filters(which)), NEW x, x = Decode(L, i, j),
         NEW op \in OpsFor(which, x.ev), NEW row, row = EventRow(x),
         ~ StatementRefused(which, d, op, row), NEW e, e = Exec(which, d, op, row),
         op \in Inserts => x.ev.name \in Logged /\ op = InsertOf(x.ev.name)
  PROVE  RowsAreEvents(e, L, b) /\ (op \in Inserts => HasRow(e, x.ev.name, x))
<1>1. CASE op \notin Inserts
  <2>1. Untouched(d, e)
    BY <1>1, OthersUntouched
  <2> QED
    BY <1>1, <2>1, SameRows, LoggedNames DEF Untouched
<1>2. CASE op \in Inserts
  <2>1. PICK name : name = x.ev.name
    OBVIOUS
  <2>2. name = L[i].events[j].name
    BY <2>1, NameAt
  <2>3. name \in LoggedBy(which) /\ name \in Logged /\ op = InsertOf(name)
    BY <1>2, <2>1, <2>2 DEF LoggedBy, Wanted
  <2>4. Wanted(L, i, j, 1, b, {name})
    BY <2>2 DEF Wanted
  <2>5. name \in {"Deposited", "Withdrawn"} =>
          \A k \in DOMAIN d[TableOf(name)] : k = d[TableOf(name)][k].at
    BY VaultKeys
  <2>6. Inserted(d, e, name, row)
    BY <2>3, <2>5, InsertsAre
  <2> QED
    BY <2>1, <2>3, <2>4, <2>6, InsertedRows
<1> QED
  BY <1>1, <1>2

---------------------------------------------------------------------------
(* What stays of it from step to step. *)

(* The events es left of the batch c+1..t: no others, and every one of     *)
(* those with a row of their own that has none yet.                        *)
BatchLeft(L, d, es, c, t, names) ==
  /\ \A n \in 1..Len(es) : \E i, j : Wanted(L, i, j, c + 1, t, names) /\ es[n] = Decode(L, i, j)
  /\ \A i, j : Wanted(L, i, j, c + 1, t, names \cap Logged) =>
       \/ HasRow(d, L[i].events[j].name, Decode(L, i, j))
       \/ \E n \in 1..Len(es) : es[n] = Decode(L, i, j)

LEMMA KeptHasRow ==
  ASSUME NEW d, NEW e, Kept(d, e), NEW name \in Logged, NEW x, HasRow(d, name, x)
  PROVE  HasRow(e, name, x)
<1>1. PICK t : t = TableOf(name)
  OBVIOUS
<1>2. t \in LogTables
  BY <1>1, LoggedNames
<1>3. RowsStay(d[t], e[t], DOMAIN d[t])
  BY <1>2 DEF Kept, LogTables
<1>4. PICK k \in DOMAIN d[t] : IsRowOf(d, name, k, x)
  BY <1>1 DEF HasRow
<1>5. k \in DOMAIN e[t] /\ e[t][k] = d[t][k]
  BY <1>3 DEF RowsStay
<1>6. IsRowOf(e, name, k, x)
  BY <1>1, <1>4, <1>5 DEF IsRowOf
<1> QED
  BY <1>1, <1>5, <1>6 DEF HasRow

LEMMA KeptEvents ==
  ASSUME NEW d, NEW e, Kept(d, e), NEW L, NEW first, NEW last, NEW names,
         names \subseteq Logged, EventsHaveRows(d, L, first, last, names)
  PROVE  EventsHaveRows(e, L, first, last, names)
<1> SUFFICES ASSUME NEW i, NEW j, Wanted(L, i, j, first, last, names)
             PROVE  HasRow(e, L[i].events[j].name, Decode(L, i, j))
  BY DEF EventsHaveRows
<1>1. L[i].events[j].name \in Logged
  BY DEF Wanted
<1>2. HasRow(d, L[i].events[j].name, Decode(L, i, j))
  BY DEF EventsHaveRows
<1> QED
  BY <1>1, <1>2, KeptHasRow

LEMMA KeptBatch ==
  ASSUME NEW d, NEW e, Kept(d, e), NEW L, NEW es, NEW c, NEW t, NEW names,
         BatchLeft(L, d, es, c, t, names)
  PROVE  BatchLeft(L, e, es, c, t, names)
<1>1. ASSUME NEW i, NEW j, Wanted(L, i, j, c + 1, t, names \cap Logged)
      PROVE  \/ HasRow(e, L[i].events[j].name, Decode(L, i, j))
             \/ \E n \in 1..Len(es) : es[n] = Decode(L, i, j)
  <2>1. L[i].events[j].name \in Logged
    BY <1>1 DEF Wanted
  <2> QED
    BY <1>1, <2>1, KeptHasRow DEF BatchLeft
<1> QED
  BY <1>1 DEF BatchLeft

(* The first event is done: it has its row, when it is to have one. *)
LEMMA BatchAfter ==
  ASSUME NEW d, NEW e, Kept(d, e), NEW L, NEW es, IsSeq(es), es # <<>>, NEW c, NEW t, NEW names,
         BatchLeft(L, d, es, c, t, names), NEW x, x = Head(es),
         x.ev.name \in Logged => HasRow(e, x.ev.name, x)
  PROVE  BatchLeft(L, e, Tail(es), c, t, names)
<1> DEFINE r == Tail(es)
<1>1. /\ Len(es) \in Nat /\ Len(es) > 0 /\ Len(r) = Len(es) - 1 /\ es[1] = x
      /\ \A n \in 1..Len(r) : r[n] = es[n + 1]
  <2>1. PICK R : es \in Seq(R)
    BY DEF IsSeq
  <2> QED
    BY <2>1, EmptySeq, HeadTailProperties
<1> HIDE DEF r
<1>2. \A n \in 1..Len(r) : n + 1 \in 1..Len(es)
  BY <1>1
<1>3. BatchLeft(L, e, es, c, t, names)
  BY KeptBatch
<1>4. \A n \in 1..Len(r) :
        \E i, j : Wanted(L, i, j, c + 1, t, names) /\ r[n] = Decode(L, i, j)
  BY <1>1, <1>2, <1>3 DEF BatchLeft
<1>5. ASSUME NEW i, NEW j, Wanted(L, i, j, c + 1, t, names \cap Logged)
      PROVE  \/ HasRow(e, L[i].events[j].name, Decode(L, i, j))
             \/ \E n \in 1..Len(r) : r[n] = Decode(L, i, j)
  <2>1. PICK y : y = Decode(L, i, j)
    OBVIOUS
  <2>2. y.ev.name = L[i].events[j].name /\ L[i].events[j].name \in Logged
    BY <1>5, <2>1, NameAt DEF Wanted
  <2>3. ASSUME NEW n \in 1..Len(es), es[n] = y
        PROVE  HasRow(e, L[i].events[j].name, y) \/ \E m \in 1..Len(r) : r[m] = y
    <3>1. CASE n = 1
      BY <1>1, <2>2, <2>3, <3>1
    <3>2. CASE n # 1
      <4>1. n - 1 \in 1..Len(r) /\ (n - 1) + 1 = n
        BY <1>1, <3>2
      <4> QED
        BY <1>1, <2>3, <4>1
    <3> QED
      BY <3>1, <3>2
  <2> QED
    BY <1>3, <1>5, <2>1, <2>3 DEF BatchLeft
<1> QED
  BY <1>4, <1>5 DEF BatchLeft, r

LEMMA NoBatch ==
  ASSUME NEW L, Readable(L), NEW d, NEW c \in Nat, NEW es, es = <<>>, NEW names
  PROVE  BatchLeft(L, d, es, c, 0, names)
<1>1. Len(es) = 0
  OBVIOUS
<1>2. \A i \in 1..Len(L) : L[i].slot \notin (c + 1)..0
  BY DEF Readable
<1> QED
  BY <1>1, <1>2 DEF BatchLeft, Wanted

(* A batch that is done. *)
LEMMA BatchDone ==
  ASSUME NEW L, Readable(L), NEW d, NEW c \in Nat, NEW t \in Nat, NEW first \in Nat,
         NEW es, es = <<>>, NEW names, BatchLeft(L, d, es, c, t, names),
         EventsHaveRows(d, L, first, c, names \cap Logged)
  PROVE  EventsHaveRows(d, L, first, t, names \cap Logged)
<1> SUFFICES ASSUME NEW i, NEW j, Wanted(L, i, j, first, t, names \cap Logged)
             PROVE  HasRow(d, L[i].events[j].name, Decode(L, i, j))
  BY DEF EventsHaveRows
<1>1. L[i].slot \in Nat /\ L[i].slot \in first..t
  BY DEF Readable, Wanted
<1>2. CASE L[i].slot <= c
  <2>1. Wanted(L, i, j, first, c, names \cap Logged)
    BY <1>1, <1>2 DEF Wanted
  <2> QED
    BY <2>1 DEF EventsHaveRows
<1>3. CASE ~ (L[i].slot <= c)
  <2>1. Wanted(L, i, j, c + 1, t, names \cap Logged)
    BY <1>1, <1>3 DEF Wanted
  <2>2. Len(es) = 0
    OBVIOUS
  <2> QED
    BY <2>1, <2>2 DEF BatchLeft
<1> QED
  BY <1>2, <1>3

(* The chain's steps leave the events of final blocks where they are. *)
LEMMA WantedStays ==
  ASSUME NEW L, NEW M, NEW f, Grows(L, M, f), NEW m \in 0..Len(L), m <= Len(M), Len(L) \in Nat,
         Len(M) \in Nat,
         \A i \in 1..m : M[i] = L[i],
         NEW i \in 1..m, NEW j, NEW first, NEW last, NEW names
  PROVE  /\ Wanted(L, i, j, first, last, names) <=> Wanted(M, i, j, first, last, names)
         /\ Decode(L, i, j) = Decode(M, i, j)
<1>1. M[i] = L[i] /\ i \in 1..Len(L) /\ i \in 1..Len(M)
  OBVIOUS
<1> QED
  BY <1>1 DEF Wanted, Decode

LEMMA RowsNext ==
  ASSUME NEW L, Readable(L), NEW M, Readable(M), NEW f \in Nat, NEW g \in Nat, f <= g,
         Grows(L, M, f), NEW d, RowsAreEvents(d, L, f)
  PROVE  RowsAreEvents(d, M, g)
<1>1. Len(L) \in Nat /\ Len(M) \in Nat
  BY LengthIsNat DEF Readable
<1>2. PICK m \in 0..Len(L) :
        /\ m <= Len(M) /\ \A i \in 1..m : M[i] = L[i]
        /\ \A i \in 1..Len(L) : L[i].slot <= f => i <= m
  BY DEF Grows
<1> SUFFICES ASSUME NEW name \in Logged, NEW k \in DOMAIN d[TableOf(name)]
             PROVE  \E i, j : /\ Wanted(M, i, j, 1, g, {name})
                              /\ IsRowOf(d, name, k, Decode(M, i, j))
  BY DEF RowsAreEvents
<1>3. PICK i, j : Wanted(L, i, j, 1, f, {name}) /\ IsRowOf(d, name, k, Decode(L, i, j))
  BY DEF RowsAreEvents
<1>4. i \in 1..m
  <2>1. i \in 1..Len(L) /\ L[i].slot \in 1..f
    BY <1>3 DEF Wanted
  <2>2. i <= m
    BY <1>2, <2>1
  <2> QED
    BY <1>1, <2>1, <2>2
<1>5. Wanted(M, i, j, 1, f, {name}) /\ Decode(L, i, j) = Decode(M, i, j)
  BY <1>1, <1>2, <1>3, <1>4, WantedStays
<1>6. Wanted(M, i, j, 1, g, {name})
  BY <1>5 DEF Wanted
<1> QED
  BY <1>3, <1>5, <1>6

LEMMA EventsNext ==
  ASSUME NEW L, Readable(L), NEW M, Readable(M), NEW f \in Nat, Grows(L, M, f), NEW d,
         NEW first, NEW b \in Int, b <= f, NEW names, EventsHaveRows(d, L, first, b, names)
  PROVE  EventsHaveRows(d, M, first, b, names)
<1>1. Len(L) \in Nat /\ Len(M) \in Nat
  BY LengthIsNat DEF Readable
<1>2. PICK m \in 0..Len(L) :
        /\ m <= Len(M) /\ \A i \in 1..m : M[i] = L[i]
        /\ \A i \in 1..Len(M) : M[i].slot <= f => i <= m
  BY DEF Grows
<1> SUFFICES ASSUME NEW i, NEW j, Wanted(M, i, j, first, b, names)
             PROVE  HasRow(d, M[i].events[j].name, Decode(M, i, j))
  BY DEF EventsHaveRows
<1>3. i \in 1..m
  <2>1. i \in 1..Len(M) /\ M[i].slot \in first..b /\ M[i].slot \in Nat
    BY DEF Wanted, Readable
  <2>2. i <= m
    <3>1. M[i].slot <= f
      <4>1. PICK n : n = M[i].slot
        OBVIOUS
      <4>2. n \in first..b
        BY <2>1, <4>1
      <4>3. n <= b
        BY <4>2
      <4> QED
        BY <2>1, <4>1, <4>3
    <3> QED
      BY <1>2, <2>1, <3>1
  <2> QED
    BY <1>1, <2>1, <2>2
<1>4. Wanted(L, i, j, first, b, names) /\ Decode(L, i, j) = Decode(M, i, j)
  BY <1>1, <1>2, <1>3, WantedStays
<1>5. HasRow(d, L[i].events[j].name, Decode(L, i, j)) /\ M[i] = L[i]
  BY <1>2, <1>3, <1>4 DEF EventsHaveRows
<1> QED
  BY <1>4, <1>5

---------------------------------------------------------------------------
(* The invariant of the events' rows. *)

LogsRight ==
  /\ RowsAreEvents(db, ledger, final)
  /\ \A b \in {cursor, saved} \union late :
       EventsHaveRows(db, ledger, start + 1, b, LoggedBy(contract))
  /\ BatchLeft(ledger, db, events, cursor, to, Filters(contract))
  /\ work # <<>> => EndsWith(work, Head(events).ev.name)

LEMMA LogsInit == MirrorInit => LogsRight
<1> SUFFICES ASSUME MirrorInit PROVE LogsRight
  OBVIOUS
<1>1. IndexerTyped
  BY MirrorInitTyped
<1>2. /\ db = EmptyTables /\ work = <<>> /\ events = <<>> /\ cursor = 0 /\ to = 0
      /\ saved = NotSaved /\ late = {}
  BY DEF MirrorInit
<1>3. Readable(ledger) /\ start \in Nat
  BY <1>1 DEF IndexerTyped, ChainTyped
<1>4. RowsAreEvents(db, ledger, final)
  <2>1. \A t \in LogTables : DOMAIN EmptyTables[t] = {}
    BY DEF EmptyTables, LogTables
  <2> QED
    BY <1>2, <2>1, LoggedNames DEF RowsAreEvents
<1>5. ASSUME NEW b \in {cursor, saved} \union late
      PROVE  EventsHaveRows(db, ledger, start + 1, b, LoggedBy(contract))
  <2>1. b \in {0, -1}
    BY <1>2 DEF NotSaved
  <2>2. (start + 1)..b = {}
    BY <1>3, <2>1
  <2> QED
    BY <2>2 DEF EventsHaveRows, Wanted
<1>6. BatchLeft(ledger, db, events, cursor, to, Filters(contract))
  BY <1>2, <1>3, NoBatch
<1> QED
  BY <1>2, <1>4, <1>5, <1>6 DEF LogsRight

(* A step that leaves the chain and the tables alone. *)
LEMMA LogsRest ==
  ASSUME LogsRight, UNCHANGED chainVars, db' = db,
         \A b \in {cursor', saved'} \union late' :
           EventsHaveRows(db, ledger, start + 1, b, LoggedBy(contract)),
         BatchLeft(ledger, db, events', cursor', to', Filters(contract)),
         work' # <<>> => EndsWith(work', Head(events').ev.name)
  PROVE  LogsRight'
<1>1. ledger' = ledger /\ start' = start /\ final' = final /\ contract' = contract
  BY DEF chainVars
<1>2. RowsAreEvents(db', ledger', final')
  BY <1>1 DEF LogsRight
<1>3. \A b \in {cursor', saved'} \union late' :
        EventsHaveRows(db', ledger', start' + 1, b, LoggedBy(contract'))
  BY <1>1
<1>4. BatchLeft(ledger', db', events', cursor', to', Filters(contract'))
  BY <1>1
<1> QED
  BY <1>2, <1>3, <1>4 DEF LogsRight

(* A batch that is read has all its events. *)
LEMMA FetchLeft ==
  ASSUME IndexerTyped, FetchBatch
  PROVE  BatchLeft(ledger, db, events', cursor', to', Filters(contract))
<1>1. /\ ChainTyped /\ cursor \in Nat /\ final \in Nat
  BY DEF IndexerTyped, ChainTyped, ProcessTyped
<1>2. SafeHead \in Nat /\ SafeHead > cursor
  BY <1>1, SafeHeadFinal DEF FetchBatch
<1>3. to' = Upto /\ Upto \in Nat /\ cursor + 1 <= Upto
  <2>1. PICK y, z : y = cursor + BatchSize /\ z = SafeHead
    OBVIOUS
  <2>2. y \in Nat /\ z \in Nat /\ y > cursor /\ z > cursor
    BY <1>1, <1>2, <2>1, MirrorConstants
  <2>3. Upto = Min({y, z})
    BY <2>1 DEF Upto
  <2>4. Upto \in {y, z}
    <3>1. y \in Int /\ z \in Int
      BY <2>2
    <3> QED
      BY ONLY <2>3, <3>1, PairMin
  <2> QED
    BY <1>1, <2>2, <2>4 DEF FetchBatch
<1>4. cursor' = cursor /\ events' = LogsInRange(cursor + 1, to')
  BY <1>3 DEF FetchBatch
<1>5. Exact(events', ledger, cursor + 1, to', Filters(contract))
  <2>1. cursor + 1 \in Nat /\ to' \in Nat /\ cursor + 1 <= to'
    BY <1>1, <1>3
  <2>2. PICK first, last : first = cursor + 1 /\ last = to'
    OBVIOUS
  <2>3. Exact(LogsInRange(first, last), ledger, first, last, Filters(contract))
    BY <1>1, <2>1, <2>2, LogsAreExact
  <2> QED
    BY <1>4, <2>2, <2>3
<1>6. PICK es, t : es = events' /\ t = to'
  OBVIOUS
<1>7. Exact(es, ledger, cursor + 1, t, Filters(contract))
  BY <1>5, <1>6
<1>8. ASSUME NEW i, NEW j, Wanted(ledger, i, j, cursor + 1, t, Filters(contract) \cap Logged)
      PROVE  \E n \in 1..Len(es) : es[n] = Decode(ledger, i, j)
  <2>1. Wanted(ledger, i, j, cursor + 1, t, Filters(contract))
    BY <1>8 DEF Wanted
  <2> QED
    BY <1>7, <2>1 DEF Exact
<1>9. \A n \in 1..Len(es) :
        \E i, j : Wanted(ledger, i, j, cursor + 1, t, Filters(contract)) /\ es[n] = Decode(ledger, i, j)
  BY <1>7 DEF Exact
<1>10. BatchLeft(ledger, db, es, cursor, t, Filters(contract))
  BY <1>8, <1>9 DEF BatchLeft
<1> QED
  BY <1>4, <1>6, <1>10

LEMMA LogsReads ==
  ASSUME IndexerTyped, LogsRight,
         RestoreCursor \/ FetchBatch \/ CommitBatch \/ LoseStep \/ Crash \/ LateSave
  PROVE  LogsRight'
<1> DEFINE Done(b) == EventsHaveRows(db, ledger, start + 1, b, LoggedBy(contract))
           Awaited(es, c, t) == BatchLeft(ledger, db, es, c, t, Filters(contract))
<1>1. /\ cursor \in Nat /\ to \in Nat /\ saved \in {NotSaved} \union Nat /\ start \in Nat
      /\ late \subseteq Nat /\ Readable(ledger)
      /\ to = 0 => events = <<>>
      /\ events = <<>> => work = <<>>
  <2>1. /\ final \in Nat /\ cursor \in 0..final /\ to \in 0..final
        /\ saved \in {NotSaved} \union 0..final /\ late \subseteq 1..final
    BY DEF IndexerTyped, ChainTyped, ProcessTyped
  <2> QED
    BY <2>1 DEF IndexerTyped, ChainTyped, ProcessTyped
<1>2. /\ Done(cursor) /\ Done(saved) /\ \A b \in late : Done(b)
      /\ Awaited(events, cursor, to)
      /\ work # <<>> => EndsWith(work, Head(events).ev.name)
  BY DEF LogsRight
<1>3. Done(0) /\ Done(start)
  <2>1. (start + 1)..0 = {} /\ (start + 1)..start = {}
    BY <1>1
  <2> QED
    BY <2>1 DEF EventsHaveRows, Wanted
<1>4. LoggedBy(contract) = Filters(contract) \cap Logged
  BY DEF LoggedBy
<1>5. ASSUME events = <<>> PROVE Done(to)
  <2>1. start + 1 \in Nat
    BY <1>1
  <2> QED
    BY <1>1, <1>2, <1>4, <1>5, <2>1, BatchDone
<1>6. \A c \in Nat : Awaited(<<>>, c, 0)
  BY <1>1, NoBatch
<1>7. \A b : Done(b) => Done(SaveCursor(b))
  BY <1>2 DEF SaveCursor
<1> HIDE DEF Done, Awaited
<1>8. ASSUME UNCHANGED chainVars, db' = db,
             Done(cursor'), Done(saved'), \A b \in late' : Done(b),
             Awaited(events', cursor', to'),
             work' # <<>> => EndsWith(work', Head(events').ev.name)
      PROVE  LogsRight'
  BY <1>8, LogsRest DEF Done, Awaited
<1>9. CASE RestoreCursor
  <2>1. /\ UNCHANGED chainVars /\ db' = db /\ late' = late
        /\ to' = 0 /\ events' = <<>> /\ work' = <<>>
    <3>1. to = 0
      BY <1>9 DEF RestoreCursor, IndexerTyped, ProcessTyped
    <3> QED
      BY <1>1, <1>9, <3>1 DEF RestoreCursor
  <2>2. cursor' \in Nat /\ Done(cursor') /\ Done(saved')
    <3>1. CASE saved = NotSaved
      <4>1. cursor' = start /\ saved' = SaveCursor(start)
        BY <1>9, <3>1 DEF RestoreCursor
      <4> QED
        BY <1>1, <1>3, <1>7, <4>1
    <3>2. CASE saved # NotSaved
      <4>1. cursor' = saved /\ saved' = saved
        BY <1>9, <3>2 DEF RestoreCursor
      <4> QED
        BY <1>1, <1>2, <3>2, <4>1
    <3> QED
      BY <3>1, <3>2
  <2>3. Awaited(events', cursor', to')
    BY <1>6, <2>1, <2>2
  <2> QED
    BY <1>2, <1>8, <2>1, <2>2, <2>3
<1>10. CASE FetchBatch
  <2>1. /\ UNCHANGED chainVars /\ db' = db /\ cursor' = cursor /\ saved' = saved /\ late' = late
        /\ work' = <<>>
    BY <1>1, <1>10 DEF FetchBatch, Idle
  <2>2. Awaited(events', cursor', to')
    BY <1>10, FetchLeft DEF Awaited
  <2> QED
    BY <1>2, <1>8, <2>1, <2>2
<1>11. CASE CommitBatch
  <2>1. /\ UNCHANGED chainVars /\ db' = db /\ cursor' = to /\ saved' = SaveCursor(to)
        /\ to' = 0 /\ events' = <<>> /\ events = <<>> /\ work' = <<>> /\ late' = late
    BY <1>1, <1>11 DEF CommitBatch
  <2>2. Done(cursor') /\ Done(saved')
    BY <1>5, <1>7, <2>1
  <2>3. Awaited(events', cursor', to')
    BY <1>1, <1>6, <2>1
  <2> QED
    BY <1>2, <1>8, <2>1, <2>2, <2>3
<1>12. CASE LoseStep
  <2>1. /\ UNCHANGED chainVars /\ db' = db /\ cursor' = cursor /\ saved' = saved /\ late' = late
        /\ to' = 0 /\ events' = <<>> /\ work' = <<>>
    BY <1>12 DEF LoseStep, StepFails
  <2>2. Awaited(events', cursor', to')
    BY <1>1, <1>6, <2>1
  <2> QED
    BY <1>2, <1>8, <2>1, <2>2
<1>13. CASE Crash
  <2>1. /\ UNCHANGED chainVars /\ db' = db /\ cursor' = 0 /\ saved' = saved
        /\ to' = 0 /\ events' = <<>> /\ work' = <<>>
        /\ (late' = late \/ (events = <<>> /\ late' = late \union {to}))
    BY <1>13 DEF Crash, StepFails
  <2>2. \A b \in late' : Done(b)
    BY <1>2, <1>5, <2>1
  <2>3. Awaited(events', cursor', to')
    BY <1>6, <2>1
  <2> QED
    BY <1>2, <1>3, <1>8, <2>1, <2>2, <2>3
<1>14. CASE LateSave
  <2>1. PICK b \in late : saved' = SaveCursor(b) /\ late' = late
    BY <1>14 DEF LateSave
  <2>2. /\ UNCHANGED chainVars /\ db' = db /\ cursor' = cursor /\ to' = to /\ events' = events
        /\ work' = work
    BY <1>14 DEF LateSave, processVars
  <2>3. Done(saved') /\ \A x \in late' : Done(x)
    BY <1>2, <1>7, <2>1
  <2>4. Awaited(events', cursor', to')
    BY <1>2, <2>2
  <2>5. Done(cursor') /\ (work' # <<>> => EndsWith(work', Head(events').ev.name))
    BY <1>2, <2>2
  <2> QED
    BY <1>8, <2>2, <2>3, <2>4, <2>5
<1> QED
  BY <1>9, <1>10, <1>11, <1>12, <1>13, <1>14

LEMMA LogsChain ==
  ASSUME IndexerTyped, LogsRight, Idle, ChainNext, UNCHANGED mirrorVars, IndexerTyped',
         final' >= final
  PROVE  LogsRight'
<1>1. ChainTyped /\ Grows(ledger, ledger', final) /\ contract' = contract /\ start' = start
  BY FinalBlocksStay, ChainFixed DEF IndexerTyped
<1>2. /\ db' = db /\ saved' = saved /\ cursor' = cursor /\ to' = to /\ events' = events
      /\ work' = work /\ late' = late
  BY DEF mirrorVars, processVars
<1>3. to = 0 /\ events = <<>> /\ work = <<>>
  BY DEF Idle, IndexerTyped, ProcessTyped
<1>4. PICK M, g : M = ledger' /\ g = final'
  OBVIOUS
<1>5. Readable(ledger) /\ Readable(M) /\ final \in Nat /\ g \in Nat /\ final <= g
  <2>1. Readable(ledger) /\ final \in Nat
    BY <1>1 DEF ChainTyped
  <2>2. Readable(ledger') /\ final' \in Nat
    BY DEF IndexerTyped, ChainTyped
  <2> QED
    BY <1>4, <2>1, <2>2
<1>6. Grows(ledger, M, final)
  BY <1>1, <1>4
<1>7. RowsAreEvents(db, M, g)
  BY <1>5, <1>6, RowsNext DEF LogsRight
<1>8. ASSUME NEW b \in {cursor, saved} \union late
      PROVE  EventsHaveRows(db, M, start + 1, b, LoggedBy(contract))
  <2>1. b \in Int /\ b <= final
    BY <1>5, <1>8 DEF IndexerTyped, ProcessTyped, NotSaved
  <2>2. EventsHaveRows(db, ledger, start + 1, b, LoggedBy(contract))
    BY <1>8 DEF LogsRight
  <2> QED
    BY <1>5, <1>6, <2>1, <2>2, EventsNext
<1>9. BatchLeft(M, db, events, cursor, 0, Filters(contract))
  <2>1. cursor \in Nat
    BY <1>5 DEF IndexerTyped, ProcessTyped
  <2> QED
    BY <1>3, <1>5, <2>1, NoBatch
<1>10. RowsAreEvents(db', ledger', final')
  BY <1>2, <1>4, <1>7
<1>11. \A b \in {cursor', saved'} \union late' :
         EventsHaveRows(db', ledger', start' + 1, b, LoggedBy(contract'))
  BY <1>1, <1>2, <1>4, <1>8
<1>12. BatchLeft(ledger', db', events', cursor', to', Filters(contract'))
  BY <1>1, <1>2, <1>3, <1>4, <1>9
<1>13. work' = <<>>
  BY <1>2, <1>3
<1> QED
  BY <1>10, <1>11, <1>12, <1>13 DEF LogsRight

LEMMA LogsWrite ==
  ASSUME MirrorRight, LogsRight, WriteStatement, Kept(db, db')
  PROVE  LogsRight'
<1> DEFINE x == Head(events)
           todo == StatementsLeft(x)
           op == Head(todo)
           rest == Tail(todo)
           row == EventRow(x)
<1>1. /\ IndexerTyped /\ TablesAre(db) /\ Readable(ledger) /\ IsSeq(events) /\ cursor \in Nat
      /\ to \in Nat /\ final \in Nat /\ to <= final
      /\ contract \in {"governor", "receiver", "vault", "rounds", "staking", "zk"}
  <2>1. contract \in Kinds
    BY DEF MirrorRight, IndexerTyped, ChainTyped
  <2>2. Kinds \subseteq {"governor", "receiver", "vault", "rounds", "staking", "zk"}
    BY ContractsAssumption
  <2>3. /\ IndexerTyped /\ TablesAre(db) /\ Readable(ledger) /\ IsSeq(events)
        /\ cursor \in Nat /\ to \in Nat /\ final \in Nat /\ to <= final
    BY DEF MirrorRight, IndexerTyped, ChainTyped, ProcessTyped, BatchTyped
  <2> QED
    BY <2>1, <2>2, <2>3
<1>2. /\ events # <<>> /\ saved' = saved /\ cursor' = cursor /\ late' = late
      /\ ledger' = ledger /\ start' = start /\ final' = final /\ contract' = contract
  BY WriteIs DEF chainVars
<1>3. /\ RowsAreEvents(db, ledger, final)
      /\ \A b \in {cursor, saved} \union late :
           EventsHaveRows(db, ledger, start + 1, b, LoggedBy(contract))
      /\ BatchLeft(ledger, db, events, cursor, to, Filters(contract))
      /\ work # <<>> => EndsWith(work, x.ev.name)
  BY DEF LogsRight
<1>4. CASE StepFails /\ db' = db
  <2>1. to' = 0 /\ events' = <<>> /\ work' = <<>>
    BY <1>4 DEF StepFails
  <2>2. BatchLeft(ledger, db, events', cursor, 0, Filters(contract))
    BY <1>1, <2>1, NoBatch
  <2>3. UNCHANGED chainVars
    BY WriteIs
  <2> QED
    BY <1>2, <1>3, <1>4, <2>1, <2>2, <2>3, LogsRest
<1>5. CASE Wrote(x, op, rest)
  <2>1. PICK i, j : Wanted(ledger, i, j, cursor + 1, to, Filters(contract)) /\ x = Decode(ledger, i, j)
    <3>1. x = events[1] /\ 1 \in 1..Len(events)
      BY <1>1, <1>2, HeadIsFirst
    <3> QED
      BY <1>3, <3>1 DEF BatchLeft
  <2>2. x.ev.name \in Filters(contract)
    BY <2>1, NameAt DEF Wanted
  <2>3. Wanted(ledger, i, j, 1, final, Filters(contract))
    BY <1>1, <2>1 DEF Wanted, Readable
  <2>4. op \in OpsFor(contract, x.ev) /\ todo # <<>>
    BY StatementFits DEF WriteStatement
  <2>5. EndsWith(todo, x.ev.name)
    BY <1>1, <1>3, <2>2, DispatchEnds DEF StatementsLeft
  <2>6. /\ ~ StatementRefused(contract, db, op, row) /\ db' = Exec(contract, db, op, row)
        /\ work' = rest /\ to' = to
        /\ events' = IF rest = <<>> THEN Tail(events) ELSE events
    BY <1>5 DEF Wrote
  <2>7. /\ op \in Inserts => x.ev.name \in Logged /\ op = InsertOf(x.ev.name)
        /\ x.ev.name \in Logged /\ rest = <<>> => op \in Inserts
        /\ EndsWith(rest, x.ev.name)
    <3>1. PICK w, name : w = todo /\ name = x.ev.name
      OBVIOUS
    <3>2. EndsWith(w, name) /\ w # <<>>
      BY <2>4, <2>5, <3>1
    <3>3. /\ Head(w) \in Inserts => name \in Logged /\ Head(w) = InsertOf(name)
          /\ name \in Logged /\ Tail(w) = <<>> => Head(w) \in Inserts
          /\ EndsWith(Tail(w), name)
      BY ONLY <3>2, EndsTail
    <3> QED
      BY <3>1, <3>3
  <2> HIDE DEF x, todo, op, rest, row
  <2>8. PICK e : e = db'
    OBVIOUS
  <2>9. RowsAreEvents(e, ledger, final) /\ (op \in Inserts => HasRow(e, x.ev.name, x))
    BY <1>1, <1>3, <2>1, <2>3, <2>4, <2>6, <2>7, <2>8, LoggedWrite DEF row
  <2>10. Kept(db, e)
    BY <2>8
  <2>11. \A b \in {cursor, saved} \union late :
           EventsHaveRows(e, ledger, start + 1, b, LoggedBy(contract))
    <3>1. LoggedBy(contract) \subseteq Logged
      BY DEF LoggedBy
    <3> QED
      BY <1>3, <2>10, <3>1, KeptEvents
  <2>12. CASE rest = <<>>
    <3>1. x.ev.name \in Logged => HasRow(e, x.ev.name, x)
      BY <2>7, <2>9, <2>12
    <3>2. BatchLeft(ledger, e, Tail(events), cursor, to, Filters(contract))
      BY <1>1, <1>2, <1>3, <2>10, <3>1, BatchAfter DEF x
    <3>3. BatchLeft(ledger', db', events', cursor', to', Filters(contract'))
      BY <1>2, <2>6, <2>8, <2>12, <3>2
    <3>4. RowsAreEvents(db', ledger', final')
      BY <1>2, <2>8, <2>9
    <3>5. \A b \in {cursor', saved'} \union late' :
            EventsHaveRows(db', ledger', start' + 1, b, LoggedBy(contract'))
      BY <1>2, <2>8, <2>11
    <3>6. work' = <<>>
      BY <2>6, <2>12
    <3> QED
      BY <3>3, <3>4, <3>5, <3>6 DEF LogsRight
  <2>13. CASE rest # <<>>
    <3>1. BatchLeft(ledger, e, events, cursor, to, Filters(contract))
      BY <1>3, <2>10, KeptBatch
    <3>2. BatchLeft(ledger', db', events', cursor', to', Filters(contract'))
      BY <1>2, <2>6, <2>8, <2>13, <3>1
    <3>3. RowsAreEvents(db', ledger', final')
      BY <1>2, <2>8, <2>9
    <3>4. \A b \in {cursor', saved'} \union late' :
            EventsHaveRows(db', ledger', start' + 1, b, LoggedBy(contract'))
      BY <1>2, <2>8, <2>11
    <3>5. EndsWith(work', Head(events').ev.name)
      BY <2>6, <2>7, <2>13 DEF x
    <3> QED
      BY <3>2, <3>3, <3>4, <3>5 DEF LogsRight
  <2> QED
    BY <2>12, <2>13
<1> QED
  BY <1>4, <1>5, WriteIs

LEMMA LogsStep ==
  ASSUME MirrorRight, LogsRight, [MirrorNext]_indexerVars
  PROVE  LogsRight'
<1>1. IndexerTyped /\ IndexerTyped' /\ final' >= final /\ Kept(db, db')
  BY MirrorStepRight, IndexerStepTyped DEF MirrorRight
<1>2. CASE UNCHANGED indexerVars
  <2>1. /\ UNCHANGED chainVars /\ db' = db /\ cursor' = cursor /\ to' = to /\ events' = events
        /\ work' = work /\ saved' = saved /\ late' = late
    BY <1>2 DEF indexerVars, mirrorVars, processVars
  <2> QED
    BY <2>1, LogsRest DEF LogsRight
<1> QED
  BY <1>1, <1>2, LogsWrite, LogsReads, LogsChain DEF MirrorNext, Process

(* Every event that has a row of its own is stored once, whatever was      *)
(* retried, replayed or reorganised: a row is that of an event of a final  *)
(* block, no event has two, and up to the saved cursor none is without,    *)
(* from the block after the configured start on.  This is what makes       *)
(* a batch that is read again harmless (indexer.go:138-155) and rests on   *)
(* the inserts' ON CONFLICT (tx_hash, log_index) DO NOTHING.               *)
THEOREM EventsAreStoredOnce ==
  MirrorSpec => [](/\ RowsAreEvents(db, ledger, final)
                   /\ EventsHaveRows(db, ledger, start + 1, saved, LoggedBy(contract))
                   /\ OneRowEach(db))
<1>1. MirrorInit => MirrorRight /\ LogsRight
  BY MirrorInitRight, LogsInit
<1>2. MirrorRight /\ LogsRight /\ [MirrorNext]_indexerVars => (MirrorRight /\ LogsRight)'
  BY MirrorStepRight, LogsStep
<1>3. LogsRight => /\ RowsAreEvents(db, ledger, final)
                   /\ EventsHaveRows(db, ledger, start + 1, saved, LoggedBy(contract))
                   /\ OneRowEach(db)
  BY RowsAreDistinct DEF LogsRight
<1> QED
  BY <1>1, <1>2, <1>3, PTL DEF MirrorSpec

---------------------------------------------------------------------------
(* Part 9: the indexer: what the governor and an EVM vault show agrees.  *)

(* What one event of a governor or a vault does to its storage. *)

(* The states a proposal is in before the event of this name, and after it. *)
Leaves(name) ==
  CASE name = "ProposalCreated" -> {"none"}
    [] name \in {"VoteCast", "ProposalQueued"} -> {"pending"}
    [] name \in {"ProposalExecuted", "ProposalDispatched"} -> {"queued"}
    [] name = "ProposalCancelled" -> {"pending", "queued"}

Enters(name) ==
  IF name \in {"ProposalCreated", "VoteCast"} THEN "pending" ELSE StateOf(name)

GovernorMoves(e, s, t) ==
  /\ e.name \in GovernanceFilters
  /\ {"state", "cast"} \subseteq DOMAIN t
  /\ e.id \in DOMAIN s.state /\ s.state[e.id] \in Leaves(e.name)
  /\ DOMAIN t.state = DOMAIN s.state /\ t.state[e.id] = Enters(e.name)
  /\ \A p \in DOMAIN s.state : p # e.id => t.state[p] = s.state[p]
  /\ e.name # "VoteCast" => t.cast = s.cast
  /\ e.name = "VoteCast" =>
       /\ <<e.id, e.who>> \notin DOMAIN s.cast
       /\ t.cast = With(s.cast, <<e.id, e.who>>, e.support)
       /\ {"who", "support", "weight"} \subseteq DOMAIN e /\ e.weight = Weight[e.who]

(* The shares an event adds to a user's. *)
Gain(e, u) ==
  IF e.who # u THEN 0 ELSE IF e.name = "Deposited" THEN e.shares ELSE -e.shares

VaultMoves(e, s, t) ==
  /\ e.name \in VaultFilters
  /\ "shares" \in DOMAIN t /\ t.shares \in [Accounts -> Nat]
  /\ {"id", "who", "shares"} \subseteq DOMAIN e /\ e.who \in Accounts /\ e.shares \in Nat
  /\ s.shares \in [Accounts -> Nat]
  /\ \A u \in Accounts : t.shares[u] = s.shares[u] + Gain(e, u)

Moves(which, e, s, t) ==
  IF which = "governor" THEN GovernorMoves(e, s, t) ELSE VaultMoves(e, s, t)

(* The storage after the first q transactions of L, from the storage base. *)
Post(L, base, q) == IF q = 0 THEN base ELSE L[q].post

(* One event a transaction, and what it says is what happened. *)
Lawful(L, which, base) ==
  \A i \in 1..Len(L) :
    /\ L[i].ok = TRUE /\ L[i].events = <<L[i].events[1]>>
    /\ Moves(which, L[i].events[1], Post(L, base, i - 1), L[i].post)

(* A proposal's states, in the order it goes through them. *)
Onward(x, y) ==
  \/ x = y \/ x = "none"
  \/ x = "pending" /\ y \in {"queued", "executed", "dispatched", "cancelled"}
  \/ x = "queued" /\ y \in {"executed", "dispatched", "cancelled"}

NothingGoesBack(L) ==
  \A i, j \in 1..Len(L) : i <= j =>
    /\ About(L, i) \in DOMAIN L[j].post.state
    /\ Onward(Enters(Does(L, i)), L[j].post.state[About(L, i)])

LEMMA OnwardTwice ==
  ASSUME NEW x, NEW y, NEW z, Onward(x, y), Onward(y, z)
  PROVE  Onward(x, z)
BY DEF Onward

LEMMA MovesOn ==
  ASSUME NEW e, NEW s, NEW t, GovernorMoves(e, s, t)
  PROVE  /\ DOMAIN t.state = DOMAIN s.state /\ t.state[e.id] = Enters(e.name)
         /\ \A p \in DOMAIN s.state : Onward(s.state[p], t.state[p])
<1>1. DOMAIN t.state = DOMAIN s.state /\ t.state[e.id] = Enters(e.name)
      /\ \A p \in DOMAIN s.state : p # e.id => t.state[p] = s.state[p]
  BY DEF GovernorMoves
<1>2. Onward(s.state[e.id], Enters(e.name))
  <2>1. s.state[e.id] \in Leaves(e.name) /\ e.name \in GovernanceFilters
    BY DEF GovernorMoves
  <2> QED
    BY <2>1 DEF Leaves, Enters, StateOf, GovernanceFilters, Onward
<1> QED
  BY <1>1, <1>2 DEF Onward

(* The calls that a governor and a vault have. *)
LEMMA CallsOf ==
  ASSUME ContractCall
  PROVE  /\ contract = "governor" =>
              Propose \/ CastVote \/ Queue \/ ExecuteProposal \/ CancelProposal
         /\ contract = "vault" => Deposit \/ Withdraw
<1>1. ReceiveMessage \/ CloseMessage \/ FailedTransaction \/ ParameterChanged =>
        contract \notin {"governor", "vault"}
  BY SMTT(30) DEF ReceiveMessage, CloseMessage, FailedTransaction, ParameterChanged
<1>2. RegisterFeed \/ DeregisterFeed \/ OpenRound \/ SubmitValue \/ SettleRound =>
        contract \notin {"governor", "vault"}
  BY ZenonT(60) DEF RegisterFeed, DeregisterFeed, OpenRound, SubmitValue, SettleRound
<1>3. Register \/ TopUp \/ RequestUnstake \/ CancelUnstake => contract \notin {"governor", "vault"}
  BY DEF Register, TopUp, RequestUnstake, CancelUnstake
<1>4. CompleteUnstake \/ SlashNode \/ Deactivate => contract \notin {"governor", "vault"}
  BY DEF CompleteUnstake, SlashNode, Deactivate
<1>5. InsertCommitment \/ RegisterAction \/ DeregisterAction \/ ExecutePrivateAction =>
        contract \notin {"governor", "vault"}
  BY DEF InsertCommitment, RegisterAction, DeregisterAction, ExecutePrivateAction
<1>6. Deposit \/ Withdraw => contract # "governor"
  BY DEF Deposit, Withdraw
<1>7. Propose \/ CastVote \/ Queue \/ ExecuteProposal \/ CancelProposal => contract # "vault"
  BY DEF Propose, CastVote, Queue, ExecuteProposal, CancelProposal
<1> QED
  BY <1>1, <1>2, <1>3, <1>4, <1>5, <1>6, <1>7 DEF ContractCall

LEMMA GovernorMoveIs ==
  ASSUME contract = "governor", ContractCall,
         {"state", "cast"} \subseteq DOMAIN Storage, DOMAIN Storage.state = Ids
  PROVE  \E e, post : Call(<<e>>, post) /\ GovernorMoves(e, Storage, post)
<1> DEFINE s == Storage
           I == Ids
<1>0. {"state", "cast"} \subseteq DOMAIN s /\ DOMAIN s.state = I
  OBVIOUS
<1>1. ASSUME NEW p \in I, NEW name \in GovernanceFilters \ {"VoteCast"}, NEW post,
             s.state[p] \in Leaves(name), DOMAIN post = DOMAIN s, post.cast = s.cast,
             post.state = [s.state EXCEPT ![p] = Enters(name)],
             Call(<<[name |-> name, id |-> p]>>, post)
      PROVE  \E e, t : Call(<<e>>, t) /\ GovernorMoves(e, s, t)
  <2> DEFINE e == [name |-> name, id |-> p]
  <2>1. Call(<<e>>, post)
    BY <1>1
  <2>2. e.id = p /\ e.name = name
    OBVIOUS
  <2> HIDE DEF e, s, I
  <2>3. GovernorMoves(e, s, post)
    BY <1>0, <1>1, <2>2 DEF GovernorMoves
  <2> QED
    BY <2>1, <2>3
<1>2. ASSUME NEW p \in I, NEW v, NEW t, t = [s EXCEPT !.state[p] = v]
      PROVE  DOMAIN t = DOMAIN s /\ t.cast = s.cast /\ t.state = [s.state EXCEPT ![p] = v]
  BY <1>0, <1>2
<1>3. CASE Propose
  <2>1. PICK p \in I, remote \in BOOLEAN :
          /\ s.state[p] = "none"
          /\ Call(<<[name |-> "ProposalCreated", id |-> p]>>,
                  [s EXCEPT !.state[p] = "pending", !.remote[p] = remote])
    BY <1>3 DEF Propose
  <2> DEFINE q == [s EXCEPT !.state[p] = "pending"]
             t == [s EXCEPT !.state[p] = "pending", !.remote[p] = remote]
  <2>2. DOMAIN q = DOMAIN s /\ q.cast = s.cast /\ q.state = [s.state EXCEPT ![p] = "pending"]
    BY <1>2
  <2>3. t = [q EXCEPT !.remote[p] = remote]
    OBVIOUS
  <2>4. Call(<<[name |-> "ProposalCreated", id |-> p]>>, t)
    BY <2>1
  <2> HIDE DEF q, t, s, I
  <2>5. DOMAIN t = DOMAIN s /\ t.cast = s.cast /\ t.state = [s.state EXCEPT ![p] = "pending"]
    BY <2>2, <2>3
  <2>6. /\ "ProposalCreated" \in GovernanceFilters \ {"VoteCast"}
        /\ Leaves("ProposalCreated") = {"none"} /\ Enters("ProposalCreated") = "pending"
    BY DEF GovernanceFilters, Leaves, Enters
  <2> QED
    BY <1>1, <2>1, <2>4, <2>5, <2>6 DEF s, I
<1>4. CASE CastVote
  <2>1. PICK p \in I, v \in Accounts, support \in {"for", "against"} :
          /\ s.state[p] = "pending"
          /\ <<p, v>> \notin DOMAIN s.cast
          /\ Call(<<[name |-> "VoteCast", id |-> p, who |-> v,
                     support |-> support, weight |-> Weight[v]]>>,
                  [s EXCEPT !.cast = With(@, <<p, v>>, support)])
    BY <1>4 DEF CastVote
  <2> DEFINE e == [name |-> "VoteCast", id |-> p, who |-> v,
                   support |-> support, weight |-> Weight[v]]
             t == [s EXCEPT !.cast = With(@, <<p, v>>, support)]
  <2>2. Call(<<e>>, t)
    BY <2>1
  <2>3. /\ DOMAIN e = {"name", "id", "who", "support", "weight"} /\ e.name = "VoteCast"
        /\ e.id = p /\ e.who = v /\ e.support = support /\ e.weight = Weight[v]
    OBVIOUS
  <2>4. DOMAIN t = DOMAIN s /\ t.state = s.state /\ t.cast = With(s.cast, <<p, v>>, support)
    BY <1>0
  <2> HIDE DEF e, t, s, I
  <2>5. /\ "VoteCast" \in GovernanceFilters
        /\ Leaves("VoteCast") = {"pending"} /\ Enters("VoteCast") = "pending"
    BY DEF GovernanceFilters, Leaves, Enters
  <2>6. DOMAIN t.state = DOMAIN s.state /\ t.state[p] = "pending"
        /\ \A q \in DOMAIN s.state : t.state[q] = s.state[q]
    BY <2>1, <2>4
  <2>7. {"state", "cast"} \subseteq DOMAIN t
        /\ {"who", "support", "weight"} \subseteq DOMAIN e
    BY <1>0, <2>3, <2>4
  <2>8. GovernorMoves(e, s, t)
    BY <1>0, <2>1, <2>3, <2>4, <2>5, <2>6, <2>7 DEF GovernorMoves
  <2> QED
    BY <2>2, <2>8 DEF s, I
<1>5. ASSUME NEW p \in I, NEW name \in GovernanceFilters \ {"VoteCast"},
             s.state[p] \in Leaves(name),
             Call(<<[name |-> name, id |-> p]>>, [s EXCEPT !.state[p] = Enters(name)])
      PROVE  \E e, t : Call(<<e>>, t) /\ GovernorMoves(e, s, t)
  <2> DEFINE t == [s EXCEPT !.state[p] = Enters(name)]
  <2>1. DOMAIN t = DOMAIN s /\ t.cast = s.cast /\ t.state = [s.state EXCEPT ![p] = Enters(name)]
    BY <1>2
  <2>2. Call(<<[name |-> name, id |-> p]>>, t)
    BY <1>5
  <2> HIDE DEF t, s, I
  <2> QED
    BY <1>1, <1>5, <2>1, <2>2
<1>6. CASE Queue
  <2>1. PICK p \in I : s.state[p] = "pending"
          /\ Call(<<[name |-> "ProposalQueued", id |-> p]>>, [s EXCEPT !.state[p] = "queued"])
    BY <1>6 DEF Queue
  <2>2. /\ "ProposalQueued" \in GovernanceFilters \ {"VoteCast"}
        /\ Leaves("ProposalQueued") = {"pending"} /\ Enters("ProposalQueued") = "queued"
    BY DEF GovernanceFilters, Leaves, Enters, StateOf
  <2> HIDE DEF s, I
  <2> QED
    BY <1>5, <2>1, <2>2 DEF s, I
<1>7. CASE ExecuteProposal
  <2>1. PICK p \in I : s.state[p] = "queued"
          /\ \/ Call(<<[name |-> "ProposalDispatched", id |-> p]>>,
                     [s EXCEPT !.state[p] = "dispatched"])
             \/ Call(<<[name |-> "ProposalExecuted", id |-> p]>>,
                     [s EXCEPT !.state[p] = "executed"])
    BY <1>7 DEF ExecuteProposal
  <2>2. /\ {"ProposalDispatched", "ProposalExecuted"} \subseteq GovernanceFilters \ {"VoteCast"}
        /\ Leaves("ProposalDispatched") = {"queued"} /\ Leaves("ProposalExecuted") = {"queued"}
        /\ Enters("ProposalDispatched") = "dispatched" /\ Enters("ProposalExecuted") = "executed"
    BY DEF GovernanceFilters, Leaves, Enters, StateOf
  <2> HIDE DEF s, I
  <2> QED
    BY <1>5, <2>1, <2>2 DEF s, I
<1>8. CASE CancelProposal
  <2>1. PICK p \in I : s.state[p] \in {"pending", "queued"}
          /\ Call(<<[name |-> "ProposalCancelled", id |-> p]>>,
                  [s EXCEPT !.state[p] = "cancelled"])
    BY <1>8 DEF CancelProposal
  <2>2. /\ "ProposalCancelled" \in GovernanceFilters \ {"VoteCast"}
        /\ Leaves("ProposalCancelled") = {"pending", "queued"}
        /\ Enters("ProposalCancelled") = "cancelled"
    BY DEF GovernanceFilters, Leaves, Enters, StateOf
  <2> HIDE DEF s, I
  <2> QED
    BY <1>5, <2>1, <2>2 DEF s, I
<1> QED
  BY <1>3, <1>4, <1>6, <1>7, <1>8, CallsOf

LEMMA VaultMoveIs ==
  ASSUME contract = "vault", ContractCall,
         "shares" \in DOMAIN Storage, Storage.shares \in [Accounts -> Nat]
  PROVE  \E e, post : Call(<<e>>, post) /\ VaultMoves(e, Storage, post)
<1> DEFINE s == Storage
<1>1. "shares" \in DOMAIN s /\ s.shares \in [Accounts -> Nat]
  OBVIOUS
<1>2. ASSUME NEW u \in Accounts, NEW n \in Nat, NEW v \in Nat, NEW name \in VaultFilters,
             v = s.shares[u] + (IF name = "Deposited" THEN n ELSE -n),
             Call(<<[name |-> name, id |-> 0, who |-> u, shares |-> n]>>,
                  [s EXCEPT !.shares[u] = v])
      PROVE  \E e, t : Call(<<e>>, t) /\ VaultMoves(e, s, t)
  <2> DEFINE e == [name |-> name, id |-> 0, who |-> u, shares |-> n]
             t == [s EXCEPT !.shares[u] = v]
  <2>1. Call(<<e>>, t)
    BY <1>2
  <2>2. DOMAIN e = {"name", "id", "who", "shares"} /\ e.name = name /\ e.who = u /\ e.shares = n
    OBVIOUS
  <2>3. "shares" \in DOMAIN t /\ t.shares = [s.shares EXCEPT ![u] = v]
    BY <1>1
  <2> HIDE DEF e, t, s
  <2>4. t.shares \in [Accounts -> Nat]
    BY <1>1, <2>3
  <2>5. ASSUME NEW w \in Accounts PROVE t.shares[w] = s.shares[w] + Gain(e, w)
    BY <1>1, <1>2, <2>2, <2>3 DEF Gain
  <2>6. VaultMoves(e, s, t)
    BY <1>1, <2>2, <2>3, <2>4, <2>5 DEF VaultMoves
  <2> QED
    BY <2>1, <2>6
<1>3. CASE Deposit
  <2>1. PICK u \in Accounts :
          Call(<<[name |-> "Deposited", id |-> 0, who |-> u, shares |-> Weight[u]]>>,
               [s EXCEPT !.shares[u] = s.shares[u] + Weight[u]])
    BY <1>3 DEF Deposit
  <2>2. Weight[u] \in Nat /\ s.shares[u] \in Nat
    BY <1>1, ContractsAssumption
  <2>3. "Deposited" \in VaultFilters
    BY DEF VaultFilters
  <2> HIDE DEF s
  <2>4. PICK n, v : n = Weight[u] /\ v = s.shares[u] + n
    OBVIOUS
  <2>5. n \in Nat /\ v \in Nat
    BY <2>2, <2>4
  <2> QED
    BY <1>2, <2>1, <2>3, <2>4, <2>5 DEF s
<1>4. CASE Withdraw
  <2>0. PICK u \in Accounts : \E n \in 1..s.shares[u] :
          Call(<<[name |-> "Withdrawn", id |-> 0, who |-> u, shares |-> n]>>,
               [s EXCEPT !.shares[u] = s.shares[u] - n])
    BY <1>4 DEF Withdraw
  <2>1. PICK n \in 1..s.shares[u] :
          Call(<<[name |-> "Withdrawn", id |-> 0, who |-> u, shares |-> n]>>,
               [s EXCEPT !.shares[u] = s.shares[u] - n])
    BY <2>0
  <2>2. s.shares[u] \in Nat
    BY <1>1
  <2>3. "Withdrawn" \in VaultFilters
    BY DEF VaultFilters
  <2> HIDE DEF s
  <2>4. PICK v : v = s.shares[u] - n
    OBVIOUS
  <2>5. n \in Nat /\ v \in Nat /\ v = s.shares[u] + (-n)
    BY <2>1, <2>2, <2>4
  <2> QED
    BY <1>2, <2>1, <2>3, <2>4, <2>5 DEF s
<1> QED
  BY <1>3, <1>4, CallsOf

---------------------------------------------------------------------------
(* The chain keeps the law of its ledger. *)

LEMMA LawfulAdds ==
  ASSUME NEW L, Len(L) \in Nat, NEW which, NEW base, Lawful(L, which, base),
         NEW x, x.ok = TRUE, x.events = <<x.events[1]>>,
         Moves(which, x.events[1], Post(L, base, Len(L)), x.post),
         NEW M, Len(M) = Len(L) + 1, M[Len(L) + 1] = x, \A i \in 1..Len(L) : M[i] = L[i]
  PROVE  Lawful(M, which, base)
<1> DEFINE N == Len(L)
<1> SUFFICES ASSUME NEW i \in 1..(N + 1)
             PROVE  /\ M[i].ok = TRUE /\ M[i].events = <<M[i].events[1]>>
                    /\ Moves(which, M[i].events[1], Post(M, base, i - 1), M[i].post)
  BY DEF Lawful
<1>1. Post(M, base, i - 1) = Post(L, base, i - 1)
  BY DEF Post
<1>2. CASE i \in 1..N
  <2>1. M[i] = L[i]
    BY <1>2
  <2> HIDE DEF N
  <2> QED
    BY <1>1, <1>2, <2>1 DEF Lawful, N
<1>3. CASE i = N + 1
  <2>1. M[i] = x /\ i - 1 = N
    BY <1>3
  <2> HIDE DEF N
  <2>2. Post(M, base, i - 1) = Post(L, base, N)
    BY <1>1, <2>1
  <2> QED
    BY <2>1, <2>2 DEF N
<1>4. i \in 1..N \/ i = N + 1
  OBVIOUS
<1> QED
  BY ONLY <1>2, <1>3, <1>4

LEMMA LawfulShrinks ==
  ASSUME NEW L, Len(L) \in Nat, NEW which, NEW base, Lawful(L, which, base),
         NEW M, Len(M) \in Nat, Len(M) <= Len(L), \A i \in 1..Len(M) : M[i] = L[i]
  PROVE  Lawful(M, which, base)
<1> SUFFICES ASSUME NEW i \in 1..Len(M)
             PROVE  /\ M[i].ok = TRUE /\ M[i].events = <<M[i].events[1]>>
                    /\ Moves(which, M[i].events[1], Post(M, base, i - 1), M[i].post)
  BY DEF Lawful
<1>1. Post(M, base, i - 1) = Post(L, base, i - 1) /\ M[i] = L[i] /\ i \in 1..Len(L)
  BY DEF Post
<1> QED
  BY <1>1 DEF Lawful

LEMMA BackAdds ==
  ASSUME NEW L, Len(L) \in Nat, NEW base, NothingGoesBack(L),
         NEW x, GovernorMoves(x.events[1], Post(L, base, Len(L)), x.post),
         NEW M, Len(M) = Len(L) + 1, M[Len(L) + 1] = x, \A i \in 1..Len(L) : M[i] = L[i]
  PROVE  NothingGoesBack(M)
<1> DEFINE N == Len(L)
           s == Post(L, base, N)
<1>1. /\ DOMAIN x.post.state = DOMAIN s.state
      /\ x.events[1].id \in DOMAIN s.state
      /\ x.post.state[x.events[1].id] = Enters(x.events[1].name)
      /\ \A p \in DOMAIN s.state : Onward(s.state[p], x.post.state[p])
  <2>1. x.events[1].id \in DOMAIN s.state
    BY DEF GovernorMoves
  <2> HIDE DEF s, N
  <2> QED
    BY <2>1, MovesOn DEF s, N
<1> SUFFICES ASSUME NEW i \in 1..(N + 1), NEW j \in 1..(N + 1), i <= j
             PROVE  /\ About(M, i) \in DOMAIN M[j].post.state
                    /\ Onward(Enters(Does(M, i)), M[j].post.state[About(M, i)])
  BY DEF NothingGoesBack
<1>2. CASE j \in 1..N
  <2>1. M[i] = L[i] /\ M[j] = L[j] /\ i \in 1..N
    BY <1>2
  <2> QED
    BY <1>2, <2>1 DEF NothingGoesBack, About, Does
<1>3. CASE i = N + 1 /\ j = N + 1
  <2>1. M[i] = x /\ M[j] = x
    BY <1>3
  <2> QED
    BY <1>1, <2>1 DEF About, Does, Onward
<1>4. CASE i \in 1..N /\ j = N + 1
  <2>1. M[i] = L[i] /\ M[j] = x /\ N # 0 /\ N \in 1..N /\ i <= N
    BY <1>4
  <2>2. s = L[N].post
    BY <2>1 DEF Post
  <2> HIDE DEF s, N
  <2>3. /\ About(L, i) \in DOMAIN s.state
        /\ Onward(Enters(Does(L, i)), s.state[About(L, i)])
    BY <1>4, <2>1, <2>2 DEF NothingGoesBack, N
  <2>4. Onward(Enters(Does(L, i)), x.post.state[About(L, i)])
    BY <1>1, <2>3, OnwardTwice
  <2>5. About(M, i) = About(L, i) /\ Does(M, i) = Does(L, i)
    BY <2>1 DEF About, Does
  <2> QED
    BY <1>1, <2>1, <2>3, <2>4, <2>5
<1> QED
  BY <1>2, <1>3, <1>4

LEMMA BackShrinks ==
  ASSUME NEW L, Len(L) \in Nat, NothingGoesBack(L),
         NEW M, Len(M) \in Nat, Len(M) <= Len(L), \A i \in 1..Len(M) : M[i] = L[i]
  PROVE  NothingGoesBack(M)
<1> SUFFICES ASSUME NEW i \in 1..Len(M), NEW j \in 1..Len(M), i <= j
             PROVE  /\ About(M, i) \in DOMAIN M[j].post.state
                    /\ Onward(Enters(Does(M, i)), M[j].post.state[About(M, i)])
  BY DEF NothingGoesBack
<1>1. M[i] = L[i] /\ M[j] = L[j] /\ i \in 1..Len(L) /\ j \in 1..Len(L)
  OBVIOUS
<1> QED
  BY <1>1 DEF NothingGoesBack, About, Does

LEMMA StorageIs ==
  ASSUME ChainTyped
  PROVE  Storage = Post(ledger, Deployed(contract), Len(ledger))
<1>1. PICK R : ledger \in Seq(R)
  BY DEF ChainTyped, Readable
<1>2. CASE ledger = <<>>
  BY <1>2 DEF Storage, Post
<1>3. CASE ledger # <<>>
  <2>1. Len(ledger) # 0
    BY <1>1, <1>3, EmptySeq
  <2> QED
    BY <1>3, <2>1 DEF Storage, Post, Last
<1> QED
  BY <1>2, <1>3

LEMMA DeployedIs ==
  /\ contract = "governor" =>
       Deployed(contract) = [state |-> [p \in Ids |-> "none"],
                             remote |-> [p \in Ids |-> FALSE], cast |-> <<>>]
  /\ contract = "vault" => Deployed(contract) = [shares |-> [u \in Accounts |-> 0]]
BY DEF Deployed

(* What the storage of either holds. *)
LEMMA StorageHolds ==
  ASSUME ChainTyped, contract \in {"governor", "vault"},
         Lawful(ledger, contract, Deployed(contract)),
         contract = "governor" => Governed(ledger, Ids)
  PROVE  /\ contract = "governor" =>
              {"state", "cast"} \subseteq DOMAIN Storage /\ DOMAIN Storage.state = Ids
         /\ contract = "vault" =>
              "shares" \in DOMAIN Storage /\ Storage.shares \in [Accounts -> Nat]
<1>1. PICK R : ledger \in Seq(R)
  BY DEF ChainTyped, Readable
<1>2. CASE ledger = <<>>
  <2>1. Storage = Deployed(contract)
    BY <1>2 DEF Storage
  <2> QED
    BY <2>1, DeployedIs
<1>3. CASE ledger # <<>>
  <2> DEFINE N == Len(ledger)
  <2>1. N \in 1..N /\ N # 0
    BY <1>1, <1>3, EmptySeq
  <2>2. Storage = ledger[N].post
    BY <1>3 DEF Storage, Last
  <2>3. Moves(contract, ledger[N].events[1], Post(ledger, Deployed(contract), N - 1),
              ledger[N].post)
    BY <2>1 DEF Lawful
  <2> HIDE DEF N
  <2>4. contract = "governor" => {"state", "cast"} \subseteq DOMAIN Storage
    BY <2>2, <2>3 DEF Moves, GovernorMoves
  <2>5. contract = "vault" => "shares" \in DOMAIN Storage /\ Storage.shares \in [Accounts -> Nat]
    BY <2>2, <2>3 DEF Moves, VaultMoves
  <2> QED
    BY <2>4, <2>5, StorageOfGovernor
<1> QED
  BY <1>2, <1>3

LEMMA LawfulNext ==
  ASSUME ChainTyped, ChainNext, contract \in {"governor", "vault"},
         Lawful(ledger, contract, Deployed(contract)),
         contract = "governor" => Governed(ledger, Ids) /\ NothingGoesBack(ledger)
  PROVE  /\ Lawful(ledger', contract, Deployed(contract))
         /\ contract = "governor" => NothingGoesBack(ledger')
<1> DEFINE N == Len(ledger)
           base == Deployed(contract)
<1>1. PICK R : ledger \in Seq(R)
  BY DEF ChainTyped, Readable
<1>2. N \in Nat /\ DOMAIN ledger = 1..N
  BY <1>1
<1>3. CASE ContractCall
  <2>1. Storage = Post(ledger, base, N)
    BY StorageIs
  <2>2. PICK e, post : Call(<<e>>, post) /\ Moves(contract, e, Storage, post)
    BY <1>3, StorageHolds, GovernorMoveIs, VaultMoveIs DEF Moves
  <2> DEFINE tx == [slot |-> 0, ok |-> TRUE, events |-> <<e>>, post |-> post]
  <2>3. PICK slot : ledger' = Append(ledger, [tx EXCEPT !.slot = slot])
    BY <2>2 DEF Call, Append1
  <2> DEFINE x == [tx EXCEPT !.slot = slot]
  <2>4. x.ok = TRUE /\ x.events = <<e>> /\ x.post = post /\ x.events[1] = e
    OBVIOUS
  <2>5. ledger' = Append(ledger, x)
    BY <2>3
  <2> HIDE DEF x, tx
  <2>6. Len(ledger') = N + 1 /\ ledger'[N + 1] = x /\ \A i \in 1..N : ledger'[i] = ledger[i]
    <3>1. ledger \in Seq(R \union {x})
      BY <1>1, SeqMonotonic
    <3> QED
      BY <2>5, <3>1, AppendProperties
  <2>7. PICK M : M = ledger'
    OBVIOUS
  <2>8. Len(M) = N + 1 /\ M[N + 1] = x /\ \A i \in 1..N : M[i] = ledger[i]
    BY <2>6, <2>7
  <2>9. Moves(contract, x.events[1], Post(ledger, base, N), x.post)
    BY <2>1, <2>2, <2>4
  <2>10. x.events = <<x.events[1]>>
    BY <2>4
  <2> HIDE DEF base
  <2>11. Lawful(M, contract, base)
    BY <1>2, <2>4, <2>8, <2>9, <2>10, LawfulAdds DEF base
  <2>12. contract = "governor" => NothingGoesBack(M)
    BY <1>2, <2>8, <2>9, BackAdds DEF Moves
  <2> QED
    BY <2>7, <2>11, <2>12 DEF base
<1>4. CASE EmptyBlock
  <2>1. ledger' = ledger
    BY <1>4 DEF EmptyBlock
  <2> QED
    BY <2>1
<1>5. CASE Reorg
  <2>1. PICK n \in 0..N : ledger' = SubSeq(ledger, 1, n)
    BY <1>5 DEF Reorg
  <2>2. Len(ledger') = n /\ \A i \in 1..n : ledger'[i] = ledger[i]
    BY <1>1, <2>1
  <2>3. PICK M : M = ledger'
    OBVIOUS
  <2>4. Len(M) \in Nat /\ Len(M) <= N /\ \A i \in 1..Len(M) : M[i] = ledger[i]
    BY <1>2, <2>1, <2>2, <2>3
  <2> HIDE DEF base
  <2>5. Lawful(M, contract, base)
    BY <1>2, <2>4, LawfulShrinks DEF base
  <2>6. contract = "governor" => NothingGoesBack(M)
    BY <1>2, <2>4, BackShrinks
  <2> QED
    BY <2>3, <2>5, <2>6 DEF base
<1> QED
  BY <1>3, <1>4, <1>5 DEF ChainNext

---------------------------------------------------------------------------
(* How far into the ledger the tables are. *)

(* No transaction up to block x comes after the first q. *)
Within(L, x, q) == \A i \in 1..Len(L) : L[i].slot <= x => i <= q

(* The batch holds what comes after the first q, in the ledger's order. *)
Batched(L, es, c, t, q) ==
  /\ \A n \in 1..Len(es) : \E i \in 1..Len(L) :
       es[n] = Decode(L, i, 1) /\ L[i].slot \in (c + 1)..t
  /\ \A m, n \in 1..Len(es) : m < n => es[m].at[1] < es[n].at[1]
  /\ \A i \in 1..Len(L) : L[i].slot \in (c + 1)..t =>
       i <= q \/ \E n \in 1..Len(es) : es[n] = Decode(L, i, 1)

LEMMA WithinMore ==
  ASSUME NEW L, NEW x, NEW q \in Int, NEW r \in Int, q <= r, Within(L, x, q)
  PROVE  Within(L, x, r)
BY DEF Within

LEMMA WithinNone ==
  ASSUME NEW L, NEW h, \A i \in 1..Len(L) : L[i].slot \in 1..h, NEW b \in {0, NotSaved}, NEW q
  PROVE  Within(L, b, q)
BY DEF Within, NotSaved

LEMMA NoneBatched ==
  ASSUME NEW L, \A i \in 1..Len(L) : L[i].slot \in Nat, NEW c \in Nat, NEW es, es = <<>>, NEW q
  PROVE  Batched(L, es, c, 0, q)
<1>1. Len(es) = 0 /\ (c + 1)..0 = {}
  OBVIOUS
<1> QED
  BY <1>1 DEF Batched

LEMMA WithinDone ==
  ASSUME NEW L, \A i \in 1..Len(L) : L[i].slot \in Nat, NEW c \in Nat, NEW t \in Nat,
         NEW es, es = <<>>, NEW q \in Nat, Batched(L, es, c, t, q), Within(L, c, q)
  PROVE  Within(L, t, q)
<1> SUFFICES ASSUME NEW i \in 1..Len(L), L[i].slot <= t PROVE i <= q
  BY DEF Within
<1>1. CASE L[i].slot <= c
  BY <1>1 DEF Within
<1>2. CASE L[i].slot \in (c + 1)..t
  <2>1. Len(es) = 0
    OBVIOUS
  <2> QED
    BY <1>2, <2>1 DEF Batched
<1>3. L[i].slot <= c \/ L[i].slot \in (c + 1)..t
  OBVIOUS
<1> QED
  BY <1>1, <1>2, <1>3

(* The event at hand is one of the first q, or the next. *)
LEMMA AtMostNext ==
  ASSUME NEW L, Readable(L), NEW c \in Nat, NEW t \in Nat, NEW q \in Nat, Within(L, c, q),
         NEW es, IsSeq(es), es # <<>>, Batched(L, es, c, t, q),
         NEW i \in 1..Len(L), es[1] = Decode(L, i, 1), L[i].slot \in (c + 1)..t
  PROVE  i <= q + 1
<1> SUFFICES ASSUME q + 1 < i PROVE FALSE
  BY LengthIsNat DEF Readable
<1> DEFINE k == q + 1
<1>1. Len(L) \in Nat
  BY LengthIsNat DEF Readable
<1>2. k \in 1..Len(L) /\ k < i
  BY <1>1
<1>3. L[k].slot \in Nat /\ L[i].slot \in Nat /\ L[k].slot <= L[i].slot
  BY <1>1, <1>2 DEF Readable
<1>4. L[k].slot > c
  BY <1>2, <1>3 DEF Within
<1>5. L[k].slot \in (c + 1)..t /\ ~ (k <= q)
  BY <1>3, <1>4
<1> HIDE DEF k
<1>6. PICK n \in 1..Len(es) : es[n] = Decode(L, k, 1)
  BY <1>2, <1>5 DEF Batched
<1>7. es[n].at[1] = k /\ es[1].at[1] = i
  <2>1. Decode(L, i, 1).at[1] = i /\ Decode(L, k, 1).at[1] = k
    BY ONLY DecodeIs, ZenonT(60)
  <2>2. es[n] = Decode(L, k, 1) /\ es[1] = Decode(L, i, 1)
    BY <1>6
  <2> QED
    BY ONLY <2>1, <2>2
<1>8. n # 1 /\ n > 1 /\ 1 \in 1..Len(es)
  <2>1. n # 1
    BY ONLY <1>2, <1>7
  <2>2. Len(es) \in Nat
    BY LengthIsNat DEF IsSeq
  <2> QED
    BY <1>6, <2>1, <2>2
<1>9. es[1].at[1] < es[n].at[1]
  BY <1>6, <1>8 DEF Batched
<1> QED
  BY <1>1, <1>2, <1>7, <1>9

(* The batch once its first event is one of the first r. *)
LEMMA BatchedAfter ==
  ASSUME NEW L, NEW es, IsSeq(es), es # <<>>, NEW c, NEW t, NEW q \in Nat, NEW r \in Nat, q <= r,
         Batched(L, es, c, t, q), NEW i \in 1..Len(L), es[1] = Decode(L, i, 1), i <= r
  PROVE  Batched(L, es, c, t, r) /\ Batched(L, Tail(es), c, t, r)
<1> DEFINE v == Tail(es)
<1>1. /\ Len(es) \in Nat /\ Len(es) > 0 /\ Len(v) = Len(es) - 1
      /\ \A n \in 1..Len(v) : v[n] = es[n + 1]
  <2>1. PICK R : es \in Seq(R)
    BY DEF IsSeq
  <2> QED
    BY <2>1, EmptySeq, HeadTailProperties
<1> HIDE DEF v
<1>2. \A n \in 1..Len(v) : n + 1 \in 1..Len(es)
  BY <1>1
<1>3. Batched(L, es, c, t, r)
  BY DEF Batched
<1>4. ASSUME NEW n \in 1..Len(v)
      PROVE  \E j \in 1..Len(L) : v[n] = Decode(L, j, 1) /\ L[j].slot \in (c + 1)..t
  <2>1. n + 1 \in 1..Len(es) /\ v[n] = es[n + 1]
    BY <1>1, <1>2
  <2>2. PICK j \in 1..Len(L) : es[n + 1] = Decode(L, j, 1) /\ L[j].slot \in (c + 1)..t
    BY <1>3, <2>1 DEF Batched
  <2> QED
    BY <2>1, <2>2
<1>5. ASSUME NEW m \in 1..Len(v), NEW n \in 1..Len(v), m < n
      PROVE  v[m].at[1] < v[n].at[1]
  <2>1. m + 1 \in 1..Len(es) /\ n + 1 \in 1..Len(es) /\ m + 1 < n + 1
    BY <1>1, <1>2, <1>5
  <2>2. es[m + 1].at[1] < es[n + 1].at[1]
    BY <1>3, <2>1 DEF Batched
  <2> QED
    BY <1>1, <2>2
<1>6. ASSUME NEW j \in 1..Len(L), L[j].slot \in (c + 1)..t
      PROVE  j <= r \/ \E n \in 1..Len(v) : v[n] = Decode(L, j, 1)
  <2>1. CASE \E n \in 1..Len(es) : es[n] = Decode(L, j, 1)
    <3>1. PICK n \in 1..Len(es) : es[n] = Decode(L, j, 1)
      BY <2>1
    <3>2. CASE n = 1
      <4>1. i = j
        <5>1. Decode(L, i, 1).at[1] = i /\ Decode(L, j, 1).at[1] = j
          BY ONLY DecodeIs
        <5>2. Decode(L, i, 1) = Decode(L, j, 1)
          BY <3>1, <3>2
        <5> QED
          BY ONLY <5>1, <5>2
      <4> QED
        BY <4>1
    <3>3. CASE n # 1
      <4>1. n - 1 \in 1..Len(v) /\ (n - 1) + 1 = n
        BY <1>1, <3>3
      <4>2. v[n - 1] = es[(n - 1) + 1]
        BY <1>1, <4>1
      <4>3. v[n - 1] = Decode(L, j, 1)
        BY <3>1, <4>1, <4>2
      <4> QED
        BY <4>1, <4>3
    <3> QED
      BY <3>2, <3>3
  <2> QED
    BY <1>3, <1>6, <2>1 DEF Batched
<1> QED
  BY <1>3, <1>4, <1>5, <1>6 DEF Batched, v

(* Nothing of the first q is lost when what is not final is replaced. *)
LEMMA WithinNext ==
  ASSUME NEW L, NEW M, NEW f \in Nat, Grows(L, M, f),
         Len(L) \in Nat, Len(M) \in Nat, \A i \in 1..Len(M) : M[i].slot \in Nat,
         NEW q \in 0..Len(L), q # 0 => L[q].slot <= f, NEW base
  PROVE  /\ q \in 0..Len(M) /\ \A i \in 1..q : M[i] = L[i]
         /\ \A x \in Int : x <= f /\ Within(L, x, q) => Within(M, x, q)
<1>1. PICK m \in 0..Len(L) :
        /\ m <= Len(M) /\ \A i \in 1..m : M[i] = L[i]
        /\ \A i \in 1..Len(L) : L[i].slot <= f => i <= m
        /\ \A i \in 1..Len(M) : M[i].slot <= f => i <= m
  BY DEF Grows
<1>2. q <= m
  BY <1>1
<1>3. q \in 0..Len(M) /\ \A i \in 1..q : M[i] = L[i]
  BY <1>1, <1>2
<1>4. ASSUME NEW x \in Int, x <= f, Within(L, x, q), NEW i \in 1..Len(M), M[i].slot <= x
      PROVE  i <= q
  <2>1. i <= m /\ i \in 1..m /\ i \in 1..Len(L)
    BY <1>1, <1>4
  <2>2. L[i].slot <= x
    BY <1>1, <1>4, <2>1
  <2> QED
    BY <1>4, <2>1, <2>2 DEF Within
<1> QED
  BY <1>3, <1>4 DEF Within

---------------------------------------------------------------------------
(* The indexer's place in the ledger, through all it does but write. *)

(* The contracts whose transactions are all read in the ledger's order. *)
InOrder == contract = "governor" \/ (contract = "vault" /\ contract \notin SvmKinds)

LEMMA InOrderOnEvm == InOrder => contract \notin SvmKinds /\ contract \in {"governor", "vault"}
BY MirrorAssumption DEF InOrder, SolanaHandlers

(* The tables hold the first q transactions, and every cursor there is, or *)
(* may yet be saved, is at or before that.                                 *)
Covers(q) ==
  /\ q # 0 => ledger[q].slot <= written
  /\ \A x \in {cursor, saved} \union late : Within(ledger, x, q)
  /\ Batched(ledger, events, cursor, to, q)

LEMMA LawfulNames ==
  ASSUME NEW L, NEW which \in {"governor", "vault"}, NEW base, Lawful(L, which, base),
         NEW i \in 1..Len(L)
  PROVE  /\ L[i].ok = TRUE /\ Len(L[i].events) = 1
         /\ L[i].events[1].name \in Filters(which)
<1>1. L[i].ok = TRUE /\ L[i].events = <<L[i].events[1]>>
      /\ Moves(which, L[i].events[1], Post(L, base, i - 1), L[i].post)
  BY DEF Lawful
<1>2. PICK x : L[i].events = <<x>>
  BY <1>1
<1>3. Len(L[i].events) = 1
  BY ONLY <1>2
<1>4. PICK e, s, t : e = L[i].events[1] /\ Moves(which, e, s, t)
  BY <1>1
<1>5. e.name \in Filters(which)
  BY <1>4 DEF Moves, GovernorMoves, VaultMoves, Filters
<1> QED
  BY <1>1, <1>3, <1>4, <1>5

LEMMA FetchBatched ==
  ASSUME IndexerTyped, InOrder, Lawful(ledger, contract, Deployed(contract)), FetchBatch, NEW q
  PROVE  Batched(ledger, events', cursor', to', q)
<1> DEFINE L == ledger
           names == Filters(contract)
           first == cursor + 1
           last == to'
           r == EvmLogsInRange(L, first, last, names)
<1>1. contract \notin SvmKinds /\ contract \in {"governor", "vault"}
  BY InOrderOnEvm
<1>2. Readable(L)
  BY DEF IndexerTyped, ChainTyped
<1>3. events' = r /\ cursor' = cursor
  BY <1>1 DEF FetchBatch, LogsInRange
<1>4. /\ Exact(r, L, first, last, names)
      /\ \A a, b \in 1..Len(r) : a < b => Before(r[a].at[1], r[a].at[2], r[b].at[1], r[b].at[2])
  <2> HIDE DEF first, last, names, L
  <2> QED
    BY <1>2, EvmReaderIsExact
<1>5. ASSUME NEW i \in 1..Len(L)
      PROVE  L[i].ok = TRUE /\ Len(L[i].events) = 1 /\ L[i].events[1].name \in names
  BY <1>1, LawfulNames
<1> HIDE DEF r, first, last, L, names
<1>6. ASSUME NEW i, NEW j, Wanted(L, i, j, first, last, names)
      PROVE  j = 1 /\ i \in 1..Len(L) /\ L[i].slot \in first..last
  <2>1. i \in 1..Len(L) /\ j \in 1..Len(L[i].events) /\ L[i].slot \in first..last
    BY <1>6 DEF Wanted
  <2>2. Len(L[i].events) = 1
    BY <1>5, <2>1
  <2> QED
    BY <2>1, <2>2
<1>7. ASSUME NEW n \in 1..Len(r)
      PROVE  \E i \in 1..Len(L) : r[n] = Decode(L, i, 1) /\ L[i].slot \in first..last
  <2>1. PICK i, j : Wanted(L, i, j, first, last, names) /\ r[n] = Decode(L, i, j)
    BY <1>4 DEF Exact
  <2> QED
    BY <1>6, <2>1
<1>8. ASSUME NEW m \in 1..Len(r), NEW n \in 1..Len(r), m < n
      PROVE  r[m].at[1] < r[n].at[1]
  <2>1. Before(r[m].at[1], r[m].at[2], r[n].at[1], r[n].at[2])
    BY <1>4, <1>8
  <2>2. PICK i \in 1..Len(L), j \in 1..Len(L) : r[m] = Decode(L, i, 1) /\ r[n] = Decode(L, j, 1)
    BY <1>7
  <2>3. r[m].at = <<i, 1>> /\ r[n].at = <<j, 1>>
    BY <2>2 DEF Decode
  <2>4. r[m].at[1] = i /\ r[m].at[2] = 1 /\ r[n].at[1] = j /\ r[n].at[2] = 1
    BY <2>3
  <2> QED
    BY <2>1, <2>4 DEF Before
<1>9. ASSUME NEW i \in 1..Len(L), L[i].slot \in first..last
      PROVE  \E n \in 1..Len(r) : r[n] = Decode(L, i, 1)
  <2>1. L[i].ok = TRUE /\ Len(L[i].events) = 1 /\ L[i].events[1].name \in names
    BY <1>5
  <2>2. 1 \in 1..Len(L[i].events)
    BY <2>1
  <2>3. Wanted(L, i, 1, first, last, names)
    BY <1>9, <2>1, <2>2 DEF Wanted
  <2> QED
    BY <1>4, <2>3 DEF Exact
<1> QED
  BY <1>3, <1>7, <1>8, <1>9 DEF Batched, L, first, last

LEMMA CoversRest ==
  ASSUME NEW q, Covers(q), ledger' = ledger, written' = written,
         \A x \in {cursor', saved'} \union late' : Within(ledger, x, q),
         Batched(ledger, events', cursor', to', q)
  PROVE  Covers(q)'
<1>1. PICK L : L = ledger
  OBVIOUS
<1>2. /\ q # 0 => L[q].slot <= written'
      /\ \A x \in {cursor', saved'} \union late' : Within(L, x, q)
      /\ Batched(L, events', cursor', to', q)
  BY <1>1 DEF Covers
<1> QED
  BY <1>1, <1>2 DEF Covers

LEMMA CoversReads ==
  ASSUME IndexerTyped, InOrder, start = 0, Lawful(ledger, contract, Deployed(contract)),
         NEW q \in 0..Len(ledger), Covers(q),
         RestoreCursor \/ FetchBatch \/ CommitBatch \/ LoseStep \/ Crash \/ LateSave
  PROVE  Covers(q)' /\ UNCHANGED chainVars /\ db' = db
<1>1. /\ cursor \in Nat /\ to \in Nat /\ saved \in {NotSaved} \union Nat
      /\ late \subseteq Nat
      /\ to = 0 => events = <<>>
      /\ events = <<>> => work = <<>>
  <2>1. /\ final \in Nat /\ cursor \in 0..final /\ to \in 0..final
        /\ saved \in {NotSaved} \union 0..final /\ late \subseteq 1..final
    BY DEF IndexerTyped, ChainTyped, ProcessTyped
  <2> QED
    BY <2>1 DEF IndexerTyped, ProcessTyped
<1>2. /\ \A i \in 1..Len(ledger) : ledger[i].slot \in Nat
      /\ \A i \in 1..Len(ledger) : ledger[i].slot \in 1..head
      /\ q \in Nat
  BY SMTT(30) DEF IndexerTyped, ChainTyped, Readable
<1>3. Within(ledger, 0, q)
  BY <1>2, WithinNone
<1>4. /\ \A x \in {cursor, saved} \union late : Within(ledger, x, q)
      /\ Batched(ledger, events, cursor, to, q)
  BY DEF Covers
<1>5. ASSUME events = <<>> PROVE Within(ledger, to, q)
  BY <1>1, <1>2, <1>4, <1>5, WithinDone
<1>6. ASSUME NEW x \in Nat, Within(ledger, x, q)
      PROVE  Within(ledger, SaveCursor(x), q)
  BY <1>4, <1>6 DEF SaveCursor
<1>7. ASSUME NEW c \in Nat PROVE Batched(ledger, <<>>, c, 0, q)
  BY <1>2, NoneBatched
<1>8. CASE RestoreCursor
  <2>1. /\ UNCHANGED chainVars /\ db' = db /\ late' = late /\ written' = written
        /\ to' = 0 /\ events' = <<>>
    <3>1. to = 0
      BY <1>8 DEF RestoreCursor, IndexerTyped, ProcessTyped
    <3> QED
      BY <1>1, <1>8, <3>1 DEF RestoreCursor
  <2>2. cursor' \in Nat /\ Within(ledger, cursor', q) /\ Within(ledger, saved', q)
    <3>1. CASE saved = NotSaved
      <4>1. cursor' = 0 /\ saved' = SaveCursor(0)
        BY <1>8, <3>1 DEF RestoreCursor
      <4> QED
        BY <1>3, <1>6, <4>1
    <3>2. CASE saved # NotSaved
      <4>1. cursor' = saved /\ saved' = saved
        BY <1>8, <3>2 DEF RestoreCursor
      <4> QED
        BY <1>1, <1>4, <3>2, <4>1
    <3> QED
      BY <3>1, <3>2
  <2>3. Batched(ledger, events', cursor', to', q)
    BY <1>7, <2>1, <2>2
  <2> QED
    BY <1>4, <2>1, <2>2, <2>3, CoversRest DEF chainVars
<1>9. CASE FetchBatch
  <2>1. /\ UNCHANGED chainVars /\ db' = db /\ cursor' = cursor /\ saved' = saved /\ late' = late
        /\ written' = written
    BY <1>9 DEF FetchBatch
  <2>2. Batched(ledger, events', cursor', to', q)
    BY <1>9, FetchBatched
  <2> QED
    BY <1>4, <2>1, <2>2, CoversRest DEF chainVars
<1>10. CASE CommitBatch
  <2>1. /\ UNCHANGED chainVars /\ db' = db /\ cursor' = to /\ saved' = SaveCursor(to)
        /\ to' = 0 /\ events' = <<>> /\ events = <<>> /\ late' = late /\ written' = written
    BY <1>1, <1>10 DEF CommitBatch
  <2>2. Within(ledger, cursor', q) /\ Within(ledger, saved', q)
    BY <1>1, <1>5, <1>6, <2>1
  <2>3. Batched(ledger, events', cursor', to', q)
    BY <1>1, <1>7, <2>1
  <2> QED
    BY <1>4, <2>1, <2>2, <2>3, CoversRest DEF chainVars
<1>11. CASE LoseStep
  <2>1. /\ UNCHANGED chainVars /\ db' = db /\ cursor' = cursor /\ saved' = saved /\ late' = late
        /\ to' = 0 /\ events' = <<>> /\ written' = written
    BY <1>11 DEF LoseStep, StepFails
  <2>2. Batched(ledger, events', cursor', to', q)
    BY <1>1, <1>7, <2>1
  <2> QED
    BY <1>4, <2>1, <2>2, CoversRest DEF chainVars
<1>12. CASE Crash
  <2>1. /\ UNCHANGED chainVars /\ db' = db /\ cursor' = 0 /\ saved' = saved /\ written' = written
        /\ to' = 0 /\ events' = <<>>
        /\ (late' = late \/ (events = <<>> /\ late' = late \union {to}))
    BY <1>12 DEF Crash, StepFails
  <2>2. \A x \in late' : Within(ledger, x, q)
    BY <1>4, <1>5, <2>1
  <2>3. Batched(ledger, events', cursor', to', q)
    BY <1>7, <2>1
  <2> QED
    BY <1>3, <1>4, <2>1, <2>2, <2>3, CoversRest DEF chainVars
<1>13. CASE LateSave
  <2>1. PICK x \in late : saved' = SaveCursor(x) /\ late' = late
    BY <1>13 DEF LateSave
  <2>2. /\ UNCHANGED chainVars /\ db' = db /\ cursor' = cursor /\ to' = to /\ events' = events
        /\ written' = written
    BY <1>13 DEF LateSave, processVars
  <2>3. Within(ledger, saved', q) /\ \A y \in late' : Within(ledger, y, q)
    BY <1>1, <1>4, <1>6, <2>1
  <2> QED
    BY <1>4, <2>2, <2>3, CoversRest DEF chainVars
<1> QED
  BY <1>8, <1>9, <1>10, <1>11, <1>12, <1>13

LEMMA CoversChain ==
  ASSUME IndexerTyped, IndexerTyped', NEW q \in 0..Len(ledger), Covers(q),
         Idle, ChainNext, UNCHANGED mirrorVars, NEW base
  PROVE  /\ Covers(q)' /\ q \in 0..Len(ledger') /\ Post(ledger', base, q) = Post(ledger, base, q)
         /\ \A i \in 1..q : ledger'[i] = ledger[i]
<1>1. ChainTyped /\ ChainTyped' /\ final \in Nat
  BY DEF IndexerTyped, ChainTyped
<1>2. /\ cursor' = cursor /\ saved' = saved /\ late' = late /\ to' = to /\ events' = events
      /\ written' = written /\ to = 0 /\ events = <<>>
  BY DEF mirrorVars, processVars, Idle, IndexerTyped, ProcessTyped
<1>3. PICK L, M : L = ledger /\ M = ledger'
  OBVIOUS
<1>4. Len(L) \in Nat /\ \A i \in 1..Len(L) : L[i].slot \in Nat
  BY <1>1, <1>3, LengthIsNat DEF ChainTyped, Readable
<1>5. Len(M) \in Nat /\ \A i \in 1..Len(M) : M[i].slot \in Nat
  <2>1. Readable(M)
    BY <1>1, <1>3 DEF ChainTyped
  <2> QED
    BY <2>1, LengthIsNat DEF Readable
<1>6. Grows(L, M, final)
  BY <1>1, <1>3, FinalBlocksStay
<1>7. /\ cursor \in Int /\ cursor <= final /\ saved \in Int /\ saved <= final
      /\ written \in Nat /\ written <= final /\ late \subseteq 1..final
  <2>1. /\ cursor \in 0..final /\ saved \in {NotSaved} \union 0..final /\ written \in 0..final
        /\ late \subseteq 1..final
    BY DEF IndexerTyped, ProcessTyped
  <2> QED
    BY <1>1, <2>1 DEF NotSaved
<1>8. /\ q # 0 => L[q].slot <= written
      /\ \A x \in {cursor, saved} \union late : Within(L, x, q)
  BY <1>3 DEF Covers
<1>9. q \in 0..Len(L) /\ (q # 0 => L[q].slot <= final)
  <2>1. q \in 0..Len(L)
    BY <1>3
  <2>2. ASSUME q # 0 PROVE L[q].slot <= final
    <3>1. q \in 1..Len(L)
      BY <1>4, <2>1, <2>2
    <3> QED
      BY <1>1, <1>4, <1>7, <1>8, <2>2, <3>1
  <2> QED
    BY <2>1, <2>2
<1>10. /\ q \in 0..Len(M) /\ \A i \in 1..q : M[i] = L[i]
       /\ \A x \in Int : x <= final /\ Within(L, x, q) => Within(M, x, q)
  BY <1>1, <1>4, <1>5, <1>6, <1>9, WithinNext
<1>11. Post(M, base, q) = Post(L, base, q) /\ (q # 0 => M[q].slot = L[q].slot)
  <2>1. q # 0 => q \in 1..q
    BY <1>4, <1>9
  <2> QED
    BY <1>10, <2>1 DEF Post
<1>12. \A x \in {cursor, saved} \union late : Within(M, x, q)
  BY <1>1, <1>7, <1>8, <1>10
<1>13. Batched(M, events, cursor, to, q)
  <2>1. cursor \in Nat
    BY DEF IndexerTyped, ProcessTyped, ChainTyped
  <2> QED
    BY <1>2, <1>5, <2>1, NoneBatched
<1>14. Covers(q)'
  BY <1>2, <1>3, <1>8, <1>11, <1>12, <1>13 DEF Covers
<1> QED
  BY <1>3, <1>10, <1>11, <1>14

---------------------------------------------------------------------------
(* A governor's tables, and the storage they show. *)

GovernorShows(d, s) ==
  /\ DOMAIN d.proposals = {p \in DOMAIN s.state : s.state[p] # "none"}
  /\ \A p \in DOMAIN d.proposals : d.proposals[p].state = s.state[p]
  /\ DOMAIN d.votes = DOMAIN s.cast
  /\ \A v \in DOMAIN d.votes :
       d.votes[v] = [support |-> s.cast[v], weight |-> Weight[v[2]], at |-> d.votes[v].at]

(* The votes stored are those among the first q transactions. *)
VotesFrom(d, L, q) ==
  /\ \A v \in DOMAIN d.votes : \E i \in 1..q : d.votes[v].at = <<i, 1>>
  /\ \A i \in 1..q : IsVote(L, i) => Stored(d, i)

(* Tables that differ in nothing a governor's storage decides. *)
SameShown(d, e) ==
  /\ e.votes = d.votes
  /\ DOMAIN e.proposals = DOMAIN d.proposals
  /\ \A p \in DOMAIN d.proposals : e.proposals[p].state = d.proposals[p].state

LEMMA SameShows ==
  ASSUME NEW d, NEW e, SameShown(d, e), NEW s, GovernorShows(d, s), NEW L, NEW q, VotesFrom(d, L, q)
  PROVE  GovernorShows(e, s) /\ VotesFrom(e, L, q)
BY DEF SameShown, GovernorShows, VotesFrom, Stored

LEMMA ParentsShow ==
  ASSUME NEW d, TablesAre(d), NEW v, NEW e, e = [d EXCEPT !["parents"] = v]
  PROVE  SameShown(d, e)
<1>1. DOMAIN d = Columns
  BY DEF TablesAre
<1>2. e.votes = d.votes /\ e.proposals = d.proposals
  BY <1>1 DEF Columns
<1> QED
  BY <1>2 DEF SameShown

(* A tally changes no state. *)
LEMMA RetallyShows ==
  ASSUME NEW d, TablesAre(d), NEW p,
         \A k \in DOMAIN d.proposals : {"for", "against", "state"} \subseteq DOMAIN d.proposals[k],
         NEW e, e = RetallyProposal(d, p)
  PROVE  SameShown(d, e)
<1>1. CASE p \notin DOMAIN d.proposals
  BY <1>1 DEF RetallyProposal, SameShown
<1>2. CASE p \in DOMAIN d.proposals
  <2>1. DOMAIN d = Columns
    BY DEF TablesAre
  <2>2. PICK x, y : x = VotesOf(d, p, "for") /\ y = VotesOf(d, p, "against")
    OBVIOUS
  <2>3. e = [d EXCEPT !.proposals[p].for = x, !.proposals[p].against = y]
    BY <1>2, <2>2 DEF RetallyProposal
  <2> DEFINE m == [d EXCEPT !.proposals[p].for = x]
  <2>4. e = [m EXCEPT !.proposals[p].against = y]
    BY <2>3
  <2>5. /\ DOMAIN m = Columns /\ m.votes = d.votes
        /\ m.proposals = [d.proposals EXCEPT ![p].for = x]
    BY <2>1 DEF Columns
  <2> HIDE DEF m
  <2>6. e.votes = m.votes /\ e.proposals = [m.proposals EXCEPT ![p].against = y]
    BY <2>4, <2>5 DEF Columns
  <2>7. /\ DOMAIN m.proposals = DOMAIN d.proposals /\ DOMAIN e.proposals = DOMAIN m.proposals
        /\ m.proposals[p] = [d.proposals[p] EXCEPT !.for = x]
        /\ e.proposals[p] = [m.proposals[p] EXCEPT !.against = y]
        /\ \A k \in DOMAIN d.proposals : k # p => e.proposals[k] = d.proposals[k]
    BY <1>2, <2>5, <2>6
  <2>8. e.proposals[p].state = d.proposals[p].state
    BY <1>2, <2>7
  <2> QED
    BY <2>5, <2>6, <2>7, <2>8 DEF SameShown
<1> QED
  BY <1>1, <1>2

LEMMA TalliedRows ==
  ASSUME NEW d, Tallied(d)
  PROVE  \A k \in DOMAIN d.proposals : {"for", "against", "state"} \subseteq DOMAIN d.proposals[k]
<1> SUFFICES ASSUME NEW k \in DOMAIN d.proposals
             PROVE  {"for", "against", "state"} \subseteq DOMAIN d.proposals[k]
  OBVIOUS
<1>1. PICK x, y, z : d.proposals[k] = [state |-> x, for |-> y, against |-> z]
  BY DEF Tallied
<1> QED
  BY <1>1

(* An event of the first q, again: nothing changes. *)
LEMMA ReplayShows ==
  ASSUME NEW L, NothingGoesBack(L), NEW base, NEW q \in 1..Len(L), NEW i \in 1..q,
         NEW d, TablesAre(d), Tallied(d), GovernorShows(d, L[q].post), VotesFrom(d, L, q),
         NEW row, row.id = About(L, i), row.at = <<i, 1>>,
         NEW op \in GovernorOps(L[i].events[1]), NEW e, e = GovernanceStore(d, op, row)
  PROVE  SameShown(d, e)
<1> DEFINE s == L[q].post
           p == About(L, i)
           name == Does(L, i)
<1>1. p \in DOMAIN s.state /\ Onward(Enters(name), s.state[p])
  <2>1. i \in 1..Len(L) /\ i <= q
    OBVIOUS
  <2> QED
    BY <2>1 DEF NothingGoesBack
<1>2. op \in {"UpsertAsset", "UpsertGovernor"} => SameShown(d, e)
  BY ParentsShow DEF GovernanceStore, UpsertAsset, UpsertGovernor
<1>3. SameShown(d, d)
  BY DEF SameShown
<1> HIDE DEF s, p, name
<1>4. ASSUME name = "ProposalCreated", op = "InsertGovernanceProposal" PROVE SameShown(d, e)
  <2>1. s.state[p] # "none"
    BY <1>1, <1>4 DEF Enters, Onward
  <2>2. row.id \in DOMAIN d.proposals
    BY <1>1, <2>1 DEF GovernorShows, s, p
  <2>3. e = [d EXCEPT !["proposals"] =
               InsertNew(d.proposals, row.id, [state |-> "pending", for |-> 0, against |-> 0])]
    BY <1>4 DEF GovernanceStore, InsertGovernanceProposal
  <2>4. DOMAIN d = Columns
    BY DEF TablesAre
  <2>5. e.votes = d.votes /\ e.proposals =
          InsertNew(d.proposals, row.id, [state |-> "pending", for |-> 0, against |-> 0])
    BY <2>3, <2>4 DEF Columns
  <2> QED
    BY <2>2, <2>5 DEF InsertNew, SameShown
<1>5. ASSUME name = "VoteCast", op = "InsertGovernanceVote" PROVE SameShown(d, e)
  <2>1. Stored(d, i)
    BY <1>5 DEF VotesFrom, IsVote, name
  <2>2. From(d.votes, row) # {}
    BY <2>1 DEF Stored, From
  <2>3. e = RetallyProposal(d, row.id)
    BY <1>5, <2>2 DEF GovernanceStore, InsertGovernanceVote, InsertVote
  <2> QED
    BY <2>3, TalliedRows, RetallyShows
<1>6. ASSUME NEW state, state = StateOf(name), e = MarkProposal(d, row, state),
             name \in GovernanceFilters \ {"ProposalCreated", "VoteCast"}
      PROVE  SameShown(d, e)
  <2>1. Onward(state, s.state[p])
    BY <1>1, <1>6 DEF Enters
  <2>2. state \in {"queued", "executed", "dispatched", "cancelled"}
    BY <1>6 DEF StateOf
  <2>3. s.state[p] \notin MayLeave(state)
    BY <2>1, <2>2 DEF Onward, MayLeave
  <2>4. p \in DOMAIN d.proposals => d.proposals[p].state = s.state[p]
    BY DEF GovernorShows, s
  <2>5. e = d
    BY <1>6, <2>3, <2>4 DEF MarkProposal, p
  <2> QED
    BY <1>3, <2>5
<1>7. L[i].events[1].name = name
  BY DEF name, Does
<1>8. CASE name = "ProposalCreated"
  <2>1. op \in {"UpsertAsset", "UpsertGovernor", "InsertGovernanceProposal"}
    BY <1>7, <1>8 DEF GovernorOps
  <2> QED
    BY <1>2, <1>4, <1>8, <2>1
<1>9. CASE name = "VoteCast"
  <2>1. op = "InsertGovernanceVote"
    BY <1>7, <1>9 DEF GovernorOps
  <2> QED
    BY <1>5, <1>9, <2>1
<1>10. CASE name = "ProposalQueued"
  <2>1. op = "MarkProposalQueued" /\ StateOf(name) = "queued" /\ name \in GovernanceFilters
    BY <1>7, <1>10 DEF GovernorOps, StateOf, GovernanceFilters
  <2> QED
    BY <1>6, <1>10, <2>1 DEF GovernanceStore
<1>11. CASE name = "ProposalDispatched"
  <2>1. op = "MarkProposalDispatched" /\ StateOf(name) = "dispatched" /\ name \in GovernanceFilters
    BY <1>7, <1>11 DEF GovernorOps, StateOf, GovernanceFilters
  <2> QED
    BY <1>6, <1>11, <2>1 DEF GovernanceStore
<1>12. CASE name = "ProposalExecuted"
  <2>1. op = "MarkProposalExecuted" /\ StateOf(name) = "executed" /\ name \in GovernanceFilters
    BY <1>7, <1>12 DEF GovernorOps, StateOf, GovernanceFilters
  <2> QED
    BY <1>6, <1>12, <2>1 DEF GovernanceStore
<1>13. CASE name = "ProposalCancelled"
  <2>1. op = "MarkProposalCancelled" /\ StateOf(name) = "cancelled" /\ name \in GovernanceFilters
    BY <1>7, <1>13 DEF GovernorOps, StateOf, GovernanceFilters
  <2> QED
    BY <1>6, <1>13, <2>1 DEF GovernanceStore
<1> QED
  BY <1>7, <1>8, <1>9, <1>10, <1>11, <1>12, <1>13 DEF GovernorOps

(* The next event: the tables show the storage after it. *)
AdvanceOf(name) ==
  CASE name = "ProposalCreated" -> "InsertGovernanceProposal"
    [] name = "VoteCast" -> "InsertGovernanceVote"
    [] name = "ProposalQueued" -> "MarkProposalQueued"
    [] name = "ProposalDispatched" -> "MarkProposalDispatched"
    [] name = "ProposalExecuted" -> "MarkProposalExecuted"
    [] name = "ProposalCancelled" -> "MarkProposalCancelled"

LEMMA CreatedShows ==
  ASSUME NEW x, NEW s, NEW t, GovernorMoves(x, s, t), x.name = "ProposalCreated",
         NEW d, TablesAre(d), GovernorShows(d, s), NEW row, row.id = x.id,
         NEW e, e = InsertGovernanceProposal(d, row)
  PROVE  GovernorShows(e, t) /\ e.votes = d.votes
<1> DEFINE new == [state |-> "pending", for |-> 0, against |-> 0]
<1>1. /\ x.id \in DOMAIN s.state /\ s.state[x.id] = "none" /\ DOMAIN t.state = DOMAIN s.state
      /\ t.state[x.id] = "pending" /\ t.cast = s.cast
      /\ \A p \in DOMAIN s.state : p # x.id => t.state[p] = s.state[p]
  BY DEF GovernorMoves, Leaves, Enters
<1>2. DOMAIN d = Columns
  BY DEF TablesAre
<1>3. e.votes = d.votes /\ e.proposals = InsertNew(d.proposals, x.id, new)
  BY <1>2 DEF InsertGovernanceProposal, Columns
<1>4. new.state = "pending"
  OBVIOUS
<1> HIDE DEF new
<1>5. /\ DOMAIN d.proposals = {p \in DOMAIN s.state : s.state[p] # "none"}
      /\ \A p \in DOMAIN d.proposals : d.proposals[p].state = s.state[p]
  BY DEF GovernorShows
<1>6. /\ DOMAIN e.proposals = DOMAIN d.proposals \union {x.id} /\ x.id \notin DOMAIN d.proposals
      /\ e.proposals[x.id] = new /\ \A p \in DOMAIN d.proposals : e.proposals[p] = d.proposals[p]
  BY <1>1, <1>3, <1>5 DEF InsertNew
<1>7. DOMAIN e.proposals = {p \in DOMAIN t.state : t.state[p] # "none"}
  BY <1>1, <1>5, <1>6
<1>8. \A p \in DOMAIN e.proposals : e.proposals[p].state = t.state[p]
  BY <1>1, <1>4, <1>5, <1>6
<1> QED
  BY <1>1, <1>3, <1>7, <1>8 DEF GovernorShows

LEMMA MarkedShows ==
  ASSUME NEW x, NEW s, NEW t, GovernorMoves(x, s, t), NEW z, z = StateOf(x.name),
         x.name \in GovernanceFilters \ {"ProposalCreated", "VoteCast"},
         NEW d, TablesAre(d), Tallied(d), GovernorShows(d, s), NEW row, row.id = x.id,
         NEW e, e = MarkProposal(d, row, z)
  PROVE  GovernorShows(e, t) /\ e.votes = d.votes
<1>1. /\ x.id \in DOMAIN s.state /\ s.state[x.id] \in Leaves(x.name)
      /\ DOMAIN t.state = DOMAIN s.state
      /\ t.state[x.id] = Enters(x.name) /\ t.cast = s.cast
      /\ \A p \in DOMAIN s.state : p # x.id => t.state[p] = s.state[p]
  BY DEF GovernorMoves
<1>2. /\ t.state[x.id] = z /\ z # "none" /\ s.state[x.id] # "none"
      /\ s.state[x.id] \in MayLeave(z)
  BY <1>1 DEF Leaves, Enters, StateOf, MayLeave, GovernanceFilters
<1>3. DOMAIN d = Columns
  BY DEF TablesAre
<1>4. /\ DOMAIN d.proposals = {p \in DOMAIN s.state : s.state[p] # "none"}
      /\ \A p \in DOMAIN d.proposals : d.proposals[p].state = s.state[p]
  BY DEF GovernorShows
<1>5. x.id \in DOMAIN d.proposals /\ d.proposals[x.id].state \in MayLeave(z)
  BY <1>1, <1>2, <1>4
<1>6. e = [d EXCEPT !.proposals[x.id].state = z]
  BY <1>5 DEF MarkProposal
<1>7. e.votes = d.votes /\ e.proposals = [d.proposals EXCEPT ![x.id].state = z]
  BY <1>3, <1>6 DEF Columns
<1>8. "state" \in DOMAIN d.proposals[x.id]
  BY <1>5, TalliedRows
<1>9. /\ DOMAIN e.proposals = DOMAIN d.proposals
      /\ e.proposals[x.id] = [d.proposals[x.id] EXCEPT !.state = z]
      /\ \A p \in DOMAIN d.proposals : p # x.id => e.proposals[p] = d.proposals[p]
  BY <1>5, <1>7
<1>10. e.proposals[x.id].state = z
  BY <1>8, <1>9
<1>11. DOMAIN e.proposals = {p \in DOMAIN t.state : t.state[p] # "none"}
  BY <1>1, <1>2, <1>4, <1>9
<1>12. \A p \in DOMAIN e.proposals : e.proposals[p].state = t.state[p]
  BY <1>1, <1>2, <1>4, <1>9, <1>10
<1> QED
  BY <1>1, <1>7, <1>11, <1>12 DEF GovernorShows

LEMMA VotedShows ==
  ASSUME NEW x, NEW s, NEW t, GovernorMoves(x, s, t), x.name = "VoteCast",
         NEW d, TablesAre(d), Tallied(d), GovernorShows(d, s),
         NEW row, row.id = x.id, row.who = x.who, row.support = x.support, row.weight = x.weight,
         From(d.votes, row) = {}, NEW e, e = InsertGovernanceVote(d, row)
  PROVE  /\ GovernorShows(e, t)
         /\ e.votes = InsertNew(d.votes, <<x.id, x.who>>,
                                [support |-> x.support, weight |-> x.weight, at |-> row.at])
         /\ <<x.id, x.who>> \notin DOMAIN d.votes
<1> DEFINE key == <<x.id, x.who>>
           new == [support |-> x.support, weight |-> x.weight, at |-> row.at]
           m == [d EXCEPT !["votes"] = InsertNew(d.votes, key, new)]
<1>1. /\ x.id \in DOMAIN s.state /\ s.state[x.id] = "pending" /\ DOMAIN t.state = DOMAIN s.state
      /\ t.state[x.id] = "pending"
      /\ \A p \in DOMAIN s.state : p # x.id => t.state[p] = s.state[p]
      /\ key \notin DOMAIN s.cast /\ t.cast = With(s.cast, key, x.support)
      /\ x.weight = Weight[x.who]
  BY DEF GovernorMoves, Leaves, Enters
<1>2. DOMAIN d = Columns
  BY DEF TablesAre
<1>3. InsertVote(d, row) = m
  BY DEF InsertVote
<1>4. e = RetallyProposal(m, x.id)
  BY <1>3 DEF InsertGovernanceVote
<1>5. key[2] = x.who
  OBVIOUS
<1>6. /\ new.support = x.support /\ new.at = row.at
      /\ new = [support |-> x.support, weight |-> x.weight, at |-> new.at]
  OBVIOUS
<1>7. m.votes = InsertNew(d.votes, key, new) /\ m.proposals = d.proposals /\ DOMAIN m = Columns
      /\ m.intervals = d.intervals
  BY <1>2 DEF Columns
<1>8. TablesAre(m)
  BY <1>7 DEF TablesAre
<1> HIDE DEF m, new, key
<1>9. SameShown(m, e)
  <2>1. \A k \in DOMAIN m.proposals : {"for", "against", "state"} \subseteq DOMAIN m.proposals[k]
    BY <1>7, TalliedRows
  <2> QED
    BY <1>4, <1>8, <2>1, RetallyShows
<1>10. /\ DOMAIN d.proposals = {p \in DOMAIN s.state : s.state[p] # "none"}
       /\ \A p \in DOMAIN d.proposals : d.proposals[p].state = s.state[p]
       /\ DOMAIN d.votes = DOMAIN s.cast
       /\ \A v \in DOMAIN d.votes :
            d.votes[v] = [support |-> s.cast[v], weight |-> Weight[v[2]], at |-> d.votes[v].at]
  BY DEF GovernorShows
<1>11. /\ e.votes = InsertNew(d.votes, key, new) /\ DOMAIN e.proposals = DOMAIN d.proposals
       /\ \A p \in DOMAIN d.proposals : e.proposals[p].state = d.proposals[p].state
  BY <1>7, <1>9 DEF SameShown
<1>12. /\ key \notin DOMAIN d.votes /\ DOMAIN e.votes = DOMAIN d.votes \union {key}
       /\ e.votes[key] = new /\ \A v \in DOMAIN d.votes : e.votes[v] = d.votes[v]
  BY <1>1, <1>10, <1>11 DEF InsertNew
<1>13. /\ DOMAIN t.cast = DOMAIN s.cast \union {key} /\ t.cast[key] = x.support
       /\ \A v \in DOMAIN s.cast : t.cast[v] = s.cast[v]
  BY <1>1 DEF With
<1>14. DOMAIN e.proposals = {p \in DOMAIN t.state : t.state[p] # "none"}
  BY <1>1, <1>10, <1>11
<1>15. \A p \in DOMAIN e.proposals : e.proposals[p].state = t.state[p]
  BY <1>1, <1>10, <1>11
<1>16. ASSUME NEW v \in DOMAIN e.votes
       PROVE  e.votes[v] = [support |-> t.cast[v], weight |-> Weight[v[2]], at |-> e.votes[v].at]
  <2>1. CASE v = key
    BY <1>1, <1>5, <1>6, <1>12, <1>13, <2>1
  <2>2. CASE v # key
    <3>1. v \in DOMAIN d.votes /\ v \in DOMAIN s.cast
      BY <1>10, <1>12, <2>2
    <3>2. e.votes[v] = d.votes[v] /\ t.cast[v] = s.cast[v]
      BY <1>12, <1>13, <3>1
    <3> QED
      BY <1>10, <3>1, <3>2
  <2> QED
    BY <2>1, <2>2
<1>17. DOMAIN e.votes = DOMAIN t.cast
  BY <1>10, <1>12, <1>13
<1> QED
  BY <1>11, <1>12, <1>14, <1>15, <1>16, <1>17 DEF GovernorShows, key, new

---------------------------------------------------------------------------
(* One statement of a governor's event: the tables show the storage after  *)
(* the same number of transactions as before, or after one more.           *)

(* What the row of an event says. *)
RowOf(row, x, i) ==
  /\ row.at = <<i, 1>> /\ row.id = x.id
  /\ \A c \in {"who", "support", "weight", "shares"} \cap DOMAIN x : row[c] = x[c]

LEMMA EventRowOf ==
  ASSUME NEW L, NEW i, "id" \in DOMAIN L[i].events[1]
  PROVE  RowOf(EventRow(Decode(L, i, 1)), L[i].events[1], i)
<1>1. PICK x, at, e : x = L[i].events[1] /\ at = <<i, 1>> /\ e = Decode(L, i, 1)
  OBVIOUS
<1>2. e.ev = x /\ e.at = at
  BY <1>1 DEF Decode
<1>3. PICK row : row = EventRow(e)
  OBVIOUS
<1>4. row = [c \in {"at"} \union DOMAIN x |-> IF c = "at" THEN at ELSE x[c]]
  BY <1>2, <1>3 DEF EventRow
<1>5. row.at = at /\ \A c \in DOMAIN x : c # "at" => row[c] = x[c]
  BY ONLY <1>4
<1>6. row.id = x.id
  BY <1>1, <1>5
<1>7. \A c \in {"who", "support", "weight", "shares"} \cap DOMAIN x : row[c] = x[c]
  BY <1>5
<1> QED
  BY <1>1, <1>3, <1>5, <1>6, <1>7 DEF RowOf

LEMMA VotesFromMore ==
  ASSUME NEW d, NEW e, e.votes = d.votes, NEW L, NEW q \in Nat, VotesFrom(d, L, q),
         ~ IsVote(L, q + 1)
  PROVE  VotesFrom(e, L, q + 1)
<1>1. \A v \in DOMAIN e.votes : \E i \in 1..(q + 1) : e.votes[v].at = <<i, 1>>
  <2> SUFFICES ASSUME NEW v \in DOMAIN e.votes
               PROVE  \E i \in 1..(q + 1) : e.votes[v].at = <<i, 1>>
    OBVIOUS
  <2>1. PICK i \in 1..q : d.votes[v].at = <<i, 1>>
    BY DEF VotesFrom
  <2> QED
    BY <2>1
<1>2. ASSUME NEW i \in 1..(q + 1), IsVote(L, i) PROVE Stored(e, i)
  <2>1. i \in 1..q
    BY <1>2
  <2> QED
    BY <1>2, <2>1 DEF VotesFrom, Stored
<1> QED
  BY <1>1, <1>2 DEF VotesFrom

LEMMA VotesFromNext ==
  ASSUME NEW d, NEW e, NEW key, key \notin DOMAIN d.votes, NEW new,
         e.votes = InsertNew(d.votes, key, new), NEW L, NEW q \in Nat, VotesFrom(d, L, q),
         new.at = <<q + 1, 1>>
  PROVE  VotesFrom(e, L, q + 1)
<1>1. /\ DOMAIN e.votes = DOMAIN d.votes \union {key}
      /\ e.votes[key] = new /\ \A v \in DOMAIN d.votes : e.votes[v] = d.votes[v]
  BY DEF InsertNew
<1>2. \A v \in DOMAIN e.votes : \E i \in 1..(q + 1) : e.votes[v].at = <<i, 1>>
  <2> SUFFICES ASSUME NEW v \in DOMAIN e.votes
               PROVE  \E i \in 1..(q + 1) : e.votes[v].at = <<i, 1>>
    OBVIOUS
  <2>1. CASE v = key
    BY <1>1, <2>1
  <2>2. CASE v # key
    <3>1. PICK i \in 1..q : d.votes[v].at = <<i, 1>>
      BY <1>1, <2>2 DEF VotesFrom
    <3> QED
      BY <1>1, <2>2, <3>1
  <2> QED
    BY <2>1, <2>2
<1>3. Stored(e, q + 1)
  BY <1>1 DEF Stored
<1>4. ASSUME NEW i \in 1..(q + 1), IsVote(L, i) PROVE Stored(e, i)
  <2>1. CASE i \in 1..q
    <3>1. PICK v \in DOMAIN d.votes : d.votes[v].at = <<i, 1>>
      BY <1>4, <2>1 DEF VotesFrom, Stored
    <3> QED
      BY <1>1, <3>1 DEF Stored
  <2>2. CASE i = q + 1
    BY <1>3, <2>2
  <2> QED
    BY <2>1, <2>2
<1> QED
  BY <1>2, <1>4 DEF VotesFrom

LEMMA GovernorShown ==
  ASSUME NEW L, Len(L) \in Nat, NEW base, Lawful(L, "governor", base), NothingGoesBack(L),
         NEW q \in 0..Len(L), NEW d, TablesAre(d), Tallied(d),
         GovernorShows(d, Post(L, base, q)), VotesFrom(d, L, q),
         NEW i \in 1..Len(L), i <= q + 1, NEW row, RowOf(row, L[i].events[1], i),
         NEW op \in GovernorOps(L[i].events[1]), NEW e, e = GovernanceStore(d, op, row)
  PROVE  \E r \in {q, q + 1} \cap 0..Len(L) :
           /\ r = q + 1 => i = r
           /\ i <= r \/ op # AdvanceOf(Does(L, i))
           /\ GovernorShows(e, Post(L, base, r)) /\ VotesFrom(e, L, r)
<1>1. row.at = <<i, 1>> /\ row.id = About(L, i)
  BY DEF RowOf, About
<1>2. CASE i <= q
  <2>1. q \in 1..Len(L) /\ i \in 1..q /\ q # 0
    BY <1>2
  <2>2. GovernorShows(d, L[q].post)
    BY <2>1 DEF Post
  <2>3. SameShown(d, e)
    BY <1>1, <2>1, <2>2, ReplayShows
  <2>4. GovernorShows(e, Post(L, base, q)) /\ VotesFrom(e, L, q)
    BY <2>3, SameShows
  <2>5. q \in {q, q + 1} \cap 0..Len(L) /\ ~ (q = q + 1)
    OBVIOUS
  <2> QED
    BY <1>2, <2>4, <2>5
<1>3. CASE i = q + 1
  <2> DEFINE x == L[i].events[1]
             s == Post(L, base, q)
             t == L[i].post
  <2>1. GovernorMoves(x, s, t)
    <3>1. i - 1 = q
      BY <1>3
    <3>2. Moves("governor", L[i].events[1], Post(L, base, i - 1), L[i].post)
      BY DEF Lawful
    <3> QED
      BY <3>1, <3>2 DEF Moves
  <2>2. Post(L, base, i) = t /\ x.name = Does(L, i) /\ x.id = About(L, i)
    BY DEF Post, Does, About
  <2>3. /\ q \in Nat /\ i \in {q, q + 1} \cap 0..Len(L)
        /\ q \in {q, q + 1} \cap 0..Len(L) /\ ~ (q = q + 1)
    BY <1>3
  <2>4. GovernorShows(d, s)
    OBVIOUS
  <2>5. RowOf(row, x, i) /\ op \in GovernorOps(x)
    OBVIOUS
  <2>6. e = GovernanceStore(d, op, row)
    OBVIOUS
  <2> HIDE DEF x, s, t
  <2>7. ASSUME GovernorShows(e, t), VotesFrom(e, L, q + 1)
        PROVE  \E r \in {q, q + 1} \cap 0..Len(L) :
                 /\ r = q + 1 => i = r
                 /\ i <= r \/ op # AdvanceOf(Does(L, i))
                 /\ GovernorShows(e, Post(L, base, r)) /\ VotesFrom(e, L, r)
    BY <1>3, <2>2, <2>3, <2>7
  <2>8. ASSUME e.votes = d.votes, ~ IsVote(L, i) PROVE VotesFrom(e, L, q + 1)
    BY <1>3, <2>3, <2>8, VotesFromMore
  <2>9. CASE op \in {"UpsertAsset", "UpsertGovernor"}
    <3>1. SameShown(d, e)
      BY <2>6, <2>9, ParentsShow DEF GovernanceStore, UpsertAsset, UpsertGovernor
    <3>2. GovernorShows(e, s) /\ VotesFrom(e, L, q)
      BY <2>4, <3>1, SameShows
    <3>3. op # AdvanceOf(Does(L, i))
      BY <2>1, <2>2, <2>9 DEF AdvanceOf, GovernorMoves, GovernanceFilters
    <3> QED
      BY <2>3, <3>2, <3>3 DEF s
  <2>10. CASE x.name = "ProposalCreated" /\ op = "InsertGovernanceProposal"
    <3>1. e = InsertGovernanceProposal(d, row)
      BY <2>6, <2>10 DEF GovernanceStore
    <3>2. row.id = x.id
      BY <1>1, <2>2
    <3>3. GovernorShows(e, t) /\ e.votes = d.votes
      BY <2>1, <2>4, <2>10, <3>1, <3>2, CreatedShows
    <3>4. ~ IsVote(L, i)
      BY <2>2, <2>10 DEF IsVote
    <3> QED
      BY <2>7, <2>8, <3>3, <3>4
  <2>11. CASE x.name = "VoteCast" /\ op = "InsertGovernanceVote"
    <3>1. e = InsertGovernanceVote(d, row)
      BY <2>6, <2>11 DEF GovernanceStore
    <3>2. {"who", "support", "weight"} \subseteq DOMAIN x
      BY <2>1, <2>11 DEF GovernorMoves
    <3>3. row.id = x.id /\ row.who = x.who /\ row.support = x.support /\ row.weight = x.weight
      BY <2>5, <3>2 DEF RowOf
    <3>4. From(d.votes, row) = {}
      <4>1. ASSUME NEW v \in DOMAIN d.votes PROVE d.votes[v].at # row.at
        <5>1. PICK j \in 1..q : d.votes[v].at = <<j, 1>>
          BY DEF VotesFrom
        <5>2. j # i
          BY <1>3
        <5>3. <<j, 1>> # <<i, 1>>
          BY ONLY <5>2
        <5> QED
          BY <1>1, <5>1, <5>3
      <4> QED
        BY <4>1 DEF From
    <3>5. /\ GovernorShows(e, t)
          /\ e.votes = InsertNew(d.votes, <<x.id, x.who>>,
                                 [support |-> x.support, weight |-> x.weight, at |-> row.at])
          /\ <<x.id, x.who>> \notin DOMAIN d.votes
      BY <2>1, <2>4, <2>11, <3>1, <3>3, <3>4, VotedShows
    <3>6. PICK key, new : /\ key = <<x.id, x.who>>
                          /\ new = [support |-> x.support, weight |-> x.weight, at |-> row.at]
      OBVIOUS
    <3>7. new.at = <<q + 1, 1>>
      BY <1>1, <1>3, <3>6
    <3>8. VotesFrom(e, L, q + 1)
      BY <2>3, <3>5, <3>6, <3>7, VotesFromNext
    <3> QED
      BY <2>7, <3>5, <3>8
  <2>12. ASSUME NEW z, z = StateOf(x.name), e = MarkProposal(d, row, z),
                x.name \in GovernanceFilters \ {"ProposalCreated", "VoteCast"}
         PROVE  \E r \in {q, q + 1} \cap 0..Len(L) :
                  /\ r = q + 1 => i = r
                  /\ i <= r \/ op # AdvanceOf(Does(L, i))
                  /\ GovernorShows(e, Post(L, base, r)) /\ VotesFrom(e, L, r)
    <3>1. row.id = x.id
      BY <1>1, <2>2
    <3>2. GovernorShows(e, t) /\ e.votes = d.votes
      BY <2>1, <2>4, <2>12, <3>1, MarkedShows
    <3>3. ~ IsVote(L, i)
      BY <2>2, <2>12 DEF IsVote
    <3> QED
      BY <2>7, <2>8, <3>2, <3>3
  <2>13. CASE x.name = "ProposalQueued"
    <3>1. e = MarkProposal(d, row, "queued")
      BY <2>5, <2>6, <2>13 DEF GovernorOps, GovernanceStore
    <3> QED
      BY <2>12, <2>13, <3>1 DEF StateOf, GovernanceFilters
  <2>14. CASE x.name = "ProposalDispatched"
    <3>1. e = MarkProposal(d, row, "dispatched")
      BY <2>5, <2>6, <2>14 DEF GovernorOps, GovernanceStore
    <3> QED
      BY <2>12, <2>14, <3>1 DEF StateOf, GovernanceFilters
  <2>15. CASE x.name = "ProposalExecuted"
    <3>1. e = MarkProposal(d, row, "executed")
      BY <2>5, <2>6, <2>15 DEF GovernorOps, GovernanceStore
    <3> QED
      BY <2>12, <2>15, <3>1 DEF StateOf, GovernanceFilters
  <2>16. CASE x.name = "ProposalCancelled"
    <3>1. e = MarkProposal(d, row, "cancelled")
      BY <2>5, <2>6, <2>16 DEF GovernorOps, GovernanceStore
    <3> QED
      BY <2>12, <2>16, <3>1 DEF StateOf, GovernanceFilters
  <2>17. x.name = "ProposalCreated" =>
           op \in {"UpsertAsset", "UpsertGovernor", "InsertGovernanceProposal"}
    BY <2>5 DEF GovernorOps
  <2>18. x.name = "VoteCast" => op = "InsertGovernanceVote"
    BY <2>5 DEF GovernorOps
  <2>19. x.name \in GovernanceFilters
    BY <2>1 DEF GovernorMoves
  <2> QED
    BY <2>9, <2>10, <2>11, <2>13, <2>14, <2>15, <2>16, <2>17, <2>18, <2>19 DEF GovernanceFilters
<1> QED
  BY <1>2, <1>3

---------------------------------------------------------------------------
(* The sums over the vault's flows, and over a governor's votes. *)

AddsShares(g, T, S) ==
  g = [t \in SUBSET S |-> IF t = {} THEN 0 ELSE T[SomeOf(t)].shares + g[t \ {SomeOf(t)}]]

FlowSum(T, S) == MapThenSumSet(LAMBDA k : T[k].shares, S)

LEMMA FlowIsSum ==
  ASSUME NEW T, IsFiniteSet(DOMAIN T), NEW S \in SUBSET DOMAIN T
  PROVE  FlowSum(T, S) = Sum([k \in DOMAIN T |-> T[k].shares], S)
<1> DEFINE F == [k \in DOMAIN T |-> T[k].shares]
           G == CHOOSE g : AddsShares(g, T, S)
<1>1. FlowSum(T, S) = G[S]
  BY DEF FlowSum, MapThenSumSet, MapThenFoldSet, AddsShares, SomeOf
<1>2. S \subseteq DOMAIN T /\ IsFiniteSet(S)
  BY FS_Subset
<1>3. \A k \in DOMAIN T : F[k] = T[k].shares
  OBVIOUS
<1> HIDE DEF F, G
<1>4. ASSUME NEW t \in SUBSET S, t # {} PROVE F[SomeOf(t)] = T[SomeOf(t)].shares
  BY <1>2, <1>3, <1>4, SomeOfIn
<1>5. ASSUME NEW g PROVE Adds(g, F, S) <=> AddsShares(g, T, S)
  <2> DEFINE f == [t \in SUBSET S |-> IF t = {} THEN 0 ELSE F[SomeOf(t)] + g[t \ {SomeOf(t)}]]
             h == [t \in SUBSET S |->
                     IF t = {} THEN 0 ELSE T[SomeOf(t)].shares + g[t \ {SomeOf(t)}]]
  <2>1. f = h
    BY <1>4
  <2> QED
    BY <2>1 DEF Adds, AddsShares
<1>6. \E g : AddsShares(g, T, S)
  BY <1>2, <1>5, AddsExists
<1>7. Adds(G, F, S)
  BY <1>5, <1>6 DEF G
<1>8. \E g : Adds(g, F, S)
  BY <1>7
<1>9. Adds(CHOOSE g : Adds(g, F, S), F, S)
  BY <1>8
<1>10. G[S] = Sum(F, S)
  BY <1>2, <1>7, <1>9, AddsAgree DEF Sum
<1> QED
  BY <1>1, <1>10 DEF F

(* All the shares that moved, and a user's. *)
AllOf(T) == FlowSum(T, DOMAIN T)

LEMMA SharesOfIs ==
  ASSUME NEW T, NEW u
  PROVE  SharesOf(T, u) = FlowSum(T, {k \in DOMAIN T : T[k].user = u})
BY DEF SharesOf, FlowSum

Counts(T) == IsFiniteSet(DOMAIN T) /\ \A k \in DOMAIN T : T[k].shares \in Nat

LEMMA FlowsAreNat ==
  ASSUME NEW T, Counts(T), NEW u
  PROVE  SharesOf(T, u) \in Nat /\ AllOf(T) \in Nat
<1> DEFINE F == [k \in DOMAIN T |-> T[k].shares]
           S == {k \in DOMAIN T : T[k].user = u}
<1>1. /\ IsFiniteSet(DOMAIN T) /\ S \in SUBSET DOMAIN T /\ IsFiniteSet(S)
      /\ \A k \in DOMAIN T : F[k] \in Nat
  BY FS_Subset DEF Counts
<1>2. SharesOf(T, u) = Sum(F, S)
  BY <1>1, FlowIsSum, SharesOfIs
<1>3. AllOf(T) = Sum(F, DOMAIN T)
  BY <1>1, FlowIsSum DEF AllOf
<1> HIDE DEF F, S
<1> QED
  BY <1>1, <1>2, <1>3, SumIsNat

LEMMA FlowAdds ==
  ASSUME NEW T, Counts(T), NEW key, key \notin DOMAIN T, NEW new, new.shares \in Nat,
         NEW U, U = InsertNew(T, key, new), NEW u
  PROVE  /\ Counts(U)
         /\ SharesOf(U, u) = SharesOf(T, u) + (IF new.user = u THEN new.shares ELSE 0)
         /\ AllOf(U) = AllOf(T) + new.shares
<1> DEFINE F == [k \in DOMAIN T |-> T[k].shares]
           G == [k \in DOMAIN U |-> U[k].shares]
           R == {k \in DOMAIN T : T[k].user = u}
           S == {k \in DOMAIN U : U[k].user = u}
           D == DOMAIN T
<1>1. /\ DOMAIN U = D \union {key} /\ U[key] = new /\ \A k \in D : U[k] = T[k]
  BY DEF InsertNew
<1>2. IsFiniteSet(D) /\ IsFiniteSet(DOMAIN U)
  BY <1>1, FS_AddElement DEF Counts
<1>3. \A k \in DOMAIN U : U[k].shares \in Nat
  BY <1>1 DEF Counts
<1>4. Counts(U)
  BY <1>2, <1>3 DEF Counts
<1>5. R \in SUBSET D /\ S \in SUBSET DOMAIN U
  OBVIOUS
<1>6. SharesOf(T, u) = Sum(F, R) /\ SharesOf(U, u) = Sum(G, S)
  BY <1>2, <1>5, FlowIsSum, SharesOfIs
<1>7. AllOf(T) = Sum(F, D) /\ AllOf(U) = Sum(G, DOMAIN U)
  BY <1>2, FlowIsSum DEF AllOf
<1>8. /\ \A k \in D : F[k] = G[k] /\ F[k] \in Nat
      /\ \A k \in DOMAIN U : G[k] \in Nat
      /\ G[key] = new.shares
  BY <1>1, <1>3
<1>9. S = IF new.user = u THEN R \union {key} ELSE R
  BY <1>1
<1>10. key \notin D /\ key \notin R
  OBVIOUS
<1> HIDE DEF F, G, R, S, D
<1>11. ASSUME NEW A \in SUBSET D PROVE Sum(G, A) = Sum(F, A) /\ Sum(F, A) \in Nat
  <2>1. IsFiniteSet(A)
    BY <1>2, FS_Subset
  <2> QED
    BY <1>8, <2>1, SumAgree, SumIsNat
<1>12. ASSUME NEW A \in SUBSET D, key \notin A
       PROVE  Sum(G, A \union {key}) = Sum(F, A) + new.shares
  <2>1. IsFiniteSet(A \union {key}) /\ key \in A \union {key}
    BY <1>2, FS_Subset, FS_AddElement
  <2>2. (A \union {key}) \ {key} = A
    BY <1>12
  <2>3. \A k \in A \union {key} : G[k] \in Nat
    BY <1>1, <1>8
  <2>4. Sum(G, A \union {key}) = G[key] + Sum(G, (A \union {key}) \ {key})
    BY <2>1, <2>3, SumRemove
  <2>5. Sum(G, A \union {key}) = G[key] + Sum(G, A)
    BY ONLY <2>2, <2>4
  <2>6. Sum(G, A) = Sum(F, A) /\ Sum(F, A) \in Nat
    BY <1>11
  <2>7. G[key] = new.shares
    BY <1>8
  <2>8. Sum(G, A \union {key}) = new.shares + Sum(F, A)
    BY ONLY <2>5, <2>6, <2>7
  <2>9. PICK x, y : x = new.shares /\ y = Sum(F, A)
    OBVIOUS
  <2>10. x \in Nat /\ y \in Nat /\ Sum(G, A \union {key}) = x + y
    BY <2>6, <2>8, <2>9
  <2> QED
    BY ONLY <2>9, <2>10
<1>13. AllOf(U) = AllOf(T) + new.shares
  BY <1>1, <1>7, <1>10, <1>12
<1>14. SharesOf(U, u) = SharesOf(T, u) + (IF new.user = u THEN new.shares ELSE 0)
  <2>1. CASE new.user = u
    BY <1>5, <1>6, <1>9, <1>10, <1>12, <2>1
  <2>2. CASE new.user # u
    BY <1>5, <1>6, <1>9, <1>11, <2>2
  <2> QED
    BY <2>1, <2>2
<1> QED
  BY <1>4, <1>13, <1>14

(* What the users of a vault hold together. *)
LEMMA HoldingsIsSum ==
  ASSUME NEW s, IsFiniteSet(Accounts)
  PROVE  MapThenSumSet(LAMBDA u : s.shares[u], Accounts) = Sum(s.shares, Accounts)
BY DEF MapThenSumSet, MapThenFoldSet, Sum, Adds, SomeOf

(* A proposal's votes of one kind. *)
CastIn(s, p, support) == {c \in DOMAIN s.cast : c[1] = p /\ s.cast[c] = support}

AddsWeights(g, S) ==
  g = [t \in SUBSET S |-> IF t = {} THEN 0 ELSE Weight[SomeOf(t)[2]] + g[t \ {SomeOf(t)}]]

LEMMA TallyIsSum ==
  ASSUME NEW s, IsFiniteSet(DOMAIN s.cast), NEW p, NEW support
  PROVE  Tally(s, p, support) = Sum([c \in DOMAIN s.cast |-> Weight[c[2]]], CastIn(s, p, support))
<1> DEFINE F == [c \in DOMAIN s.cast |-> Weight[c[2]]]
           S == CastIn(s, p, support)
           G == CHOOSE g : AddsWeights(g, S)
<1>1. Tally(s, p, support) = G[S]
  BY DEF Tally, MapThenSumSet, MapThenFoldSet, AddsWeights, SomeOf, CastIn
<1>2. S \subseteq DOMAIN s.cast /\ IsFiniteSet(S)
  BY FS_Subset DEF CastIn
<1>3. \A c \in DOMAIN s.cast : F[c] = Weight[c[2]]
  OBVIOUS
<1> HIDE DEF F, S, G
<1>4. ASSUME NEW t \in SUBSET S, t # {} PROVE F[SomeOf(t)] = Weight[SomeOf(t)[2]]
  BY <1>2, <1>3, <1>4, SomeOfIn
<1>5. ASSUME NEW g PROVE Adds(g, F, S) <=> AddsWeights(g, S)
  <2> DEFINE f == [t \in SUBSET S |-> IF t = {} THEN 0 ELSE F[SomeOf(t)] + g[t \ {SomeOf(t)}]]
             h == [t \in SUBSET S |->
                     IF t = {} THEN 0 ELSE Weight[SomeOf(t)[2]] + g[t \ {SomeOf(t)}]]
  <2>1. f = h
    BY <1>4
  <2> QED
    BY <2>1 DEF Adds, AddsWeights
<1>6. \E g : AddsWeights(g, S)
  BY <1>2, <1>5, AddsExists
<1>7. Adds(G, F, S)
  BY <1>5, <1>6 DEF G
<1>8. \E g : Adds(g, F, S)
  BY <1>7
<1>9. Adds(CHOOSE g : Adds(g, F, S), F, S)
  BY <1>8
<1>10. G[S] = Sum(F, S)
  BY <1>2, <1>7, <1>9, AddsAgree DEF Sum
<1> QED
  BY <1>1, <1>10 DEF F, S

(* The sums of the votes stored are those of the votes cast. *)
LEMMA TalliesAgree ==
  ASSUME NEW d, IsFiniteSet(DOMAIN d.votes), NEW s, GovernorShows(d, s), NEW p, NEW support
  PROVE  VotesOf(d, p, support) = Tally(s, p, support)
<1> DEFINE F == [v \in DOMAIN d.votes |-> d.votes[v].weight]
           G == [c \in DOMAIN s.cast |-> Weight[c[2]]]
           S == VotesIn(d, p, support)
<1>1. /\ DOMAIN d.votes = DOMAIN s.cast
      /\ \A v \in DOMAIN d.votes : d.votes[v].support = s.cast[v] /\ d.votes[v].weight = Weight[v[2]]
  <2> SUFFICES ASSUME NEW v \in DOMAIN d.votes
               PROVE  d.votes[v].support = s.cast[v] /\ d.votes[v].weight = Weight[v[2]]
    BY DEF GovernorShows
  <2>1. PICK r, x, y, z : /\ r = d.votes[v] /\ x = s.cast[v] /\ y = Weight[v[2]]
                          /\ z = d.votes[v].at
    OBVIOUS
  <2>2. d.votes[v] = [support |-> s.cast[v], weight |-> Weight[v[2]], at |-> d.votes[v].at]
    BY DEF GovernorShows
  <2>3. r = [support |-> x, weight |-> y, at |-> z]
    BY ONLY <2>1, <2>2
  <2>4. r.support = x /\ r.weight = y
    BY ONLY <2>3
  <2> QED
    BY ONLY <2>1, <2>4
<1>2. S = CastIn(s, p, support) /\ S \subseteq DOMAIN d.votes
  BY <1>1 DEF VotesIn, CastIn
<1>3. IsFiniteSet(S)
  BY <1>2, FS_Subset
<1>4. \A v \in S : F[v] = G[v]
  BY <1>1, <1>2
<1>5. VotesOf(d, p, support) = Sum(F, S)
  BY VotesOfIsSum
<1>6. Tally(s, p, support) = Sum(G, S)
  BY <1>1, <1>2, TallyIsSum
<1> HIDE DEF F, G, S
<1> QED
  BY <1>3, <1>4, <1>5, <1>6, SumAgree

---------------------------------------------------------------------------
(* One statement of a vault's event: the same, with the flows summed.      *)

(* The flows of this name that the first q transactions had. *)
FlowsFrom(T, L, q, name) ==
  /\ Counts(T)
  /\ \A k \in DOMAIN T : \E i \in 1..q : k = <<i, 1>> /\ T[k].at = <<i, 1>>
  /\ \A i \in 1..q : Does(L, i) = name => \E k \in DOMAIN T : T[k].at = <<i, 1>>

VaultShows(d, s) ==
  /\ \A u \in Accounts : SharesOf(d.deposits, u) - SharesOf(d.withdrawals, u) = s.shares[u]
  /\ AllOf(d.deposits) - AllOf(d.withdrawals) = Sum(s.shares, Accounts)

VaultTables(d, L, q) ==
  FlowsFrom(d.deposits, L, q, "Deposited") /\ FlowsFrom(d.withdrawals, L, q, "Withdrawn")

SameFlows(d, e) == e.deposits = d.deposits /\ e.withdrawals = d.withdrawals

LEMMA SameFlowsShow ==
  ASSUME NEW d, NEW e, SameFlows(d, e), NEW s, VaultShows(d, s), NEW L, NEW q, VaultTables(d, L, q)
  PROVE  VaultShows(e, s) /\ VaultTables(e, L, q)
BY DEF SameFlows, VaultShows, VaultTables

LEMMA FlowsMore ==
  ASSUME NEW T, NEW L, NEW q \in Nat, NEW name, FlowsFrom(T, L, q, name), Does(L, q + 1) # name
  PROVE  FlowsFrom(T, L, q + 1, name)
<1>1. ASSUME NEW k \in DOMAIN T
      PROVE  \E i \in 1..(q + 1) : k = <<i, 1>> /\ T[k].at = <<i, 1>>
  <2>1. PICK i \in 1..q : k = <<i, 1>> /\ T[k].at = <<i, 1>>
    BY DEF FlowsFrom
  <2> QED
    BY <2>1
<1>2. ASSUME NEW i \in 1..(q + 1), Does(L, i) = name
      PROVE  \E k \in DOMAIN T : T[k].at = <<i, 1>>
  <2>1. i \in 1..q
    BY <1>2
  <2> QED
    BY <1>2, <2>1 DEF FlowsFrom
<1> QED
  BY <1>1, <1>2 DEF FlowsFrom

(* A replayed event is there; the next one is not. *)
Flow(T, row) ==
  IF From(T, row) # {} THEN T
  ELSE InsertNew(T, row.at, [user |-> row.who, shares |-> row.shares, at |-> row.at])

LEMMA FlowReplayed ==
  ASSUME NEW T, NEW L, NEW q, NEW name, FlowsFrom(T, L, q, name),
         NEW i \in 1..q, Does(L, i) = name, NEW row, row.at = <<i, 1>>
  PROVE  Flow(T, row) = T
<1>1. PICK k \in DOMAIN T : T[k].at = <<i, 1>>
  BY DEF FlowsFrom
<1>2. k \in From(T, row)
  BY <1>1 DEF From
<1> QED
  BY <1>2 DEF Flow

Flowed(T, U, row) ==
  /\ AllOf(U) = AllOf(T) + row.shares
  /\ \A u : SharesOf(U, u) = SharesOf(T, u) + (IF row.who = u THEN row.shares ELSE 0)

LEMMA FlowStored ==
  ASSUME NEW T, NEW L, NEW q \in Nat, NEW name, FlowsFrom(T, L, q, name),
         NEW row, row.at = <<q + 1, 1>>, row.shares \in Nat, NEW U, U = Flow(T, row)
  PROVE  FlowsFrom(U, L, q + 1, name) /\ Flowed(T, U, row)
<1>0. PICK key, new : key = row.at /\ new = [user |-> row.who, shares |-> row.shares, at |-> row.at]
  OBVIOUS
<1>1. new.user = row.who /\ new.shares = row.shares /\ new.at = row.at /\ new.shares \in Nat
  BY <1>0
<1>2. ASSUME NEW k \in DOMAIN T PROVE k # key /\ T[k].at # row.at
  <2>1. PICK j \in 1..q : k = <<j, 1>> /\ T[k].at = <<j, 1>>
    BY DEF FlowsFrom
  <2>2. j # q + 1
    OBVIOUS
  <2>3. <<j, 1>> # <<q + 1, 1>>
    BY ONLY <2>2
  <2> QED
    BY <1>0, <2>1, <2>3
<1>3. From(T, row) = {} /\ key \notin DOMAIN T
  BY <1>2 DEF From
<1>4. U = InsertNew(T, key, new)
  BY <1>0, <1>3 DEF Flow
<1>5. Counts(T)
  BY DEF FlowsFrom
<1>6. ASSUME NEW u
      PROVE  /\ Counts(U) /\ AllOf(U) = AllOf(T) + row.shares
             /\ SharesOf(U, u) = SharesOf(T, u) + (IF row.who = u THEN row.shares ELSE 0)
  BY <1>1, <1>3, <1>4, <1>5, FlowAdds
<1>7. DOMAIN U = DOMAIN T \union {key} /\ U[key] = new /\ \A k \in DOMAIN T : U[k] = T[k]
  BY <1>3, <1>4 DEF InsertNew
<1>8. ASSUME NEW k \in DOMAIN U
      PROVE  \E j \in 1..(q + 1) : k = <<j, 1>> /\ U[k].at = <<j, 1>>
  <2>1. CASE k = key
    BY <1>0, <1>1, <1>7, <2>1
  <2>2. CASE k # key
    <3>1. PICK j \in 1..q : k = <<j, 1>> /\ T[k].at = <<j, 1>>
      BY <1>7, <2>2 DEF FlowsFrom
    <3> QED
      BY <1>7, <2>2, <3>1
  <2> QED
    BY <2>1, <2>2
<1>9. ASSUME NEW j \in 1..(q + 1), Does(L, j) = name
      PROVE  \E k \in DOMAIN U : U[k].at = <<j, 1>>
  <2>1. CASE j = q + 1
    BY <1>1, <1>7, <2>1
  <2>2. CASE j # q + 1
    <3>1. j \in 1..q
      BY <2>2
    <3>2. PICK k \in DOMAIN T : T[k].at = <<j, 1>>
      BY <1>9, <3>1 DEF FlowsFrom
    <3> QED
      BY <1>7, <3>2
  <2> QED
    BY <2>1, <2>2
<1> QED
  BY <1>6, <1>8, <1>9 DEF FlowsFrom, Flowed

(* What one move does to the sum of the shares. *)
LEMMA SumOneMoves ==
  ASSUME NEW S, IsFiniteSet(S), NEW F, NEW G, NEW w \in S, NEW n \in Int, G[w] = F[w] + n,
         \A u \in S : F[u] \in Nat /\ G[u] \in Nat, \A u \in S \ {w} : F[u] = G[u]
  PROVE  Sum(G, S) = Sum(F, S) + n
<1>1. IsFiniteSet(S \ {w})
  BY FS_Subset
<1>2. Sum(F, S \ {w}) = Sum(G, S \ {w}) /\ Sum(F, S \ {w}) \in Nat
  BY <1>1, SumAgree, SumIsNat
<1>3. (\A u \in S : F[u] \in Nat) /\ (\A u \in S : G[u] \in Nat)
  OBVIOUS
<1>4. Sum(F, S) = F[w] + Sum(F, S \ {w})
  <2>1. SplitsAt(F, S, w)
    BY <1>3, SumSplits DEF CountsOn
  <2> QED
    BY <2>1 DEF SplitsAt
<1>5. Sum(G, S) = G[w] + Sum(G, S \ {w})
  <2>1. SplitsAt(G, S, w)
    BY <1>3, SumSplits DEF CountsOn
  <2> QED
    BY <2>1 DEF SplitsAt
<1> QED
  BY <1>2, <1>3, <1>4, <1>5

LEMMA GainAdds ==
  ASSUME IsFiniteSet(Accounts), NEW x, NEW s, NEW t, VaultMoves(x, s, t)
  PROVE  Sum(t.shares, Accounts) = Sum(s.shares, Accounts) + Gain(x, x.who)
<1> DEFINE F == s.shares
           G == t.shares
           w == x.who
<1>1. w \in Accounts /\ \A u \in Accounts : F[u] \in Nat /\ G[u] \in Nat
  BY DEF VaultMoves
<1>2. \A u \in Accounts : G[u] = F[u] + Gain(x, u)
  BY DEF VaultMoves
<1>3. \A u \in Accounts \ {w} : F[u] = G[u]
  <2>1. ASSUME NEW u \in Accounts \ {w} PROVE F[u] = G[u]
    <3>1. Gain(x, u) = 0
      BY DEF Gain
    <3>2. F[u] \in Nat /\ G[u] = F[u] + Gain(x, u)
      BY <1>1, <1>2
    <3> QED
      BY <3>1, <3>2
  <2> QED
    BY <2>1
<1>4. Gain(x, w) \in Int
  BY DEF Gain, VaultMoves
<1> HIDE DEF F, G, w
<1>5. G[w] = F[w] + Gain(x, w)
  BY <1>1, <1>2
<1>6. w \in Accounts /\ \A u \in Accounts : F[u] \in Nat /\ G[u] \in Nat
  BY <1>1
<1>7. Sum(G, Accounts) = Sum(F, Accounts) + Gain(x, w)
  BY <1>3, <1>4, <1>5, <1>6, SumOneMoves
<1> QED
  BY <1>7 DEF F, G, w

LEMMA VaultShown ==
  ASSUME IsFiniteSet(Accounts), NEW L, Len(L) \in Nat, NEW base, Lawful(L, "vault", base),
         NEW q \in 0..Len(L), NEW d, TablesAre(d),
         VaultShows(d, Post(L, base, q)), VaultTables(d, L, q),
         NEW i \in 1..Len(L), i <= q + 1, NEW row, RowOf(row, L[i].events[1], i),
         NEW op \in VaultOps, op \in Inserts => op = InsertOf(Does(L, i)),
         NEW e, e = VaultStore(d, op, row)
  PROVE  \E r \in {q, q + 1} \cap 0..Len(L) :
           /\ r = q + 1 => i = r
           /\ i <= r \/ op \notin Inserts
           /\ VaultShows(e, Post(L, base, r)) /\ VaultTables(e, L, r)
<1> DEFINE x == L[i].events[1]
<1>1. q \in {q, q + 1} \cap 0..Len(L) /\ ~ (q = q + 1) /\ q \in Nat
  OBVIOUS
<1>2. ASSUME SameFlows(d, e), i <= q \/ op \notin Inserts
      PROVE  \E r \in {q, q + 1} \cap 0..Len(L) :
               /\ r = q + 1 => i = r
               /\ i <= r \/ op \notin Inserts
               /\ VaultShows(e, Post(L, base, r)) /\ VaultTables(e, L, r)
  BY <1>1, <1>2, SameFlowsShow
<1>3. CASE op \in {"UpsertAsset", "UpsertVault"}
  <2>1. op \notin Inserts
    BY <1>3 DEF Inserts
  <2>2. Untouched(d, e)
    BY <2>1, RestUntouched
  <2>3. SameFlows(d, e)
    BY <2>2 DEF Untouched, LogTables, SameFlows
  <2> QED
    BY <1>2, <2>1, <2>3
<1>4. Moves("vault", x, Post(L, base, i - 1), L[i].post)
  BY DEF Lawful
<1>5. VaultMoves(x, Post(L, base, i - 1), L[i].post)
  BY <1>4 DEF Moves
<1>6. /\ x.name \in VaultFilters /\ {"id", "who", "shares"} \subseteq DOMAIN x
      /\ x.who \in Accounts /\ x.shares \in Nat
  BY <1>5 DEF VaultMoves
<1>7. row.at = <<i, 1>> /\ row.who = x.who /\ row.shares = x.shares
  BY <1>6 DEF RowOf
<1>8. Does(L, i) = x.name
  BY DEF Does
<1>9. /\ DOMAIN d = Columns /\ {"deposits", "withdrawals"} \subseteq LogTables
      /\ {"deposits", "withdrawals"} \subseteq Columns
  BY DEF TablesAre, LogTables, Columns
<1>10. ASSUME op \in Inserts, x.name = "Deposited"
       PROVE  /\ e.withdrawals = d.withdrawals
              /\ e.deposits = Flow(d.deposits, row)
  <2>1. op = "InsertVaultDeposit"
    BY <1>8, <1>10 DEF InsertOf
  <2>2. e = InsertVaultDeposit(d, row)
    BY <2>1 DEF VaultStore
  <2> QED
    BY <1>9, <2>2 DEF InsertVaultDeposit, Flow
<1>11. ASSUME op \in Inserts, x.name = "Withdrawn"
       PROVE  /\ e.deposits = d.deposits
              /\ e.withdrawals = Flow(d.withdrawals, row)
  <2>1. op = "InsertVaultWithdrawal"
    BY <1>8, <1>11 DEF InsertOf
  <2>2. e = InsertVaultWithdrawal(d, row)
    BY <2>1 DEF VaultStore
  <2> QED
    BY <1>9, <2>2 DEF InsertVaultWithdrawal, Flow
<1>12. i \in 1..(q + 1) /\ row.shares \in Nat
  BY <1>6, <1>7
<1>13. FlowsFrom(d.deposits, L, q, "Deposited") /\ FlowsFrom(d.withdrawals, L, q, "Withdrawn")
  BY DEF VaultTables
<1>14. op \in Inserts => x.name \in {"Deposited", "Withdrawn"}
  BY <1>6 DEF VaultFilters
<1>15. CASE op \in Inserts /\ i <= q
  <2>1. SameFlows(d, e)
    <3>1. CASE x.name = "Deposited"
      <4>1. e.deposits = d.deposits
        <5>1. i \in 1..q
          BY <1>1, <1>12, <1>15
        <5>2. Does(L, i) = "Deposited" /\ row.at = <<i, 1>>
          BY <1>7, <1>8, <3>1
        <5> QED
          BY <1>10, <1>13, <1>15, <3>1, <5>1, <5>2, FlowReplayed
      <4> QED
        BY <1>10, <1>15, <3>1, <4>1 DEF SameFlows
    <3>2. CASE x.name = "Withdrawn"
      <4>1. e.withdrawals = d.withdrawals
        <5>1. i \in 1..q
          BY <1>1, <1>12, <1>15
        <5>2. Does(L, i) = "Withdrawn" /\ row.at = <<i, 1>>
          BY <1>7, <1>8, <3>2
        <5> QED
          BY <1>11, <1>13, <1>15, <3>2, <5>1, <5>2, FlowReplayed
      <4> QED
        BY <1>11, <1>15, <3>2, <4>1 DEF SameFlows
    <3> QED
      BY <1>14, <1>15, <3>1, <3>2
  <2> QED
    BY <1>2, <1>15, <2>1
<1>16. CASE op \in Inserts /\ i = q + 1
  <2> DEFINE s == Post(L, base, q)
             t == L[i].post
  <2>1. VaultMoves(x, s, t) /\ VaultShows(d, s)
    <3>1. i - 1 = q
      BY <1>16
    <3> QED
      BY <1>5, <3>1
  <2>2. Sum(t.shares, Accounts) = Sum(s.shares, Accounts) + Gain(x, x.who)
    BY <2>1, GainAdds
  <2>3. \A u \in Accounts : t.shares[u] = s.shares[u] + Gain(x, u)
    BY <2>1 DEF VaultMoves
  <2>4. Post(L, base, q + 1) = t /\ i \in {q, q + 1} \cap 0..Len(L)
    BY <1>16 DEF Post
  <2>5. /\ \A u \in Accounts : SharesOf(d.deposits, u) - SharesOf(d.withdrawals, u) = s.shares[u]
        /\ AllOf(d.deposits) - AllOf(d.withdrawals) = Sum(s.shares, Accounts)
    BY <2>1 DEF VaultShows
  <2>6. \A u : /\ SharesOf(d.deposits, u) \in Nat /\ SharesOf(d.withdrawals, u) \in Nat
               /\ AllOf(d.deposits) \in Nat /\ AllOf(d.withdrawals) \in Nat
    BY <1>13, FlowsAreNat DEF FlowsFrom
  <2> HIDE DEF s, t, x
  <2>7. VaultShows(e, t) /\ VaultTables(e, L, q + 1)
    <3>1. CASE x.name = "Deposited"
      <4>0. FlowsFrom(e.deposits, L, q + 1, "Deposited") /\ Flowed(d.deposits, e.deposits, row)
        <5>1. row.at = <<q + 1, 1>> /\ row.shares \in Nat
          BY <1>7, <1>12, <1>16
        <5>2. FlowsFrom(d.deposits, L, q, "Deposited") /\ e.deposits = Flow(d.deposits, row)
          BY <1>10, <1>13, <1>16, <3>1
        <5> QED
          BY <1>1, <5>1, <5>2, FlowStored
      <4>1. /\ AllOf(e.deposits) = AllOf(d.deposits) + row.shares
            /\ \A u : SharesOf(e.deposits, u) =
                         SharesOf(d.deposits, u) + (IF row.who = u THEN row.shares ELSE 0)
        BY <4>0 DEF Flowed
      <4>2. e.withdrawals = d.withdrawals
        BY <1>10, <1>16, <3>1
      <4>3. FlowsFrom(d.withdrawals, L, q + 1, "Withdrawn")
        BY <1>1, <1>8, <1>13, <1>16, <3>1, FlowsMore
      <4>4. ASSUME NEW u \in Accounts
            PROVE  SharesOf(e.deposits, u) - SharesOf(e.withdrawals, u) = t.shares[u]
        <5>1. Gain(x, u) = IF x.who # u THEN 0 ELSE x.shares
          BY <3>1 DEF Gain
        <5>2. /\ t.shares[u] = s.shares[u] + Gain(x, u)
              /\ SharesOf(d.deposits, u) - SharesOf(d.withdrawals, u) = s.shares[u]
              /\ SharesOf(d.deposits, u) \in Nat /\ SharesOf(d.withdrawals, u) \in Nat
          BY <2>3, <2>5, <2>6
        <5>3. /\ SharesOf(e.deposits, u) = SharesOf(d.deposits, u) + (IF x.who = u THEN x.shares ELSE 0)
              /\ SharesOf(e.withdrawals, u) = SharesOf(d.withdrawals, u) + 0
          BY <1>7, <2>6, <4>1, <4>2
        <5> QED
          BY ONLY <1>6, <5>1, <5>2, <5>3
      <4>5. AllOf(e.deposits) - AllOf(e.withdrawals) = Sum(t.shares, Accounts)
        <5>1. Gain(x, x.who) = x.shares
          BY <3>1 DEF Gain
        <5> QED
          BY <1>6, <1>7, <2>2, <2>5, <2>6, <4>1, <4>2, <5>1
      <4> QED
        BY <4>0, <4>2, <4>3, <4>4, <4>5 DEF VaultShows, VaultTables
    <3>2. CASE x.name = "Withdrawn"
      <4>0. FlowsFrom(e.withdrawals, L, q + 1, "Withdrawn") /\ Flowed(d.withdrawals, e.withdrawals, row)
        <5>1. row.at = <<q + 1, 1>> /\ row.shares \in Nat
          BY <1>7, <1>12, <1>16
        <5>2. FlowsFrom(d.withdrawals, L, q, "Withdrawn") /\ e.withdrawals = Flow(d.withdrawals, row)
          BY <1>11, <1>13, <1>16, <3>2
        <5> QED
          BY <1>1, <5>1, <5>2, FlowStored
      <4>1. /\ AllOf(e.withdrawals) = AllOf(d.withdrawals) + row.shares
            /\ \A u : SharesOf(e.withdrawals, u) =
                         SharesOf(d.withdrawals, u) + (IF row.who = u THEN row.shares ELSE 0)
        BY <4>0 DEF Flowed
      <4>2. e.deposits = d.deposits
        BY <1>11, <1>16, <3>2
      <4>3. FlowsFrom(d.deposits, L, q + 1, "Deposited")
        BY <1>1, <1>8, <1>13, <1>16, <3>2, FlowsMore
      <4>4. ASSUME NEW u \in Accounts
            PROVE  SharesOf(e.deposits, u) - SharesOf(e.withdrawals, u) = t.shares[u]
        <5>1. Gain(x, u) = IF x.who # u THEN 0 ELSE -x.shares
          BY <3>2 DEF Gain
        <5>2. /\ t.shares[u] = s.shares[u] + Gain(x, u)
              /\ SharesOf(d.deposits, u) - SharesOf(d.withdrawals, u) = s.shares[u]
              /\ SharesOf(d.deposits, u) \in Nat /\ SharesOf(d.withdrawals, u) \in Nat
          BY <2>3, <2>5, <2>6
        <5>3. /\ SharesOf(e.deposits, u) = SharesOf(d.deposits, u) + 0
              /\ SharesOf(e.withdrawals, u) = SharesOf(d.withdrawals, u) + (IF x.who = u THEN x.shares ELSE 0)
          BY <1>7, <2>6, <4>1, <4>2
        <5> QED
          BY ONLY <1>6, <5>1, <5>2, <5>3
      <4>5. AllOf(e.deposits) - AllOf(e.withdrawals) = Sum(t.shares, Accounts)
        <5>1. Gain(x, x.who) = -x.shares
          BY <3>2 DEF Gain
        <5> QED
          BY <1>6, <1>7, <2>2, <2>5, <2>6, <4>1, <4>2, <5>1
      <4> QED
        BY <4>0, <4>2, <4>3, <4>4, <4>5 DEF VaultShows, VaultTables
    <3> QED
      BY <1>14, <1>16, <3>1, <3>2
  <2> QED
    BY <1>16, <2>4, <2>7
<1> QED
  BY <1>2, <1>3, <1>15, <1>16 DEF VaultOps, Inserts

---------------------------------------------------------------------------
(* One write: the last statement of a handler is the one that shows its    *)
(* event.                                                                  *)

Shows(which, d, L, base, q) ==
  IF which = "governor"
    THEN GovernorShows(d, Post(L, base, q)) /\ VotesFrom(d, L, q)
    ELSE VaultShows(d, Post(L, base, q)) /\ VaultTables(d, L, q)

(* The statement that shows an event of this name. *)
Advances(which, op, name) ==
  IF which = "governor" THEN op = AdvanceOf(name) ELSE op \in Inserts

(* What is left of a governor's handler ends in that statement. *)
CreateLists ==
  {<<"UpsertAsset", "UpsertGovernor", "InsertGovernanceProposal">>,
   <<"UpsertGovernor", "InsertGovernanceProposal">>, <<"InsertGovernanceProposal">>}

LEMMA CreateListsAre ==
  ASSUME NEW w \in CreateLists
  PROVE  /\ w # <<>>
         /\ Tail(w) # <<>> => Tail(w) \in CreateLists
         /\ Tail(w) = <<>> => Head(w) = "InsertGovernanceProposal"
<1>1. CASE w = <<"UpsertAsset", "UpsertGovernor", "InsertGovernanceProposal">>
  BY <1>1 DEF CreateLists
<1>2. CASE w = <<"UpsertGovernor", "InsertGovernanceProposal">>
  BY <1>2 DEF CreateLists
<1>3. CASE w = <<"InsertGovernanceProposal">>
  BY <1>3
<1> QED
  BY <1>1, <1>2, <1>3 DEF CreateLists

LEMMA TwoAndOne ==
  ASSUME NEW x, NEW y, NEW z
  PROVE  <<x, y>> \o <<z>> = <<x, y, z>>
<1> DEFINE S == {x, y, z}
           s == <<x, y>> \o <<z>>
           t == <<x, y, z>>
<1>1. <<x, y>> \in Seq(S) /\ <<z>> \in Seq(S) /\ t \in Seq(S)
  OBVIOUS
<1>2. s \in Seq(S) /\ Len(s) = 3 /\ Len(t) = 3
  BY <1>1
<1>3. s[1] = x /\ s[2] = y /\ s[3] = z
  BY <1>1
<1>4. \A k \in 1..Len(s) : s[k] = t[k]
  <2>1. \A k \in 1..3 : k = 1 \/ k = 2 \/ k = 3
    OBVIOUS
  <2> QED
    BY <1>2, <1>3, <2>1
<1> HIDE DEF s, t
<1>5. s = t
  BY <1>1, <1>2, <1>4, SeqEqual
<1> QED
  BY <1>5 DEF s, t

LEMMA CreateIsList ==
  ASSUME NEW memo
  PROVE  HandleProposalCreated(memo) \in CreateLists
<1>1. CASE "UpsertGovernor" \in memo
  <2>1. HandleProposalCreated(memo) = <<"InsertGovernanceProposal">>
    BY <1>1 DEF HandleProposalCreated, EnsureGovernor
  <2> QED
    BY <2>1 DEF CreateLists
<1>2. CASE "UpsertGovernor" \notin memo
  <2>1. HandleProposalCreated(memo) =
          <<"UpsertAsset", "UpsertGovernor", "InsertGovernanceProposal">>
    BY <1>2, TwoAndOne DEF HandleProposalCreated, EnsureGovernor
  <2> QED
    BY <2>1 DEF CreateLists
<1> QED
  BY <1>1, <1>2

LEMMA GovernorEnds ==
  ASSUME NEW x, x.name \in GovernanceFilters, NEW w, w # <<>>, NEW op \in GovernorOps(x),
         op = Head(w), x.name = "ProposalCreated" => w \in CreateLists
  PROVE  /\ Tail(w) = <<>> => op = AdvanceOf(x.name)
         /\ x.name = "ProposalCreated" /\ Tail(w) # <<>> => Tail(w) \in CreateLists
<1>1. CASE x.name = "ProposalCreated"
  <2>1. w \in CreateLists
    BY <1>1
  <2>2. /\ Tail(w) # <<>> => Tail(w) \in CreateLists
        /\ Tail(w) = <<>> => Head(w) = "InsertGovernanceProposal"
    BY <2>1, CreateListsAre
  <2>3. AdvanceOf(x.name) = "InsertGovernanceProposal"
    BY <1>1 DEF AdvanceOf
  <2> QED
    BY <1>1, <2>2, <2>3
<1>2. CASE x.name # "ProposalCreated"
  <2>1. op = AdvanceOf(x.name)
    BY <1>2 DEF GovernorOps, AdvanceOf, GovernanceFilters
  <2> QED
    BY <1>2, <2>1
<1> QED
  BY <1>1, <1>2

(* What a statement of the event at hand does to the tables. *)
LEMMA WriteShows ==
  ASSUME IsFiniteSet(Accounts), NEW which \in {"governor", "vault"}, NEW L, Len(L) \in Nat,
         NEW base, Lawful(L, which, base), NEW d, TablesAre(d),
         which = "governor" => NothingGoesBack(L) /\ Tallied(d),
         NEW q \in 0..Len(L), Shows(which, d, L, base, q),
         NEW i \in 1..Len(L), i <= q + 1, NEW row, row = EventRow(Decode(L, i, 1)),
         "id" \in DOMAIN L[i].events[1],
         NEW op \in OpsFor(which, L[i].events[1]),
         which = "vault" /\ op \in Inserts => op = InsertOf(Does(L, i)),
         NEW e, e = Exec(which, d, op, row)
  PROVE  \E r \in {q, q + 1} \cap 0..Len(L) :
           /\ r = q + 1 => i = r
           /\ i <= r \/ ~ Advances(which, op, Does(L, i))
           /\ Shows(which, e, L, base, r)
<1>1. RowOf(row, L[i].events[1], i)
  BY EventRowOf
<1>2. CASE which = "governor"
  <2>1. e = GovernanceStore(d, op, row) /\ op \in GovernorOps(L[i].events[1])
    BY <1>2 DEF Exec, OpsFor
  <2>2. Lawful(L, "governor", base) /\ GovernorShows(d, Post(L, base, q)) /\ VotesFrom(d, L, q)
    BY <1>2 DEF Shows
  <2>3. PICK r \in {q, q + 1} \cap 0..Len(L) :
          /\ r = q + 1 => i = r
          /\ i <= r \/ op # AdvanceOf(Does(L, i))
          /\ GovernorShows(e, Post(L, base, r)) /\ VotesFrom(e, L, r)
    BY <1>1, <1>2, <2>1, <2>2, GovernorShown
  <2>4. Shows(which, e, L, base, r)
    BY <1>2, <2>3 DEF Shows
  <2>5. i <= r \/ ~ Advances(which, op, Does(L, i))
    BY <1>2, <2>3 DEF Advances
  <2> QED
    BY <2>3, <2>4, <2>5
<1>3. CASE which = "vault"
  <2>1. e = VaultStore(d, op, row) /\ op \in VaultOps
    BY <1>3 DEF Exec, OpsFor
  <2>2. Lawful(L, "vault", base) /\ VaultShows(d, Post(L, base, q)) /\ VaultTables(d, L, q)
    BY <1>3 DEF Shows
  <2>3. PICK r \in {q, q + 1} \cap 0..Len(L) :
          /\ r = q + 1 => i = r
          /\ i <= r \/ op \notin Inserts
          /\ VaultShows(e, Post(L, base, r)) /\ VaultTables(e, L, r)
    BY <1>1, <1>3, <2>1, <2>2, VaultShown
  <2>4. Shows(which, e, L, base, r)
    BY <1>3, <2>3 DEF Shows
  <2>5. i <= r \/ ~ Advances(which, op, Does(L, i))
    BY <1>3, <2>3 DEF Advances
  <2> QED
    BY <2>3, <2>4, <2>5
<1> QED
  BY <1>2, <1>3

(* A write, also of what is remembered about it. *)
LEMMA WroteIs ==
  ASSUME WriteStatement
  PROVE  \/ StepFails /\ db' = db /\ written' = written
         \/ /\ Wrote(Head(events), Head(StatementsLeft(Head(events))),
                     Tail(StatementsLeft(Head(events))))
            /\ written' = Max({written, Head(events).block})
BY DEF WriteStatement, Wrote

LEMMA CoversWrite ==
  ASSUME Readable(ledger), cursor \in Nat, to \in Nat, saved \in Int, written \in Nat, late \subseteq Nat,
         IsSeq(events), events # <<>>,
         NEW q \in 0..Len(ledger), Covers(q), NEW i \in 1..Len(ledger),
         Head(events) = Decode(ledger, i, 1),
         NEW r \in {q, q + 1} \cap 0..Len(ledger), r = q + 1 => i = r,
         NEW rest, i <= r \/ rest # <<>>, i <= r \/ r = q,
         events' = IF rest = <<>> THEN Tail(events) ELSE events, to' = to,
         written' = Max({written, Head(events).block}),
         ledger' = ledger, cursor' = cursor, saved' = saved, late' = late
  PROVE  Covers(r)'
<1>1. /\ q # 0 => ledger[q].slot <= written
      /\ \A x \in {cursor, saved} \union late : Within(ledger, x, q)
      /\ Batched(ledger, events, cursor, to, q)
  BY DEF Covers
<1>2. q \in Nat /\ r \in Nat /\ q <= r
  OBVIOUS
<1>3. Head(events) = events[1] /\ Head(events).block = ledger[i].slot /\ ledger[i].slot \in Nat
  <2>1. Decode(ledger, i, 1).block = ledger[i].slot
    BY DEF Decode
  <2>2. Head(events) = events[1]
    BY HeadIsFirst
  <2> QED
    BY <2>1, <2>2 DEF Readable
<1>4. written <= written' /\ ledger[i].slot <= written' /\ written' \in Nat
  <2>1. PICK x, y, z : x = written /\ y = ledger[i].slot /\ z = written'
    OBVIOUS
  <2>2. x \in Nat /\ y \in Nat /\ z = Max({x, y})
    BY <1>3, <2>1
  <2>3. x \in Int /\ y \in Int
    BY <2>2
  <2>4. Max({x, y}) \in {x, y} /\ Max({x, y}) >= x /\ Max({x, y}) >= y
    BY ONLY <2>3, PairMax
  <2> QED
    BY ONLY <2>1, <2>2, <2>4
<1>5. r # 0 => ledger[r].slot <= written'
  <2>1. CASE r = q
    <3>1. ASSUME q # 0 PROVE ledger[q].slot <= written'
      <4>1. ledger[q].slot \in Nat
        BY <3>1 DEF Readable
      <4> QED
        BY <1>1, <1>4, <3>1, <4>1
    <3> QED
      BY <2>1, <3>1
  <2>2. CASE r = q + 1
    BY <1>4, <2>2
  <2> QED
    BY <2>1, <2>2
<1>6. \A x \in {cursor, saved} \union late : Within(ledger, x, r)
  BY <1>1, <1>2, WithinMore
<1>7. Batched(ledger, events', cursor, to, r)
  <2>1. CASE i <= r
    <3>1. events[1] = Decode(ledger, i, 1)
      BY <1>3
    <3>2. Batched(ledger, events, cursor, to, r) /\ Batched(ledger, Tail(events), cursor, to, r)
      BY <1>1, <1>2, <2>1, <3>1, BatchedAfter
    <3> QED
      BY <3>2
  <2>2. CASE ~ (i <= r)
    BY <1>1, <2>2
  <2> QED
    BY <2>1, <2>2
<1>8. PICK L : L = ledger
  OBVIOUS
<1>9. /\ r # 0 => L[r].slot <= written'
      /\ \A x \in {cursor', saved'} \union late' : Within(L, x, r)
      /\ Batched(L, events', cursor', to', r)
  BY <1>5, <1>6, <1>7, <1>8
<1> QED
  BY <1>8, <1>9 DEF Covers

---------------------------------------------------------------------------
(* The tables show the storage after some of the transactions, always. *)

ShownRight ==
  /\ start = 0
  /\ Lawful(ledger, contract, Deployed(contract))
  /\ contract = "governor" => NothingGoesBack(ledger)
  /\ \E q \in 0..Len(ledger) : Covers(q) /\ Shows(contract, db, ledger, Deployed(contract), q)
  /\ contract = "governor" /\ work # <<>> => work \in CreateLists

LEMMA ShownNext ==
  ASSUME contract' = contract, start' = 0, NEW L, L = ledger', NEW d, d = db',
         Lawful(L, contract, Deployed(contract)),
         contract = "governor" => NothingGoesBack(L),
         NEW q \in 0..Len(L), Covers(q)', Shows(contract, d, L, Deployed(contract), q),
         contract = "governor" /\ work' # <<>> => work' \in CreateLists
  PROVE  ShownRight'
<1>1. Deployed(contract)' = Deployed(contract)
  BY IdsSame DEF Deployed
<1>2. PICK base, which : base = Deployed(contract) /\ which = contract
  OBVIOUS
<1>3. base = Deployed(contract)' /\ which = contract'
  BY <1>1, <1>2
<1>4. /\ Lawful(L, which, base) /\ Shows(which, d, L, base, q)
      /\ which = "governor" => NothingGoesBack(L)
      /\ which = "governor" /\ work' # <<>> => work' \in CreateLists
  BY <1>2
<1>5. Lawful(ledger, contract, Deployed(contract))'
  BY <1>3, <1>4
<1>6. (contract = "governor" => NothingGoesBack(ledger))'
  BY <1>3, <1>4
<1>7. (\E n \in 0..Len(ledger) : Covers(n) /\ Shows(contract, db, ledger, Deployed(contract), n))'
  <2>1. q \in 0..Len(ledger')
    OBVIOUS
  <2>2. (Covers(q) /\ Shows(contract, db, ledger, Deployed(contract), q))'
    BY <1>3, <1>4
  <2> QED
    BY <2>1, <2>2
<1>8. (contract = "governor" /\ work # <<>> => work \in CreateLists)'
  BY <1>3, <1>4
<1>9. (start = 0)'
  OBVIOUS
<1> QED
  BY <1>5, <1>6, <1>7, <1>8, <1>9 DEF ShownRight

(* Nothing is shown of nothing. *)
LEMMA NoFlows ==
  ASSUME NEW u
  PROVE  SharesOf(<<>>, u) = 0 /\ AllOf(<<>>) = 0 /\ Counts(<<>>)
<1>1. PICK T : T = <<>>
  OBVIOUS
<1>2. DOMAIN T = {} /\ IsFiniteSet({})
  BY <1>1, FS_EmptySet
<1>3. {k \in DOMAIN T : T[k].user = u} = {}
  BY <1>2
<1>4. SharesOf(T, u) = FlowSum(T, {}) /\ AllOf(T) = FlowSum(T, {})
  BY <1>2, <1>3, SharesOfIs DEF AllOf
<1>5. FlowSum(T, {}) = Sum([k \in DOMAIN T |-> T[k].shares], {})
  BY <1>2, FlowIsSum
<1>6. Sum([k \in DOMAIN T |-> T[k].shares], {}) = 0
  BY <1>2, SumOfZeros
<1> QED
  BY <1>1, <1>2, <1>4, <1>5, <1>6 DEF Counts

LEMMA NothingShown ==
  ASSUME IsFiniteSet(Accounts), contract \in {"governor", "vault"}, NEW L
  PROVE  Shows(contract, EmptyTables, L, Deployed(contract), 0)
<1> DEFINE s == Deployed(contract)
<1>1. Post(L, s, 0) = s
  BY DEF Post
<1>2. CASE contract = "governor"
  <2>1. s.state = [p \in Ids |-> "none"] /\ s.cast = <<>>
    BY <1>2, DeployedIs
  <2>2. EmptyTables.proposals = <<>> /\ EmptyTables.votes = <<>>
    BY DEF EmptyTables
  <2>3. \A p \in DOMAIN s.state : s.state[p] = "none"
    BY <2>1
  <2>4. GovernorShows(EmptyTables, s)
    BY <2>1, <2>2, <2>3 DEF GovernorShows
  <2>5. VotesFrom(EmptyTables, L, 0)
    BY <2>2 DEF VotesFrom
  <2> QED
    BY <1>1, <1>2, <2>4, <2>5 DEF Shows
<1>3. CASE contract = "vault"
  <2>1. s.shares = [u \in Accounts |-> 0]
    BY <1>3, DeployedIs
  <2>2. EmptyTables.deposits = <<>> /\ EmptyTables.withdrawals = <<>>
    BY DEF EmptyTables
  <2> HIDE DEF s
  <2>3. Sum(s.shares, Accounts) = 0
    BY <2>1, SumOfZeros
  <2>4. VaultShows(EmptyTables, s)
    BY <2>1, <2>2, <2>3, NoFlows DEF VaultShows
  <2>5. VaultTables(EmptyTables, L, 0)
    BY <2>2, NoFlows DEF VaultTables, FlowsFrom
  <2> QED
    BY <1>1, <1>3, <2>4, <2>5 DEF Shows, s
<1> QED
  BY <1>2, <1>3

LEMMA ShownInit ==
  ASSUME IsFiniteSet(Accounts), MirrorInit, InOrder
  PROVE  ShownRight
<1>1. contract \in {"governor", "vault"} /\ contract \notin LateKinds
  BY InOrderOnEvm, MirrorAssumption
<1>2. /\ start = 0 /\ ledger = <<>> /\ db = EmptyTables /\ events = <<>> /\ work = <<>>
      /\ cursor = 0 /\ to = 0 /\ saved = NotSaved /\ late = {}
  BY <1>1 DEF MirrorInit
<1>3. Len(ledger) = 0 /\ 1..Len(ledger) = {}
  BY <1>2
<1>4. Lawful(ledger, contract, Deployed(contract)) /\ NothingGoesBack(ledger)
  BY <1>3 DEF Lawful, NothingGoesBack
<1>5. Covers(0)
  <2>1. \A x : Within(ledger, x, 0)
    BY <1>3 DEF Within
  <2>2. Batched(ledger, events, cursor, to, 0)
    BY <1>2, <1>3 DEF Batched
  <2> QED
    BY <2>1, <2>2 DEF Covers
<1>6. Shows(contract, db, ledger, Deployed(contract), 0)
  BY <1>1, <1>2, NothingShown
<1>7. 0 \in 0..Len(ledger)
  BY <1>3
<1> QED
  BY <1>2, <1>4, <1>5, <1>6, <1>7 DEF ShownRight

LEMMA ShownReads ==
  ASSUME IndexerTyped, InOrder, ShownRight,
         RestoreCursor \/ FetchBatch \/ CommitBatch \/ LoseStep \/ Crash \/ LateSave
  PROVE  ShownRight'
<1>1. PICK q \in 0..Len(ledger) : Covers(q) /\ Shows(contract, db, ledger, Deployed(contract), q)
  BY DEF ShownRight
<1>2. start = 0 /\ Lawful(ledger, contract, Deployed(contract))
  BY DEF ShownRight
<1>3. Covers(q)' /\ UNCHANGED chainVars /\ db' = db
  BY <1>1, <1>2, CoversReads
<1>4. /\ contract' = contract /\ start' = start /\ ledger' = ledger
  BY <1>3 DEF chainVars
<1>5. contract = "governor" /\ work' # <<>> => work' \in CreateLists
  <2>1. work' = <<>> \/ work' = work
    BY DEF RestoreCursor, FetchBatch, CommitBatch, LoseStep, Crash, LateSave, StepFails, processVars
  <2> QED
    BY <2>1 DEF ShownRight
<1>6. PICK L, d : L = ledger /\ d = db
  OBVIOUS
<1>7. L = ledger' /\ d = db' /\ start' = 0
  BY <1>2, <1>3, <1>4, <1>6
<1>8. /\ Lawful(L, contract, Deployed(contract)) /\ q \in 0..Len(L)
      /\ Shows(contract, d, L, Deployed(contract), q)
      /\ contract = "governor" => NothingGoesBack(L)
  BY <1>1, <1>2, <1>6 DEF ShownRight
<1> QED
  BY <1>3, <1>4, <1>5, <1>7, <1>8, ShownNext

(* What is shown depends on the transactions shown only. *)
LEMMA SameShowsOn ==
  ASSUME NEW which, NEW d, NEW L, NEW M, NEW base, NEW q \in Nat, \A i \in 1..q : M[i] = L[i],
         Shows(which, d, L, base, q)
  PROVE  Shows(which, d, M, base, q)
<1>1. Post(M, base, q) = Post(L, base, q)
  BY DEF Post
<1>2. \A i \in 1..q : Does(M, i) = Does(L, i) /\ (IsVote(M, i) <=> IsVote(L, i))
  BY DEF Does, IsVote
<1>3. VotesFrom(d, L, q) => VotesFrom(d, M, q)
  BY <1>2 DEF VotesFrom
<1>4. VaultTables(d, L, q) => VaultTables(d, M, q)
  BY <1>2 DEF VaultTables, FlowsFrom
<1> QED
  BY <1>1, <1>3, <1>4 DEF Shows

LEMMA ShownChain ==
  ASSUME IndexerTyped, IndexerTyped', InOrder, ShownRight, Idle, ChainNext, UNCHANGED mirrorVars,
         contract = "governor" => Governed(ledger, Ids)
  PROVE  ShownRight'
<1>1. PICK q \in 0..Len(ledger) : Covers(q) /\ Shows(contract, db, ledger, Deployed(contract), q)
  BY DEF ShownRight
<1>2. /\ start = 0 /\ Lawful(ledger, contract, Deployed(contract))
      /\ contract = "governor" => NothingGoesBack(ledger)
  BY DEF ShownRight
<1>3. contract' = contract /\ start' = 0
  BY <1>2, ChainFixed
<1>4. ChainTyped /\ contract \in {"governor", "vault"}
  BY InOrderOnEvm DEF IndexerTyped
<1>5. /\ Lawful(ledger', contract, Deployed(contract))
      /\ contract = "governor" => NothingGoesBack(ledger')
  BY <1>2, <1>4, LawfulNext
<1>6. /\ Covers(q)' /\ q \in 0..Len(ledger') /\ \A i \in 1..q : ledger'[i] = ledger[i]
  BY <1>1, CoversChain
<1>7. PICK L, M, d : L = ledger /\ M = ledger' /\ d = db
  OBVIOUS
<1>8. d = db' /\ work' = work
  BY <1>7 DEF mirrorVars, processVars
<1>9. Shows(contract, d, L, Deployed(contract), q) /\ q \in Nat /\ \A i \in 1..q : M[i] = L[i]
  BY <1>1, <1>6, <1>7
<1>10. Shows(contract, d, M, Deployed(contract), q)
  BY <1>9, SameShowsOn
<1>11. contract = "governor" /\ work' # <<>> => work' \in CreateLists
  BY <1>8 DEF ShownRight
<1>12. /\ Lawful(M, contract, Deployed(contract)) /\ q \in 0..Len(M)
       /\ contract = "governor" => NothingGoesBack(M)
  BY <1>5, <1>6, <1>7
<1> QED
  BY <1>3, <1>6, <1>7, <1>8, <1>10, <1>11, <1>12, ShownNext

LEMMA ShownFails ==
  ASSUME IndexerTyped, ShownRight, UNCHANGED chainVars, StepFails, db' = db, written' = written,
         cursor' = cursor, saved' = saved, late' = late
  PROVE  ShownRight'
<1>1. PICK q \in 0..Len(ledger) : Covers(q) /\ Shows(contract, db, ledger, Deployed(contract), q)
  BY DEF ShownRight
<1>2. to' = 0 /\ events' = <<>> /\ work' = <<>>
  BY DEF StepFails
<1>3. /\ cursor \in Nat /\ \A i \in 1..Len(ledger) : ledger[i].slot \in Nat
  BY DEF IndexerTyped, ChainTyped, ProcessTyped, Readable
<1>4. Batched(ledger, events', cursor', to', q)
  BY <1>2, <1>3, NoneBatched
<1>5. ledger' = ledger /\ contract' = contract /\ start' = start
  BY DEF chainVars
<1>6. Covers(q)'
  <2>1. \A x \in {cursor', saved'} \union late' : Within(ledger, x, q)
    BY <1>1 DEF Covers
  <2> QED
    BY <1>1, <1>4, <1>5, <2>1, CoversRest
<1>7. PICK L, d : L = ledger /\ d = db
  OBVIOUS
<1>8. L = ledger' /\ d = db' /\ start' = 0
  BY <1>5, <1>7 DEF ShownRight
<1>9. /\ Lawful(L, contract, Deployed(contract)) /\ q \in 0..Len(L)
      /\ Shows(contract, d, L, Deployed(contract), q)
      /\ contract = "governor" => NothingGoesBack(L)
  BY <1>1, <1>7 DEF ShownRight
<1> QED
  BY <1>2, <1>5, <1>6, <1>8, <1>9, ShownNext

(* The statement at hand is the last of its handler only if it shows the   *)
(* event.                                                                  *)
LEMMA LastAdvances ==
  ASSUME MirrorRight, LogsRight, ShownRight, InOrder, WriteStatement,
         NEW x, x = Head(events), x.ev.name \in Filters(contract),
         NEW todo, todo = StatementsLeft(x), NEW op, op = Head(todo)
  PROVE  /\ op \in OpsFor(contract, x.ev)
         /\ Tail(todo) = <<>> => Advances(contract, op, x.ev.name)
         /\ contract = "vault" /\ op \in Inserts => op = InsertOf(x.ev.name)
         /\ contract = "governor" /\ Tail(todo) # <<>> => Tail(todo) \in CreateLists
<1>1. contract \in {"governor", "vault"}
  BY InOrderOnEvm
<1>2. /\ todo # <<>> /\ op \in OpsFor(contract, x.ev)
      /\ contract = "governor" /\ Tail(todo) # <<>> => x.ev.name = "ProposalCreated"
  BY StatementFits DEF WriteStatement
<1>3. CASE contract = "governor"
  <2>1. x.ev.name \in GovernanceFilters /\ op \in GovernorOps(x.ev)
    BY <1>2, <1>3 DEF Filters, OpsFor
  <2>2. x.ev.name = "ProposalCreated" => todo \in CreateLists
    <3>1. ASSUME x.ev.name = "ProposalCreated", work = <<>> PROVE todo \in CreateLists
      <4>1. todo = HandleProposalCreated(known)
        BY <1>3, <3>1 DEF StatementsLeft, Dispatch, GovernanceHandler
      <4> QED
        BY <4>1, CreateIsList
    <3>2. ASSUME work # <<>> PROVE todo \in CreateLists
      BY <1>3, <3>2 DEF StatementsLeft, ShownRight
    <3> QED
      BY <3>1, <3>2
  <2>3. PICK ev : ev = x.ev
    OBVIOUS
  <2>4. /\ Tail(todo) = <<>> => op = AdvanceOf(ev.name)
        /\ ev.name = "ProposalCreated" /\ Tail(todo) # <<>> => Tail(todo) \in CreateLists
    BY <1>2, <2>1, <2>2, <2>3, GovernorEnds
  <2> QED
    BY <1>2, <1>3, <2>3, <2>4 DEF Advances
<1>4. CASE contract = "vault"
  <2>1. EndsWith(todo, x.ev.name)
    BY <1>1, DispatchEnds DEF StatementsLeft, LogsRight
  <2>2. x.ev.name \in Logged
    BY <1>4 DEF Filters, VaultFilters, Logged
  <2>3. PICK name : name = x.ev.name
    OBVIOUS
  <2>4. EndsWith(todo, name) /\ todo # <<>>
    BY <1>2, <2>1, <2>3
  <2>5. /\ Head(todo) \in Inserts => name \in Logged /\ Head(todo) = InsertOf(name)
        /\ name \in Logged /\ Tail(todo) = <<>> => Head(todo) \in Inserts
    BY ONLY <2>4, EndsTail
  <2> QED
    BY <1>2, <1>4, <2>2, <2>3, <2>5 DEF Advances
<1> QED
  BY <1>1, <1>3, <1>4

LEMMA ShownWrite ==
  ASSUME IsFiniteSet(Accounts), MirrorRight, LogsRight, InOrder, ShownRight, WriteStatement
  PROVE  ShownRight'
<1> DEFINE x == Head(events)
           todo == StatementsLeft(x)
           op == Head(todo)
           rest == Tail(todo)
           row == EventRow(x)
           base == Deployed(contract)
<1>1. /\ IndexerTyped /\ TablesAre(db) /\ Readable(ledger) /\ IsSeq(events) /\ cursor \in Nat
      /\ to \in Nat /\ saved \in Int /\ written \in Nat /\ late \subseteq Nat
      /\ contract = "governor" => GovernorRight
  <2>1. /\ final \in Nat /\ cursor \in 0..final /\ to \in 0..final /\ written \in 0..final
        /\ saved \in {NotSaved} \union 0..final /\ late \subseteq 1..final
    BY DEF MirrorRight, IndexerTyped, ChainTyped, ProcessTyped
  <2>2. /\ cursor \in Nat /\ to \in Nat /\ saved \in Int /\ written \in Nat /\ late \subseteq Nat
    BY <2>1 DEF NotSaved
  <2> QED
    BY <2>2 DEF MirrorRight, IndexerTyped, ChainTyped, ProcessTyped, BatchTyped
<1>2. /\ events # <<>> /\ saved' = saved /\ cursor' = cursor /\ late' = late
      /\ UNCHANGED chainVars
      /\ ledger' = ledger /\ start' = start /\ contract' = contract
  BY WriteIs DEF chainVars
<1>3. CASE StepFails /\ db' = db /\ written' = written
  BY <1>1, <1>2, <1>3, ShownFails
<1>4. CASE Wrote(x, op, rest) /\ written' = Max({written, x.block})
  <2>1. PICK q \in 0..Len(ledger) : Covers(q) /\ Shows(contract, db, ledger, base, q)
    BY DEF ShownRight
  <2>2. contract \in {"governor", "vault"} /\ Lawful(ledger, contract, base) /\ start = 0
    BY InOrderOnEvm DEF ShownRight
  <2>3. x = events[1] /\ 1 \in 1..Len(events)
    BY <1>1, <1>2, HeadIsFirst
  <2>4. PICK i \in 1..Len(ledger) : x = Decode(ledger, i, 1) /\ ledger[i].slot \in (cursor + 1)..to
    BY <2>1, <2>3 DEF Covers, Batched
  <2>5. i <= q + 1
    <3>1. Within(ledger, cursor, q) /\ Batched(ledger, events, cursor, to, q)
      BY <2>1 DEF Covers
    <3>2. events[1] = Decode(ledger, i, 1)
      BY <2>3, <2>4
    <3>3. q \in Nat
      BY <2>1
    <3>4. /\ Readable(ledger) /\ cursor \in Nat /\ to \in Nat
          /\ IsSeq(events) /\ events # <<>>
      BY <1>1, <1>2
    <3>5. ledger[i].slot \in (cursor + 1)..to
      BY <2>4
    <3> QED
      BY ONLY <3>1, <3>2, <3>3, <3>4, <3>5, AtMostNext
  <2>6. /\ x.ev = ledger[i].events[1] /\ x.ev.name = Does(ledger, i)
        /\ x.ev.name \in Filters(contract) /\ "id" \in DOMAIN ledger[i].events[1]
    <3>1. x.ev = ledger[i].events[1]
      <4>1. Decode(ledger, i, 1).ev = ledger[i].events[1]
        BY DecodeIs
      <4> QED
        BY ONLY <2>4, <4>1
    <3>2. ledger[i].events[1].name \in Filters(contract)
      BY <2>2, LawfulNames
    <3>3. "id" \in DOMAIN ledger[i].events[1]
      <4>1. CASE contract = "governor"
        <5>1. GovernorEntry(ledger[i], Ids)
          BY <1>1, <4>1 DEF GovernorRight, Governed
        <5> QED
          BY <5>1 DEF GovernorEntry
      <4>2. CASE contract = "vault"
        <5>1. Moves("vault", ledger[i].events[1], Post(ledger, base, i - 1), ledger[i].post)
          BY <2>2, <4>2 DEF Lawful
        <5> QED
          BY <5>1 DEF Moves, VaultMoves
      <4> QED
        BY <2>2, <4>1, <4>2
    <3> QED
      BY <3>1, <3>2, <3>3 DEF Does
  <2>7. /\ op \in OpsFor(contract, x.ev)
        /\ rest = <<>> => Advances(contract, op, x.ev.name)
        /\ contract = "vault" /\ op \in Inserts => op = InsertOf(x.ev.name)
        /\ contract = "governor" /\ rest # <<>> => rest \in CreateLists
    BY <2>6, LastAdvances
  <2>8. /\ db' = Exec(contract, db, op, row) /\ work' = rest /\ to' = to
        /\ events' = IF rest = <<>> THEN Tail(events) ELSE events
    BY <1>4 DEF Wrote
  <2> HIDE DEF x, todo, op, rest, row, base
  <2>9. PICK L, d, e : L = ledger /\ d = db /\ e = db'
    OBVIOUS
  <2>10. /\ Len(L) \in Nat /\ Lawful(L, contract, base) /\ TablesAre(d)
         /\ contract = "governor" => NothingGoesBack(L) /\ Tallied(d)
         /\ Shows(contract, d, L, base, q) /\ q \in 0..Len(L)
    BY <1>1, <2>1, <2>2, <2>9, LengthIsNat DEF ShownRight, GovernorRight, Readable
  <2>11. /\ i \in 1..Len(L) /\ row = EventRow(Decode(L, i, 1)) /\ "id" \in DOMAIN L[i].events[1]
         /\ op \in OpsFor(contract, L[i].events[1]) /\ e = Exec(contract, d, op, row)
         /\ contract = "vault" /\ op \in Inserts => op = InsertOf(Does(L, i))
    BY <2>4, <2>6, <2>7, <2>8, <2>9 DEF row
  <2>12. PICK r \in {q, q + 1} \cap 0..Len(L) :
           /\ r = q + 1 => i = r
           /\ i <= r \/ ~ Advances(contract, op, Does(L, i))
           /\ Shows(contract, e, L, base, r)
    BY <2>2, <2>5, <2>10, <2>11, WriteShows
  <2>13. (i <= r \/ rest # <<>>) /\ (i <= r \/ r = q)
    BY <2>6, <2>7, <2>9, <2>12
  <2>14. Covers(r)'
    <3>1. r \in {q, q + 1} \cap 0..Len(ledger) /\ (r = q + 1 => i = r) /\ Head(events) = Decode(ledger, i, 1)
      BY <2>4, <2>9, <2>12 DEF x
    <3>2. written' = Max({written, Head(events).block})
      BY <1>4 DEF x
    <3> QED
      BY <1>1, <1>2, <2>1, <2>8, <2>13, <3>1, <3>2, CoversWrite
  <2>15. /\ L = ledger' /\ start' = 0 /\ r \in 0..Len(L)
         /\ contract = "governor" /\ work' # <<>> => work' \in CreateLists
    BY <1>2, <2>2, <2>7, <2>8, <2>9, <2>12
  <2> QED
    BY <1>2, <2>9, <2>10, <2>12, <2>14, <2>15, ShownNext DEF base
<1> QED
  BY <1>3, <1>4, WroteIs

LEMMA ShownStep ==
  ASSUME IsFiniteSet(Accounts), MirrorRight, LogsRight, InOrder, ShownRight,
         [MirrorNext]_indexerVars
  PROVE  ShownRight'
<1>1. IndexerTyped /\ IndexerTyped' /\ (contract = "governor" => Governed(ledger, Ids))
  BY IndexerStepTyped DEF MirrorRight, GovernorRight
<1>2. CASE UNCHANGED indexerVars
  <2>1. UNCHANGED <<contract, start, ledger, db, written, cursor, to, events, work, saved, late>>
    BY <1>2 DEF indexerVars, chainVars, mirrorVars, processVars
  <2>2. PICK q \in 0..Len(ledger) : Covers(q) /\ Shows(contract, db, ledger, Deployed(contract), q)
    BY DEF ShownRight
  <2>3. Covers(q)'
    BY <2>1, <2>2 DEF Covers
  <2>4. PICK L, d : L = ledger /\ d = db
    OBVIOUS
  <2>5. L = ledger' /\ d = db' /\ start' = 0 /\ contract' = contract
    BY <2>1, <2>4 DEF ShownRight
  <2>6. /\ Lawful(L, contract, Deployed(contract)) /\ q \in 0..Len(L)
        /\ Shows(contract, d, L, Deployed(contract), q)
        /\ contract = "governor" => NothingGoesBack(L)
        /\ contract = "governor" /\ work' # <<>> => work' \in CreateLists
    BY <2>1, <2>2, <2>4 DEF ShownRight
  <2> QED
    BY <2>3, <2>5, <2>6, ShownNext
<1> QED
  BY <1>1, <1>2, ShownWrite, ShownReads, ShownChain DEF MirrorNext, Process

(* Two families of tables that show a reader the same. *)
SameRow(r, s) ==
  /\ DOMAIN r \ {"at"} = DOMAIN s \ {"at"}
  /\ \A c \in DOMAIN r \ {"at"} : r[c] = s[c]

SameTables(A, B) ==
  /\ DOMAIN A = DOMAIN B
  /\ \A t \in DOMAIN A :
       /\ DOMAIN A[t] = DOMAIN B[t]
       /\ \A k \in DOMAIN A[t] : SameRow(A[t][k], B[t][k])

LEMMA CellIs ==
  ASSUME NEW A, NEW z
  PROVE  z \in Cells(A) <=>
           \E t \in DOMAIN A : \E k \in DOMAIN A[t] : \E c \in DOMAIN A[t][k] \ {"at"} :
              z = <<t, k, c, A[t][k][c]>>
BY DEF Cells

LEMMA FewerCells ==
  ASSUME NEW A, NEW B, SameTables(A, B), NEW z \in Cells(A)
  PROVE  z \in Cells(B)
<1>1. PICK t \in DOMAIN A : \E k \in DOMAIN A[t] : \E c \in DOMAIN A[t][k] \ {"at"} :
              z = <<t, k, c, A[t][k][c]>>
  BY CellIs
<1>2. PICK k \in DOMAIN A[t] : \E c \in DOMAIN A[t][k] \ {"at"} : z = <<t, k, c, A[t][k][c]>>
  BY <1>1
<1>3. PICK c \in DOMAIN A[t][k] \ {"at"} : z = <<t, k, c, A[t][k][c]>>
  BY <1>2
<1>4. t \in DOMAIN B /\ k \in DOMAIN B[t] /\ SameRow(A[t][k], B[t][k])
  BY DEF SameTables
<1>5. c \in DOMAIN B[t][k] \ {"at"} /\ A[t][k][c] = B[t][k][c]
  BY <1>4 DEF SameRow
<1> QED
  BY <1>3, <1>4, <1>5, CellIs

LEMMA SameCells ==
  ASSUME NEW A, NEW B, SameTables(A, B)
  PROVE  Cells(A) = Cells(B)
<1>1. SameTables(B, A)
  BY DEF SameTables, SameRow
<1>2. \A z \in Cells(A) : z \in Cells(B)
  BY FewerCells
<1>3. \A z \in Cells(B) : z \in Cells(A)
  BY <1>1, FewerCells
<1> QED
  BY <1>2, <1>3

LEMMA GovernorMirrorIs ==
  ASSUME contract = "governor", NEW s
  PROVE  MirrorOf(s) =
           [proposals |-> [p \in Live(s.state, "none") |-> ProposalRow(s, p)],
            votes     |-> [c \in DOMAIN s.cast |->
                              [support |-> s.cast[c], weight |-> Weight[c[2]]]]]
BY DEF MirrorOf

(* The governor's tables show its storage, tallies included. *)
LEMMA GovernorCells ==
  ASSUME contract = "governor", NEW d, d = db, Tallied(d), NEW s, GovernorShows(d, s)
  PROVE  Cells(Served) = Cells(MirrorOf(s))
<1> DEFINE B == [proposals |-> [p \in Live(s.state, "none") |-> ProposalRow(s, p)],
                 votes     |-> [c \in DOMAIN s.cast |->
                                 [support |-> s.cast[c], weight |-> Weight[c[2]]]]]
           A == [t \in {"proposals", "votes"} |-> d[t]]
<1>1. MirrorOf(s) = B
  BY GovernorMirrorIs
<1>2. Served = A
  <2>1. DOMAIN MirrorOf(Deployed(contract)) = {"proposals", "votes"}
    BY GovernorMirrorIs
  <2> QED
    BY <2>1 DEF Served
<1>3. DOMAIN A = {"proposals", "votes"} /\ DOMAIN B = {"proposals", "votes"}
  OBVIOUS
<1>4. A["proposals"] = d.proposals /\ A["votes"] = d.votes
  OBVIOUS
<1>5. DOMAIN d.proposals = DOMAIN B["proposals"]
  BY DEF GovernorShows, Live
<1>6. DOMAIN d.votes = DOMAIN B["votes"]
  BY DEF GovernorShows
<1>7. ASSUME NEW p \in DOMAIN d.proposals
      PROVE  SameRow(d.proposals[p], B["proposals"][p])
  <2>1. d.proposals[p] = [state |-> d.proposals[p].state, for |-> VotesOf(d, p, "for"),
                          against |-> VotesOf(d, p, "against")]
    BY DEF Tallied
  <2>2. d.proposals[p].state = s.state[p]
    BY DEF GovernorShows
  <2>3. VotesOf(d, p, "for") = Tally(s, p, "for") /\ VotesOf(d, p, "against") = Tally(s, p, "against")
    BY TalliesAgree DEF Tallied
  <2>4. d.proposals[p] = ProposalRow(s, p)
    BY <2>1, <2>2, <2>3 DEF ProposalRow
  <2>5. B["proposals"][p] = ProposalRow(s, p)
    BY <1>5
  <2> QED
    BY <2>4, <2>5 DEF SameRow
<1>8. ASSUME NEW v \in DOMAIN d.votes
      PROVE  SameRow(d.votes[v], B["votes"][v])
  <2>1. d.votes[v] = [support |-> s.cast[v], weight |-> Weight[v[2]], at |-> d.votes[v].at]
    BY DEF GovernorShows
  <2>2. B["votes"][v] = [support |-> s.cast[v], weight |-> Weight[v[2]]]
    BY <1>6
  <2>3. PICK r, z : r = d.votes[v] /\ z = d.votes[v].at
    OBVIOUS
  <2>4. r = [support |-> s.cast[v], weight |-> Weight[v[2]], at |-> z]
    BY <2>1, <2>3
  <2>5. /\ DOMAIN r = {"support", "weight", "at"} /\ r["support"] = s.cast[v]
        /\ r["weight"] = Weight[v[2]]
    BY ONLY <2>4
  <2>6. SameRow(r, [support |-> s.cast[v], weight |-> Weight[v[2]]])
    BY ONLY <2>5 DEF SameRow
  <2> QED
    BY <2>2, <2>3, <2>6
<1> HIDE DEF A, B
<1>9. SameTables(A, B)
  BY <1>3, <1>4, <1>5, <1>6, <1>7, <1>8 DEF SameTables
<1> QED
  BY <1>1, <1>2, <1>9, SameCells

(* What the users of the vault hold together. *)
Holdings(s) == MapThenSumSet(LAMBDA u : s.shares[u], Accounts)

LEMMA HoldingsAre == ASSUME NEW s PROVE Holdings(s) = Sum(s.shares, Accounts)
BY DEF Holdings, MapThenSumSet, MapThenFoldSet, Sum, Adds, SomeOf

LEMMA VaultMirrorIs ==
  ASSUME contract = "vault", NEW s
  PROVE  MirrorOf(s) =
           [positions |-> [u \in Accounts |-> [shares |-> s.shares[u]]],
            tvl       |-> [t \in {"tvl"} |-> [amount |-> Holdings(s)]]]
BY DEF MirrorOf, Holdings

LEMMA TVLIs == VaultTVL(db) = AllOf(db.deposits) - AllOf(db.withdrawals)
BY DEF VaultTVL, AllOf, FlowSum

LEMMA VaultCells ==
  ASSUME contract = "vault", NEW d, d = db, NEW s, VaultShows(d, s)
  PROVE  Served = MirrorOf(s)
<1>1. \A u \in Accounts : VaultPosition(db, u) = s.shares[u]
  BY DEF VaultShows, VaultPosition
<1>2. VaultTVL(db) = Holdings(s)
  BY TVLIs, HoldingsAre DEF VaultShows
<1>3. Served = [positions |-> [u \in Accounts |-> [shares |-> VaultPosition(db, u)]],
                tvl       |-> [t \in {"tvl"} |-> [amount |-> VaultTVL(db)]]]
  BY DEF Served
<1> QED
  BY <1>1, <1>2, <1>3, VaultMirrorIs, ZenonT(60)

(* The storage at a block. *)
LEMMA StorageAtIs ==
  ASSUME Readable(ledger), NEW b \in Nat, NEW q \in 0..Len(ledger), Within(ledger, b, q),
         q # 0 => ledger[q].slot <= b
  PROVE  StorageAt(b) = Post(ledger, Deployed(contract), q)
<1> DEFINE past == {i \in DOMAIN ledger : ledger[i].slot <= b}
<1>1. DOMAIN ledger = 1..Len(ledger) /\ Len(ledger) \in Nat
  BY LengthIsNat DEF Readable
<1>2. \A i \in past : i \in Nat /\ i <= q
  BY <1>1 DEF Within
<1>3. CASE q = 0
  <2>1. past = {}
    BY <1>1, <1>2, <1>3
  <2> QED
    BY <1>3, <2>1 DEF StorageAt, Post
<1>4. CASE q # 0
  <2>1. q \in past
    BY <1>1, <1>4
  <2>2. Max(past) = q
    BY <1>2, <2>1 DEF Max
  <2> QED
    BY <1>4, <2>1, <2>2 DEF StorageAt, Post
<1> QED
  BY <1>3, <1>4

LEMMA ResumedIs ==
  ASSUME IndexerTyped, start = 0, NEW q, Covers(q)
  PROVE  Resumed \in Nat /\ Within(ledger, Resumed, q)
<1>1. /\ cursor \in Nat /\ saved \in Int /\ saved >= -1 /\ up \in BOOLEAN
      /\ head \in Nat /\ \A i \in 1..Len(ledger) : ledger[i].slot \in 1..head
  BY MirrorConstants DEF IndexerTyped, ChainTyped, ProcessTyped, NotSaved
<1>2. Within(ledger, cursor, q) /\ Within(ledger, saved, q) /\ Within(ledger, 0, q)
  BY <1>1, WithinNone DEF Covers
<1>3. CASE up
  BY <1>1, <1>2, <1>3 DEF Resumed
<1>4. CASE ~ up
  <2>1. PICK x, y : x = saved /\ y = start
    OBVIOUS
  <2>2. x \in Int /\ y \in Int /\ y = 0
    BY <1>1, <2>1
  <2>3. Max({x, y}) \in {x, y} /\ Max({x, y}) >= y
    BY ONLY <2>2, PairMax
  <2>4. Resumed = Max({x, y})
    BY <1>4, <2>1 DEF Resumed
  <2> QED
    BY <1>1, <1>2, <2>1, <2>2, <2>3, <2>4
<1> QED
  BY <1>1, <1>3, <1>4

(* The storage the tables show is in the window. *)
LEMMA ShownInWindow ==
  ASSUME IndexerTyped, start = 0, NEW q \in 0..Len(ledger), Covers(q)
  PROVE  Cells(MirrorOf(Post(ledger, Deployed(contract), q))) \in Window
<1>1. Resumed \in Nat /\ Within(ledger, Resumed, q)
  BY ResumedIs
<1>2. Readable(ledger) /\ DOMAIN ledger = 1..Len(ledger) /\ Len(ledger) \in Nat
  BY LengthIsNat DEF IndexerTyped, ChainTyped, Readable
<1>3. CASE q = 0 \/ ledger[q].slot <= Resumed
  <2>1. StorageAt(Resumed) = Post(ledger, Deployed(contract), q)
    BY <1>1, <1>2, <1>3, StorageAtIs
  <2> QED
    BY <2>1 DEF Window
<1>4. CASE q # 0 /\ ledger[q].slot > Resumed
  <2>1. q \in DOMAIN ledger /\ ledger[q].slot <= written
    BY <1>2, <1>4 DEF Covers
  <2>2. Post(ledger, Deployed(contract), q) = ledger[q].post
    BY <1>4 DEF Post
  <2> QED
    BY <1>4, <2>1, <2>2 DEF Window
<1>5. q # 0 => ledger[q].slot \in Nat
  BY <1>2 DEF Readable
<1> QED
  BY <1>1, <1>3, <1>4, <1>5

LEMMA ShownAgrees ==
  ASSUME MirrorRight, InOrder, ShownRight
  PROVE  MirrorAgrees
<1>1. IndexerTyped /\ start = 0 /\ (contract = "governor" => Tallied(db))
  BY DEF MirrorRight, GovernorRight, ShownRight
<1>2. PICK q \in 0..Len(ledger) : Covers(q) /\ Shows(contract, db, ledger, Deployed(contract), q)
  BY DEF ShownRight
<1>3. PICK s : s = Post(ledger, Deployed(contract), q)
  OBVIOUS
<1>4. Cells(MirrorOf(s)) \in Window
  BY <1>1, <1>2, <1>3, ShownInWindow
<1>5. Cells(Served) = Cells(MirrorOf(s))
  <2>1. PICK d : d = db
    OBVIOUS
  <2>2. CASE contract = "governor"
    <3>1. GovernorShows(d, s) /\ Tallied(d)
      BY <1>1, <1>2, <1>3, <2>1, <2>2 DEF Shows
    <3> QED
      BY <2>1, <2>2, <3>1, GovernorCells
  <2>3. CASE contract = "vault"
    <3>1. VaultShows(d, s)
      BY <1>2, <1>3, <2>1, <2>3 DEF Shows
    <3> QED
      BY <2>1, <2>3, <3>1, VaultCells
  <2> QED
    BY <2>2, <2>3, InOrderOnEvm
<1>6. PICK served : served = Cells(Served)
  OBVIOUS
<1>7. served \in Window
  BY <1>4, <1>5, <1>6
<1> QED
  BY ONLY <1>6, <1>7 DEF MirrorAgrees

LEMMA FollowsOneContract == [MirrorNext]_indexerVars => contract' = contract
<1>1. Process \/ LoseStep \/ Crash \/ LateSave => contract' = contract
  BY DEF Process, RestoreCursor, FetchBatch, WriteStatement, CommitBatch, LoseStep, Crash,
         LateSave, chainVars
<1>2. UNCHANGED indexerVars => contract' = contract
  BY DEF indexerVars, chainVars
<1> QED
  BY <1>1, <1>2, ChainFixed DEF MirrorNext

(* What the tables of the governor and of an EVM vault serve is what the   *)
(* contract's storage held at the cursor's block or between it and the     *)
(* last block written, whatever failed, was replayed or landed late, and   *)
(* however often.                                                          *)
THEOREM MirrorAgreesInOrder == MirrorSpec => [](InOrder => MirrorAgrees)
<1> DEFINE Inv == MirrorRight /\ LogsRight /\ (InOrder => ShownRight)
<1>1. IsFiniteSet(Accounts)
  BY ContractsAssumption
<1>2. MirrorInit => Inv
  BY <1>1, MirrorInitRight, LogsInit, ShownInit
<1>3. Inv /\ [MirrorNext]_indexerVars => Inv'
  <2> SUFFICES ASSUME Inv, [MirrorNext]_indexerVars PROVE Inv'
    OBVIOUS
  <2>1. MirrorRight' /\ LogsRight'
    BY MirrorStepRight, LogsStep
  <2>2. contract' = contract
    BY FollowsOneContract
  <2>3. InOrder' => InOrder
    BY <2>2 DEF InOrder
  <2> QED
    BY <1>1, <2>1, <2>3, ShownStep
<1>4. Inv => (InOrder => MirrorAgrees)
  BY ShownAgrees
<1> HIDE DEF Inv
<1> QED
  BY <1>2, <1>3, <1>4, PTL DEF MirrorSpec
=============================================================================
