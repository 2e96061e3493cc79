-------------------------- MODULE OracleRoundsProofs --------------------------
(***************************************************************************)
(* Theorems about OracleRounds, for any number of nodes, feeds and rounds, *)
(* any prices and any parameters.                                          *)
(***************************************************************************)
EXTENDS OracleRounds, DataFacts, TLAPS

(* A round with the settled value left open: what Median returns matters   *)
(* only at the end, where PricesSound says it.                             *)
RoundOf(V) ==
  [feedId : Feeds \cup {NoFeed}, deadline : Nat, settledAt : Nat,
   state : RoundState, nodeSetVersion : 0..MaxVersion,
   eligibleCount : Nat, aggregatedValue : V]

Typed ==
  /\ Registry!TypeOK
  /\ now \in Nat
  /\ nextRoundId \in 1..(MaxRounds + 1)
  /\ feeds \in [Feeds -> Feed]
  /\ \E V : rounds \in [RoundIds -> RoundOf(V)]
  /\ roundValues \in [RoundIds -> Seq(Values)]
  /\ submitted \in [RoundIds -> SUBSET Nodes]
  /\ nonces \in [Nodes -> Nat]
  /\ roundDuration \in Durations
  /\ snapshot \in [RoundIds -> SUBSET Nodes]

(* Rounds are opened in order; one that is still to come is blank. *)
OpenedInOrder ==
  \A r \in RoundIds :
    /\ r >= nextRoundId => /\ rounds[r].state = "NONE"
                           /\ submitted[r] = {}
                           /\ roundValues[r] = <<>>
    /\ r < nextRoundId => rounds[r].feedId \in Feeds

(* The version a round froze stands for its snapshot, less whoever left.   *)
SnapshotFrozen ==
  \A r \in RoundIds : r < nextRoundId =>
    /\ rounds[r].nodeSetVersion <= version
    /\ Registry!EligibleAt(rounds[r].nodeSetVersion) \subseteq snapshot[r]
    /\ rounds[r].eligibleCount = Cardinality(snapshot[r])
    /\ Cardinality(snapshot[r]) <= Ceiling

(* Flags and values are written together, each for a snapshot member. *)
AnswersMatch ==
  \A r \in RoundIds :
    /\ submitted[r] \subseteq snapshot[r]
    /\ Len(roundValues[r]) = Cardinality(submitted[r])

(* What a feed's record says of its rounds. *)
FeedsPoint ==
  \A f \in Feeds :
    LET current == feeds[f].currentRoundId
        last == feeds[f].lastSettledRoundId
    IN /\ current < nextRoundId
       /\ last <= current
       /\ last # 0 => rounds[last].state = "SETTLED"

RoundsInv ==
  /\ Typed
  /\ Registry!VersionsSound
  /\ OpenedInOrder
  /\ SnapshotFrozen
  /\ AnswersMatch
  /\ FeedsPoint
  /\ OneLiveRoundPerFeed
  /\ NoncesCountSubmissions

-----------------------------------------------------------------------------
(* The registry. *)

LEMMA SameCardinality == \A S : Registry!Cardinality(S) = Cardinality(S)
BY DEF Cardinality, Registry!Cardinality

LEMMA SubsetFinite ==
  ASSUME NEW S \in SUBSET Nodes
  PROVE  IsFiniteSet(S) /\ Cardinality(S) \in Nat
BY FS_Subset, FS_CardinalityType, RoundsAssumption DEF RoundsAssumption

LEMMA JoinKeepsSnapshots ==
  ASSUME Registry!TypeOK, Registry!VersionsSound,
         NEW n \in Nodes, Registry!Join(n)
  PROVE  /\ Registry!TypeOK'
         /\ Registry!VersionsSound'
         /\ version <= version'
         /\ \A v \in 0..version :
              Registry!EligibleAt(v)' \subseteq Registry!EligibleAt(v)
<1>1. /\ version' = version + 1 /\ version < MaxVersion
      /\ active' = active \cup {n} /\ n \notin active
      /\ activatedAt' = [activatedAt EXCEPT ![n] = version + 1]
      /\ Cardinality(active) < Ceiling
  BY SameCardinality DEF Registry!Join
<1>2. version \in Nat /\ MaxVersion \in Nat /\ Ceiling \in Nat
  BY RoundsAssumption DEF RoundsAssumption, Registry!TypeOK
<1>3. Registry!TypeOK'
  BY <1>1, <1>2 DEF Registry!TypeOK
<1>4. Cardinality(active') <= Ceiling
  <2>1. IsFiniteSet(active) /\ Cardinality(active) \in Nat
    BY SubsetFinite DEF Registry!TypeOK
  <2>2. Cardinality(active') = Cardinality(active) + 1
    BY <1>1, <2>1, FS_AddElement
  <2> QED
    BY <1>1, <1>2, <2>1, <2>2
<1>5. Registry!VersionsSound'
  BY <1>1, <1>2, <1>4, SameCardinality
     DEF Registry!VersionsSound, Registry!TypeOK
<1>6. ASSUME NEW v \in 0..version
      PROVE  Registry!EligibleAt(v)' \subseteq Registry!EligibleAt(v)
  BY <1>1, <1>2 DEF Registry!EligibleAt, Registry!TypeOK
<1> QED
  BY <1>1, <1>2, <1>3, <1>5, <1>6

LEMMA LeaveKeepsSnapshots ==
  ASSUME Registry!TypeOK, Registry!VersionsSound,
         NEW n \in Nodes, Registry!Leave(n)
  PROVE  /\ Registry!TypeOK'
         /\ Registry!VersionsSound'
         /\ version <= version'
         /\ \A v \in 0..version :
              Registry!EligibleAt(v)' \subseteq Registry!EligibleAt(v)
<1>1. /\ version' = version + 1 /\ version < MaxVersion
      /\ active' = active \ {n} /\ activatedAt' = activatedAt
  BY DEF Registry!Leave
<1>2. version \in Nat /\ MaxVersion \in Nat /\ Ceiling \in Nat
  BY RoundsAssumption DEF RoundsAssumption, Registry!TypeOK
<1>3. Registry!TypeOK'
  BY <1>1, <1>2 DEF Registry!TypeOK
<1>4. Cardinality(active') <= Ceiling
  <2>1. IsFiniteSet(active) /\ Cardinality(active) \in Nat
    BY SubsetFinite DEF Registry!TypeOK
  <2>2. Cardinality(active) <= Ceiling
    BY SameCardinality DEF Registry!VersionsSound
  <2>3. Cardinality(active') <= Cardinality(active)
    BY <1>1, <2>1, FS_Subset
  <2>4. Cardinality(active') \in Nat
    BY <1>3, SubsetFinite DEF Registry!TypeOK
  <2> QED
    BY <1>2, <2>1, <2>2, <2>3, <2>4
<1>5. Registry!VersionsSound'
  BY <1>1, <1>2, <1>4, SameCardinality
     DEF Registry!VersionsSound, Registry!TypeOK
<1>6. ASSUME NEW v \in 0..version
      PROVE  Registry!EligibleAt(v)' \subseteq Registry!EligibleAt(v)
  BY <1>1 DEF Registry!EligibleAt
<1> QED
  BY <1>1, <1>2, <1>3, <1>5, <1>6

LEMMA RegistryShrinks ==
  ASSUME Registry!TypeOK, Registry!VersionsSound,
         [Registry!Next]_(Registry!vars)
  PROVE  /\ Registry!TypeOK'
         /\ Registry!VersionsSound'
         /\ version <= version'
         /\ \A v \in 0..version :
              Registry!EligibleAt(v)' \subseteq Registry!EligibleAt(v)
<1>1. CASE Registry!Next
  BY <1>1, JoinKeepsSnapshots, LeaveKeepsSnapshots DEF Registry!Next
<1>2. CASE UNCHANGED Registry!vars
  <2>1. active' = active /\ activatedAt' = activatedAt /\ version' = version
    BY <1>2 DEF Registry!vars
  <2> QED
    BY <2>1, SameCardinality
       DEF Registry!TypeOK, Registry!VersionsSound, Registry!EligibleAt
<1> QED
  BY <1>1, <1>2

LEMMA RegistryInitSound ==
  Registry!Init => Registry!TypeOK /\ Registry!VersionsSound
<1>1. Cardinality({}) = 0
  BY FS_EmptySet
<1> QED
  BY <1>1, SameCardinality, RoundsAssumption
     DEF Registry!Init, Registry!TypeOK, Registry!VersionsSound,
         RoundsAssumption

(* No history of the registry brings a node back into a snapshot that it   *)
(* has left, or adds one to it.                                            *)
THEOREM SnapshotsShrink == Registry!Spec => Registry!SnapshotOnlyShrinks
<1>1. /\ Registry!TypeOK /\ Registry!VersionsSound
      /\ [Registry!Next]_(Registry!vars)
      => Registry!TypeOK' /\ Registry!VersionsSound' /\ Registry!Shrinks
  BY RegistryShrinks DEF Registry!Shrinks
<1> QED
  BY <1>1, RegistryInitSound, PTL
     DEF Registry!Spec, Registry!SnapshotOnlyShrinks

-----------------------------------------------------------------------------
(* The steps of the contract, one lemma each. *)

LEMMA LiveIsOpened ==
  ASSUME RoundsInv, NEW r \in RoundIds, IsLive(rounds[r].state)
  PROVE  r < nextRoundId /\ rounds[r].feedId \in Feeds
<1>1. r \in Nat /\ nextRoundId \in Nat
  BY RoundsAssumption DEF RoundsAssumption, RoundsInv, Typed, RoundIds
<1>2. ~(r >= nextRoundId)
  BY DEF RoundsInv, OpenedInOrder, IsLive
<1> QED
  BY <1>1, <1>2 DEF RoundsInv, OpenedInOrder

(* Only the registry, the clock, the parameters or a feed's flag changes. *)
Aside ==
  /\ [Registry!Next]_(Registry!vars)
  /\ now' \in Nat
  /\ roundDuration' \in Durations
  /\ UNCHANGED <<nextRoundId, rounds, roundValues, submitted, nonces, snapshot>>
  /\ feeds' \in [Feeds -> Feed]
  /\ \A f \in Feeds :
       /\ feeds'[f].currentRoundId = feeds[f].currentRoundId
       /\ feeds'[f].lastSettledRoundId = feeds[f].lastSettledRoundId

LEMMA AsideKeepsInv ==
  ASSUME RoundsInv, Aside
  PROVE  RoundsInv'
<1>1. /\ Registry!TypeOK'
      /\ Registry!VersionsSound'
      /\ version <= version'
      /\ \A v \in 0..version :
           Registry!EligibleAt(v)' \subseteq Registry!EligibleAt(v)
  BY RegistryShrinks DEF RoundsInv, Typed, Aside
<1>2. Typed'
  BY <1>1 DEF RoundsInv, Typed, Aside
<1>3. OpenedInOrder'
  BY DEF RoundsInv, OpenedInOrder, Aside
<1>4. SnapshotFrozen'
  <2> SUFFICES ASSUME NEW r \in RoundIds, r < nextRoundId
               PROVE  /\ rounds[r].nodeSetVersion <= version'
                      /\ Registry!EligibleAt(rounds[r].nodeSetVersion)'
                           \subseteq snapshot[r]
                      /\ rounds[r].eligibleCount = Cardinality(snapshot[r])
                      /\ Cardinality(snapshot[r]) <= Ceiling
    BY DEF SnapshotFrozen, Aside
  <2>1. rounds[r].nodeSetVersion \in Nat
    BY DEF RoundsInv, Typed, RoundOf
  <2>2. version \in Nat /\ version' \in Nat
    BY <1>1 DEF RoundsInv, Typed, Registry!TypeOK
  <2>3. PICK v \in 0..version : v = rounds[r].nodeSetVersion
    BY <2>1, <2>2 DEF RoundsInv, SnapshotFrozen
  <2>4. Registry!EligibleAt(v)' \subseteq Registry!EligibleAt(v)
    BY <1>1
  <2>5. rounds'[r].nodeSetVersion = v
    BY <2>3 DEF Aside
  <2>6. Registry!EligibleAt(v) \subseteq snapshot[r]
    BY <2>3 DEF RoundsInv, SnapshotFrozen
  <2>7. Registry!EligibleAt(rounds[r].nodeSetVersion)' \subseteq snapshot[r]
    BY <2>4, <2>5, <2>6 DEF Registry!EligibleAt
  <2>8. rounds[r].nodeSetVersion <= version'
    BY <1>1, <2>2, <2>3
  <2> QED
    BY <2>7, <2>8 DEF RoundsInv, SnapshotFrozen
<1>5. AnswersMatch'
  BY DEF RoundsInv, AnswersMatch, Aside
<1>6. FeedsPoint'
  BY DEF RoundsInv, FeedsPoint, Aside
<1>7. OneLiveRoundPerFeed'
  <2> SUFFICES ASSUME NEW r \in RoundIds, IsLive(rounds[r].state)
               PROVE  feeds'[rounds[r].feedId].currentRoundId = r
    BY DEF OneLiveRoundPerFeed, Aside
  <2>1. rounds[r].feedId \in Feeds
    BY LiveIsOpened
  <2> QED
    BY <2>1 DEF RoundsInv, OneLiveRoundPerFeed, Aside
<1>8. NoncesCountSubmissions'
  BY DEF RoundsInv, NoncesCountSubmissions, Aside
<1> QED
  BY <1>1, <1>2, <1>3, <1>4, <1>5, <1>6, <1>7, <1>8 DEF RoundsInv

LEMMA RegistryKept ==
  ASSUME Registry!TypeOK, Registry!VersionsSound, UNCHANGED registry
  PROVE  /\ Registry!TypeOK'
         /\ Registry!VersionsSound'
         /\ \A v : Registry!EligibleAt(v)' = Registry!EligibleAt(v)
<1>1. active' = active /\ activatedAt' = activatedAt /\ version' = version
  BY DEF registry
<1> QED
  BY <1>1, SameCardinality
     DEF Registry!TypeOK, Registry!VersionsSound, Registry!EligibleAt

(* What OpenRound writes. *)
Opened(f) ==
  [feedId |-> f, deadline |-> now + roundDuration, settledAt |-> 0,
   state |-> "OPEN", nodeSetVersion |-> version,
   eligibleCount |-> Cardinality(active), aggregatedValue |-> 0]

LEMMA OpenRoundWrites ==
  ASSUME RoundsInv, NEW f \in Feeds, OpenRound(f)
  PROVE  /\ nextRoundId \in RoundIds
         /\ nextRoundId' = nextRoundId + 1
         /\ rounds'[nextRoundId] = Opened(f)
         /\ snapshot'[nextRoundId] = active
         /\ \A r \in RoundIds \ {nextRoundId} :
              rounds'[r] = rounds[r] /\ snapshot'[r] = snapshot[r]
         /\ feeds'[f].currentRoundId = nextRoundId
         /\ feeds'[f].lastSettledRoundId = feeds[f].lastSettledRoundId
         /\ \A g \in Feeds \ {f} : feeds'[g] = feeds[g]
         /\ Typed'
<1>1. nextRoundId \in RoundIds /\ nextRoundId \in Nat
  BY RoundsAssumption
     DEF OpenRound, RoundsInv, Typed, RoundIds, RoundsAssumption
<1>2. /\ nextRoundId' = nextRoundId + 1
      /\ rounds' = [rounds EXCEPT ![nextRoundId] = Opened(f)]
      /\ snapshot' = [snapshot EXCEPT ![nextRoundId] = active]
      /\ UNCHANGED <<registry, now, answers, roundDuration>>
  BY DEF OpenRound, Opened, parameters
<1>3. feeds' = [feeds EXCEPT ![f].currentRoundId = nextRoundId]
  BY DEF OpenRound
<1>4. PICK V : rounds \in [RoundIds -> RoundOf(V)]
  BY DEF RoundsInv, Typed
<1>5. Opened(f) \in RoundOf(V \cup {0})
  <2>1. version \in 0..MaxVersion /\ active \in SUBSET Nodes
    BY DEF RoundsInv, Typed, Registry!TypeOK
  <2>2. now + roundDuration \in Nat
    BY RoundsAssumption DEF RoundsInv, Typed, RoundsAssumption
  <2>3. Cardinality(active) \in Nat
    BY <2>1, SubsetFinite
  <2> QED
    BY <2>1, <2>2, <2>3 DEF Opened, RoundOf, RoundState
<1>6. rounds' \in [RoundIds -> RoundOf(V \cup {0})]
  BY <1>1, <1>2, <1>4, <1>5 DEF RoundOf
<1>7. snapshot' \in [RoundIds -> SUBSET Nodes]
  BY <1>2 DEF RoundsInv, Typed, Registry!TypeOK
<1>8. nextRoundId' \in 1..(MaxRounds + 1)
  BY <1>1, <1>2, RoundsAssumption DEF RoundIds, RoundsAssumption
<1>9. /\ feeds' \in [Feeds -> Feed]
      /\ feeds'[f].currentRoundId = nextRoundId
      /\ feeds'[f].lastSettledRoundId = feeds[f].lastSettledRoundId
      /\ \A g \in Feeds \ {f} : feeds'[g] = feeds[g]
  <2>1. feeds[f] \in Feed /\ nextRoundId \in 0..MaxRounds
    BY <1>1, RoundsAssumption
       DEF RoundsInv, Typed, RoundIds, RoundsAssumption
  <2>2. [feeds[f] EXCEPT !.currentRoundId = nextRoundId] \in Feed
    BY <2>1 DEF Feed
  <2> QED
    BY <1>3, <2>1, <2>2 DEF RoundsInv, Typed, Feed
<1>10. Registry!TypeOK'
  BY <1>2, RegistryKept DEF RoundsInv, Typed
<1>11. Typed'
  BY <1>2, <1>6, <1>7, <1>8, <1>9, <1>10 DEF RoundsInv, Typed, answers
<1> QED
  BY <1>1, <1>2, <1>4, <1>9, <1>11 DEF RoundsInv, Typed

LEMMA OpenRoundKeepsInv ==
  ASSUME RoundsInv, NEW f \in Feeds, OpenRound(f)
  PROVE  RoundsInv'
<1> DEFINE new == nextRoundId
<1>1. /\ new \in RoundIds /\ new \in Nat
      /\ \A r \in RoundIds : r \in Nat
  BY OpenRoundWrites DEF RoundIds
<1>2. /\ roundValues' = roundValues /\ submitted' = submitted
      /\ nonces' = nonces /\ version' = version
  BY DEF OpenRound, answers, registry
<1>3. /\ Registry!VersionsSound'
      /\ \A v : Registry!EligibleAt(v)' = Registry!EligibleAt(v)
  BY RegistryKept DEF RoundsInv, Typed, OpenRound
<1>10. /\ rounds'[new].feedId = f /\ rounds'[new].state = "OPEN"
       /\ rounds'[new].nodeSetVersion = version
       /\ rounds'[new].eligibleCount = Cardinality(active)
       /\ snapshot'[new] = active
  <2>1. rounds'[new] = Opened(f) /\ snapshot'[new] = active
    BY OpenRoundWrites
  <2> HIDE DEF new
  <2> QED
    BY <2>1 DEF Opened
<1>4. OpenedInOrder'
  <2> SUFFICES ASSUME NEW r \in RoundIds
               PROVE  /\ r >= new + 1 => /\ rounds'[r].state = "NONE"
                                         /\ submitted[r] = {}
                                         /\ roundValues[r] = <<>>
                      /\ r < new + 1 => rounds'[r].feedId \in Feeds
    BY <1>2, OpenRoundWrites DEF OpenedInOrder
  <2>1. CASE r = new
    BY <1>1, <1>10, <2>1
  <2>2. CASE r # new
    <3>1. rounds'[r] = rounds[r]
      BY <2>2, OpenRoundWrites
    <3>2. /\ r >= new + 1 => r >= nextRoundId
          /\ r < new + 1 => r < nextRoundId
      BY <1>1, <2>2
    <3> QED
      BY <3>1, <3>2 DEF RoundsInv, OpenedInOrder
  <2> QED
    BY <2>1, <2>2
<1>5. SnapshotFrozen'
  <2> SUFFICES ASSUME NEW r \in RoundIds, r < new + 1
               PROVE  /\ rounds'[r].nodeSetVersion <= version
                      /\ Registry!EligibleAt(rounds'[r].nodeSetVersion)
                           \subseteq snapshot'[r]
                      /\ rounds'[r].eligibleCount = Cardinality(snapshot'[r])
                      /\ Cardinality(snapshot'[r]) <= Ceiling
    BY <1>2, <1>3, OpenRoundWrites DEF SnapshotFrozen, OpenRound, registry,
       Registry!EligibleAt
  <2>1. CASE r = new
    <3>1. version \in Nat /\ Cardinality(active) <= Ceiling
      BY SameCardinality
         DEF RoundsInv, Typed, Registry!TypeOK, Registry!VersionsSound
    <3>2. Registry!EligibleAt(version) \subseteq active
      BY DEF Registry!EligibleAt
    <3> QED
      BY <1>10, <2>1, <3>1, <3>2
  <2>2. CASE r # new
    <3>1. rounds'[r] = rounds[r] /\ snapshot'[r] = snapshot[r]
      BY <2>2, OpenRoundWrites
    <3>2. r < nextRoundId
      BY <1>1, <2>2
    <3> QED
      BY <3>1, <3>2 DEF RoundsInv, SnapshotFrozen
  <2> QED
    BY <2>1, <2>2
<1>6. AnswersMatch'
  <2> SUFFICES ASSUME NEW r \in RoundIds
               PROVE  submitted[r] \subseteq snapshot'[r]
    BY <1>2 DEF RoundsInv, AnswersMatch
  <2>1. CASE r = new
    BY <1>1, <2>1 DEF RoundsInv, OpenedInOrder
  <2>2. CASE r # new
    BY <2>2, OpenRoundWrites DEF RoundsInv, AnswersMatch
  <2> QED
    BY <2>1, <2>2
<1>7. FeedsPoint'
  <2> SUFFICES ASSUME NEW g \in Feeds
               PROVE  LET last == feeds'[g].lastSettledRoundId
                      IN /\ feeds'[g].currentRoundId < new + 1
                         /\ last <= feeds'[g].currentRoundId
                         /\ last # 0 => rounds'[last].state = "SETTLED"
    BY OpenRoundWrites DEF FeedsPoint
  <2> DEFINE last == feeds[g].lastSettledRoundId
             current == feeds[g].currentRoundId
  <2>1. /\ current \in Nat /\ last \in 0..MaxRounds
        /\ current < new /\ last <= current
        /\ last # 0 => rounds[last].state = "SETTLED"
    BY RoundsAssumption
       DEF RoundsInv, Typed, Feed, FeedsPoint, RoundsAssumption
  <2>2. feeds'[g].lastSettledRoundId = last
    BY OpenRoundWrites
  <2>3. feeds'[g].currentRoundId \in {current, new}
    BY OpenRoundWrites
  <2>4. last # 0 => rounds'[last] = rounds[last]
    BY <1>1, <2>1, OpenRoundWrites, RoundsAssumption
       DEF RoundIds, RoundsAssumption
  <2> HIDE DEF last, current
  <2> QED
    BY <1>1, <2>1, <2>2, <2>3, <2>4, RoundsAssumption DEF RoundsAssumption
<1>8. OneLiveRoundPerFeed'
  <2> SUFFICES ASSUME NEW r \in RoundIds, IsLive(rounds'[r].state)
               PROVE  feeds'[rounds'[r].feedId].currentRoundId = r
    BY DEF OneLiveRoundPerFeed
  <2>1. CASE r = new
    BY <1>10, <2>1, OpenRoundWrites
  <2>2. CASE r # new
    <3>1. rounds'[r] = rounds[r]
      BY <2>2, OpenRoundWrites
    <3>2. /\ rounds[r].feedId \in Feeds
          /\ feeds[rounds[r].feedId].currentRoundId = r
          /\ r # 0
      BY <3>1, LiveIsOpened DEF RoundsInv, OneLiveRoundPerFeed, RoundIds
    <3>3. rounds[r].feedId # f
      BY <3>1, <3>2 DEF OpenRound
    <3> QED
      BY <3>1, <3>2, <3>3, OpenRoundWrites
  <2> QED
    BY <2>1, <2>2
<1>9. NoncesCountSubmissions'
  BY <1>2 DEF RoundsInv, NoncesCountSubmissions
<1> QED
  BY <1>3, <1>4, <1>5, <1>6, <1>7, <1>8, <1>9, OpenRoundWrites DEF RoundsInv

(* A round's record keeps what fixed it: all but its state, the time it    *)
(* closed and its value.                                                   *)
SameRound(old, new) ==
  /\ new.feedId = old.feedId
  /\ new.nodeSetVersion = old.nodeSetVersion
  /\ new.eligibleCount = old.eligibleCount

LEMMA SubmitWrites ==
  ASSUME RoundsInv, NEW n \in Nodes, NEW r \in RoundIds, NEW value \in Values,
         NEW nonce, Submit(n, r, value, nonce)
  PROVE  /\ IsLive(rounds[r].state)
         /\ n \in Registry!EligibleAt(rounds[r].nodeSetVersion)
         /\ n \notin submitted[r]
         /\ IsLive(rounds'[r].state)
         /\ SameRound(rounds[r], rounds'[r])
         /\ submitted'[r] = submitted[r] \cup {n}
         /\ Len(roundValues'[r]) = Len(roundValues[r]) + 1
         /\ \A q \in RoundIds \ {r} : /\ rounds'[q] = rounds[q]
                                      /\ submitted'[q] = submitted[q]
                                      /\ roundValues'[q] = roundValues[q]
         /\ nonces'[n] = nonces[n] + 1
         /\ \A m \in Nodes \ {n} : nonces'[m] = nonces[m]
         /\ Typed'
<1>1. PICK V : rounds \in [RoundIds -> RoundOf(V)]
  BY DEF RoundsInv, Typed
<1>2. /\ IsLive(rounds[r].state)
      /\ n \in Registry!EligibleAt(rounds[r].nodeSetVersion)
      /\ n \notin submitted[r]
      /\ submitted' = [submitted EXCEPT ![r] = @ \cup {n}]
      /\ roundValues' = [roundValues EXCEPT ![r] = Append(@, value)]
      /\ nonces' = [nonces EXCEPT ![n] = nonces[n] + 1]
      /\ UNCHANGED <<registry, now, nextRoundId, feeds, roundDuration, snapshot>>
  BY DEF Submit, parameters
<1>5. /\ \E W : rounds' \in [RoundIds -> RoundOf(W)]
      /\ IsLive(rounds'[r].state)
      /\ SameRound(rounds[r], rounds'[r])
      /\ \A q \in RoundIds \ {r} : rounds'[q] = rounds[q]
  <2>1. \/ /\ rounds[r].state = "OPEN"
           /\ rounds' = [rounds EXCEPT ![r].state = "QUORUM_MET"]
        \/ rounds' = rounds
    BY DEF Submit
  <2>2. CASE rounds' = rounds
    BY <1>1, <1>2, <2>2 DEF SameRound
  <2>3. CASE /\ rounds[r].state = "OPEN"
             /\ rounds' = [rounds EXCEPT ![r].state = "QUORUM_MET"]
    <3> DEFINE new == [rounds[r] EXCEPT !.state = "QUORUM_MET"]
    <3>1. rounds[r] \in RoundOf(V)
      BY <1>1
    <3>2. /\ new \in RoundOf(V) /\ new.state = "QUORUM_MET"
          /\ SameRound(rounds[r], new)
      BY <3>1 DEF RoundOf, RoundState, SameRound
    <3>3. rounds' = [rounds EXCEPT ![r] = new]
      BY <2>3
    <3> HIDE DEF new
    <3>4. /\ rounds' \in [RoundIds -> RoundOf(V)]
          /\ rounds'[r] = new
          /\ \A q \in RoundIds \ {r} : rounds'[q] = rounds[q]
      BY <1>1, <3>2, <3>3
    <3> QED
      BY <3>2, <3>4 DEF IsLive
  <2> QED
    BY <2>1, <2>2, <2>3
<1>6. /\ submitted' \in [RoundIds -> SUBSET Nodes]
      /\ submitted'[r] = submitted[r] \cup {n}
      /\ \A q \in RoundIds \ {r} : submitted'[q] = submitted[q]
  BY <1>2 DEF RoundsInv, Typed
<1>7. /\ roundValues' \in [RoundIds -> Seq(Values)]
      /\ Len(roundValues'[r]) = Len(roundValues[r]) + 1
      /\ \A q \in RoundIds \ {r} : roundValues'[q] = roundValues[q]
  <2>1. roundValues[r] \in Seq(Values)
    BY DEF RoundsInv, Typed
  <2>2. /\ Append(roundValues[r], value) \in Seq(Values)
        /\ Len(Append(roundValues[r], value)) = Len(roundValues[r]) + 1
    BY <2>1
  <2> QED
    BY <1>2, <2>2 DEF RoundsInv, Typed
<1>8. /\ nonces' \in [Nodes -> Nat]
      /\ nonces'[n] = nonces[n] + 1
      /\ \A m \in Nodes \ {n} : nonces'[m] = nonces[m]
  BY <1>2 DEF RoundsInv, Typed
<1>9. Registry!TypeOK'
  BY <1>2, RegistryKept DEF RoundsInv, Typed
<1>10. Typed'
  BY <1>2, <1>5, <1>6, <1>7, <1>8, <1>9 DEF RoundsInv, Typed
<1> QED
  BY <1>2, <1>5, <1>6, <1>7, <1>8, <1>10

LEMMA SubmitKeepsInv ==
  ASSUME RoundsInv, NEW n \in Nodes, NEW r \in RoundIds, NEW value \in Values,
         NEW nonce, Submit(n, r, value, nonce)
  PROVE  RoundsInv'
<1>1. /\ feeds' = feeds /\ snapshot' = snapshot
      /\ nextRoundId' = nextRoundId /\ version' = version
  BY DEF Submit, registry
<1>2. /\ Registry!VersionsSound'
      /\ \A v : Registry!EligibleAt(v)' = Registry!EligibleAt(v)
  BY RegistryKept DEF RoundsInv, Typed, Submit
<1>3. r < nextRoundId /\ rounds[r].feedId \in Feeds
      /\ r \in Nat /\ nextRoundId \in Nat
  <2>1. IsLive(rounds[r].state)
    BY DEF Submit
  <2> QED
    BY <2>1, LiveIsOpened DEF RoundsInv, Typed, RoundIds
<1>4. OpenedInOrder'
  <2> SUFFICES ASSUME NEW q \in RoundIds
               PROVE  /\ q >= nextRoundId => /\ rounds'[q].state = "NONE"
                                             /\ submitted'[q] = {}
                                             /\ roundValues'[q] = <<>>
                      /\ q < nextRoundId => rounds'[q].feedId \in Feeds
    BY <1>1 DEF OpenedInOrder
  <2>1. CASE q = r
    BY <1>3, <2>1, SubmitWrites DEF SameRound
  <2>2. CASE q # r
    BY <2>2, SubmitWrites DEF RoundsInv, OpenedInOrder
  <2> QED
    BY <2>1, <2>2
<1>5. \A q \in RoundIds : SameRound(rounds[q], rounds'[q])
  BY SubmitWrites DEF SameRound
<1>6. SnapshotFrozen'
  <2> SUFFICES ASSUME NEW q \in RoundIds, q < nextRoundId
               PROVE  /\ rounds'[q].nodeSetVersion <= version
                      /\ Registry!EligibleAt(rounds'[q].nodeSetVersion)
                           \subseteq snapshot[q]
                      /\ rounds'[q].eligibleCount = Cardinality(snapshot[q])
                      /\ Cardinality(snapshot[q]) <= Ceiling
    BY <1>1 DEF SnapshotFrozen, Submit, registry, Registry!EligibleAt
  <2> QED
    BY <1>5 DEF SameRound, RoundsInv, SnapshotFrozen
<1>7. AnswersMatch'
  <2> SUFFICES ASSUME NEW q \in RoundIds
               PROVE  /\ submitted'[q] \subseteq snapshot[q]
                      /\ Len(roundValues'[q]) = Cardinality(submitted'[q])
    BY <1>1 DEF AnswersMatch
  <2>1. CASE q = r
    <3>1. submitted'[r] = submitted[r] \cup {n} /\ n \notin submitted[r]
      BY SubmitWrites
    <3>2. n \in snapshot[r]
      BY <1>3, SubmitWrites DEF RoundsInv, SnapshotFrozen
    <3>3. IsFiniteSet(submitted[r])
      BY SubsetFinite DEF RoundsInv, Typed
    <3>4. Cardinality(submitted'[r]) = Cardinality(submitted[r]) + 1
      BY <3>1, <3>3, FS_AddElement
    <3> QED
      BY <2>1, <3>1, <3>2, <3>4, SubmitWrites DEF RoundsInv, AnswersMatch
  <2>2. CASE q # r
    BY <2>2, SubmitWrites DEF RoundsInv, AnswersMatch
  <2> QED
    BY <2>1, <2>2
<1>8. FeedsPoint'
  <2> SUFFICES ASSUME NEW g \in Feeds, feeds[g].lastSettledRoundId # 0
               PROVE  rounds'[feeds[g].lastSettledRoundId].state = "SETTLED"
    BY <1>1 DEF RoundsInv, FeedsPoint
  <2> DEFINE last == feeds[g].lastSettledRoundId
  <2>1. rounds[last].state = "SETTLED" /\ last \in RoundIds
    BY RoundsAssumption
       DEF RoundsInv, Typed, Feed, FeedsPoint, RoundIds, RoundsAssumption
  <2>2. last # r
    BY <2>1, SubmitWrites DEF IsLive
  <2> QED
    BY <2>1, <2>2, SubmitWrites
<1>9. OneLiveRoundPerFeed'
  <2> SUFFICES ASSUME NEW q \in RoundIds, IsLive(rounds'[q].state)
               PROVE  feeds[rounds'[q].feedId].currentRoundId = q
    BY <1>1 DEF OneLiveRoundPerFeed
  <2>1. IsLive(rounds[q].state)
    BY SubmitWrites
  <2> QED
    BY <1>5, <2>1 DEF SameRound, RoundsInv, OneLiveRoundPerFeed
<1>10. NoncesCountSubmissions'
  <2> SUFFICES ASSUME NEW m \in Nodes
               PROVE  nonces'[m] =
                        Cardinality({q \in RoundIds : m \in submitted'[q]})
    BY DEF NoncesCountSubmissions
  <2> DEFINE Old == {q \in RoundIds : m \in submitted[q]}
             New == {q \in RoundIds : m \in submitted'[q]}
  <2>1. nonces[m] = Cardinality(Old)
    BY DEF RoundsInv, NoncesCountSubmissions
  <2>2. CASE m = n
    <3>1. New = Old \cup {r} /\ r \notin Old
      BY <2>2, SubmitWrites
    <3>2. IsFiniteSet(Old)
      <4>1. IsFiniteSet(RoundIds)
        BY FS_Interval, RoundsAssumption DEF RoundIds, RoundsAssumption
      <4> QED
        BY <4>1, FS_Subset
    <3> HIDE DEF Old, New
    <3>3. Cardinality(New) = Cardinality(Old) + 1
      BY <3>1, <3>2, FS_AddElement
    <3> QED
      BY <2>1, <2>2, <3>3, SubmitWrites DEF New
  <2>3. CASE m # n
    <3>1. New = Old
      BY <2>3, SubmitWrites
    <3> QED
      BY <2>1, <2>3, <3>1, SubmitWrites
  <2> QED
    BY <2>2, <2>3
<1> QED
  BY <1>2, <1>4, <1>6, <1>7, <1>8, <1>9, <1>10, SubmitWrites DEF RoundsInv

LEMMA SettleRoundWrites ==
  ASSUME RoundsInv, NEW r \in RoundIds, SettleRound(r)
  PROVE  /\ IsLive(rounds[r].state)
         /\ rounds'[r].state \in {"SETTLED", "FAILED"}
         /\ SameRound(rounds[r], rounds'[r])
         /\ rounds'[r].settledAt = now
         /\ \A q \in RoundIds \ {r} : rounds'[q] = rounds[q]
         /\ \/ feeds' = feeds
            \/ /\ rounds'[r].state = "SETTLED"
               /\ feeds'[rounds[r].feedId].lastSettledRoundId = r
         /\ \A g \in Feeds :
              /\ feeds'[g].currentRoundId = feeds[g].currentRoundId
              /\ g # rounds[r].feedId => feeds'[g] = feeds[g]
         /\ Typed'
<1>1. PICK V : rounds \in [RoundIds -> RoundOf(V)]
  BY DEF RoundsInv, Typed
<1>2. /\ IsLive(rounds[r].state)
      /\ UNCHANGED <<registry, now, nextRoundId, answers, roundDuration, snapshot>>
  BY DEF SettleRound, parameters
<1>3. rounds[r] \in RoundOf(V) /\ rounds[r].feedId \in Feeds
  BY <1>1, <1>2, LiveIsOpened
<1>4. now \in Nat
  BY DEF RoundsInv, Typed
<1>5. Registry!TypeOK'
  BY <1>2, RegistryKept DEF RoundsInv, Typed
<1>6. CASE /\ rounds' = [rounds EXCEPT ![r].state = "SETTLED",
                           ![r].settledAt = now,
                           ![r].aggregatedValue = Median(roundValues[r])]
           /\ feeds' = [feeds EXCEPT
                          ![rounds[r].feedId].lastSettledRoundId = r]
  <2> DEFINE m == Median(roundValues[r])
             new == [rounds[r] EXCEPT !.state = "SETTLED", !.settledAt = now,
                                      !.aggregatedValue = m]
             f == rounds[r].feedId
             feed == [feeds[f] EXCEPT !.lastSettledRoundId = r]
  <2>1. rounds' = [rounds EXCEPT ![r] = new]
    BY <1>6
  <2>2. /\ new.state = "SETTLED" /\ new.settledAt = now
        /\ SameRound(rounds[r], new)
        /\ new \in RoundOf(V \cup {m})
    <3> HIDE DEF m
    <3> QED
      BY <1>3, <1>4 DEF RoundOf, RoundState, SameRound
  <2>3. rounds[r] \in RoundOf(V \cup {m})
        /\ rounds \in [RoundIds -> RoundOf(V \cup {m})]
    <3> HIDE DEF m
    <3> QED
      BY <1>1, <1>3 DEF RoundOf
  <2>4. feeds[f] \in Feed /\ r \in 0..MaxRounds
    BY <1>3, RoundsAssumption
       DEF RoundsInv, Typed, RoundIds, RoundsAssumption
  <2>5. /\ feed \in Feed /\ feed.lastSettledRoundId = r
        /\ feed.currentRoundId = feeds[f].currentRoundId
    BY <2>4 DEF Feed
  <2>6. feeds' = [feeds EXCEPT ![f] = feed]
    BY <1>6
  <2> HIDE DEF new, feed, m
  <2>7. /\ rounds' \in [RoundIds -> RoundOf(V \cup {m})]
        /\ rounds'[r] = new
        /\ \A q \in RoundIds \ {r} : rounds'[q] = rounds[q]
    BY <2>1, <2>2, <2>3
  <2>8. /\ feeds' \in [Feeds -> Feed]
        /\ feeds'[f] = feed
        /\ \A g \in Feeds \ {f} : feeds'[g] = feeds[g]
    BY <1>3, <2>5, <2>6 DEF RoundsInv, Typed
  <2>9. Typed'
    BY <1>2, <1>5, <2>7, <2>8 DEF RoundsInv, Typed, answers
  <2> QED
    BY <1>2, <2>2, <2>5, <2>7, <2>8, <2>9
<1>7. CASE /\ rounds' = [rounds EXCEPT ![r].state = "FAILED",
                                       ![r].settledAt = now]
           /\ UNCHANGED feeds
  <2> DEFINE new == [rounds[r] EXCEPT !.state = "FAILED", !.settledAt = now]
  <2>1. rounds' = [rounds EXCEPT ![r] = new]
    BY <1>7
  <2>2. /\ new.state = "FAILED" /\ new.settledAt = now
        /\ SameRound(rounds[r], new)
        /\ new \in RoundOf(V)
    BY <1>3, <1>4 DEF RoundOf, RoundState, SameRound
  <2> HIDE DEF new
  <2>3. /\ rounds' \in [RoundIds -> RoundOf(V)]
        /\ rounds'[r] = new
        /\ \A q \in RoundIds \ {r} : rounds'[q] = rounds[q]
    BY <1>1, <2>1, <2>2
  <2>4. Typed'
    BY <1>2, <1>5, <1>7, <2>3 DEF RoundsInv, Typed, answers
  <2> QED
    BY <1>2, <1>7, <2>2, <2>3, <2>4
<1> QED
  BY <1>6, <1>7 DEF SettleRound

LEMMA SettleRoundKeepsInv ==
  ASSUME RoundsInv, NEW r \in RoundIds, SettleRound(r)
  PROVE  RoundsInv'
<1>1. /\ submitted' = submitted /\ roundValues' = roundValues
      /\ nonces' = nonces /\ snapshot' = snapshot
      /\ nextRoundId' = nextRoundId /\ version' = version
  BY DEF SettleRound, registry, answers
<1>2. Registry!VersionsSound'
  BY RegistryKept DEF RoundsInv, Typed, SettleRound
<1>3. r < nextRoundId /\ rounds[r].feedId \in Feeds
      /\ r \in Nat /\ nextRoundId \in Nat
  BY SettleRoundWrites, LiveIsOpened DEF RoundsInv, Typed, RoundIds
<1>4. OpenedInOrder'
  <2> SUFFICES ASSUME NEW q \in RoundIds
               PROVE  /\ q >= nextRoundId => /\ rounds'[q].state = "NONE"
                                             /\ submitted[q] = {}
                                             /\ roundValues[q] = <<>>
                      /\ q < nextRoundId => rounds'[q].feedId \in Feeds
    BY <1>1 DEF OpenedInOrder
  <2>1. CASE q = r
    BY <1>3, <2>1, SettleRoundWrites DEF SameRound
  <2>2. CASE q # r
    BY <2>2, SettleRoundWrites DEF RoundsInv, OpenedInOrder
  <2> QED
    BY <2>1, <2>2
<1>5. \A q \in RoundIds : SameRound(rounds[q], rounds'[q])
  BY SettleRoundWrites DEF SameRound
<1>6. SnapshotFrozen'
  <2> SUFFICES ASSUME NEW q \in RoundIds, q < nextRoundId
               PROVE  /\ rounds'[q].nodeSetVersion <= version
                      /\ Registry!EligibleAt(rounds'[q].nodeSetVersion)
                           \subseteq snapshot[q]
                      /\ rounds'[q].eligibleCount = Cardinality(snapshot[q])
                      /\ Cardinality(snapshot[q]) <= Ceiling
    BY <1>1 DEF SnapshotFrozen, SettleRound, registry, Registry!EligibleAt
  <2> QED
    BY <1>5 DEF SameRound, RoundsInv, SnapshotFrozen
<1>7. AnswersMatch'
  BY <1>1 DEF RoundsInv, AnswersMatch
<1>8. FeedsPoint'
  <2> SUFFICES ASSUME NEW g \in Feeds
               PROVE  LET last == feeds'[g].lastSettledRoundId
                      IN /\ feeds'[g].currentRoundId < nextRoundId
                         /\ last <= feeds'[g].currentRoundId
                         /\ last # 0 => rounds'[last].state = "SETTLED"
    BY <1>1 DEF FeedsPoint
  <2>1. feeds'[g].currentRoundId = feeds[g].currentRoundId
        /\ feeds[g].currentRoundId < nextRoundId
    BY SettleRoundWrites DEF RoundsInv, FeedsPoint
  <2>2. CASE feeds'[g].lastSettledRoundId = feeds[g].lastSettledRoundId
    <3> DEFINE last == feeds[g].lastSettledRoundId
    <3>1. last # 0 => rounds[last].state = "SETTLED" /\ last \in RoundIds
      BY RoundsAssumption
         DEF RoundsInv, Typed, Feed, FeedsPoint, RoundIds, RoundsAssumption
    <3>2. last # 0 => rounds'[last].state = "SETTLED"
      BY <3>1, SettleRoundWrites DEF IsLive
    <3> QED
      BY <2>1, <2>2, <3>2 DEF RoundsInv, FeedsPoint
  <2>3. CASE feeds'[g].lastSettledRoundId # feeds[g].lastSettledRoundId
    <3>1. /\ g = rounds[r].feedId
          /\ rounds'[r].state = "SETTLED"
          /\ feeds'[g].lastSettledRoundId = r
      BY <2>3, SettleRoundWrites
    <3>2. feeds[g].currentRoundId = r
      BY <3>1, SettleRoundWrites DEF RoundsInv, OneLiveRoundPerFeed
    <3> QED
      BY <1>3, <2>1, <3>1, <3>2
  <2> QED
    BY <2>2, <2>3
<1>9. OneLiveRoundPerFeed'
  <2> SUFFICES ASSUME NEW q \in RoundIds, IsLive(rounds'[q].state)
               PROVE  feeds'[rounds'[q].feedId].currentRoundId = q
    BY DEF OneLiveRoundPerFeed
  <2>1. rounds'[q] = rounds[q]
    BY SettleRoundWrites DEF IsLive
  <2>2. rounds[q].feedId \in Feeds /\ IsLive(rounds[q].state)
    BY <2>1, LiveIsOpened
  <2> QED
    BY <2>1, <2>2, SettleRoundWrites DEF RoundsInv, OneLiveRoundPerFeed
<1>10. NoncesCountSubmissions'
  BY <1>1 DEF RoundsInv, NoncesCountSubmissions
<1> QED
  BY <1>2, <1>4, <1>6, <1>7, <1>8, <1>9, <1>10, SettleRoundWrites DEF RoundsInv

-----------------------------------------------------------------------------
(* The invariant. *)

LEMMA RoundsInitInv == Init => RoundsInv
<1> SUFFICES ASSUME Init PROVE RoundsInv
  OBVIOUS
<1>1. Typed
  <2>1. NoRound \in RoundOf({0})
    <3>1. MaxVersion \in Nat
      BY RoundsAssumption DEF RoundsAssumption
    <3> QED
      BY <3>1 DEF NoRound, RoundOf, RoundState
  <2>2. rounds \in [RoundIds -> RoundOf({0})]
    BY <2>1 DEF Init
  <2>3. feeds \in [Feeds -> Feed] /\ nextRoundId \in 1..(MaxRounds + 1)
    BY RoundsAssumption DEF Init, Feed, RoundsAssumption
  <2> QED
    BY <2>2, <2>3, RegistryInitSound DEF Init, Typed
<1>2. Cardinality({}) = 0
  BY FS_EmptySet
<1>3. Registry!VersionsSound
  BY RegistryInitSound DEF Init
<1>4. \A r \in RoundIds : r \in Nat /\ r >= 1
  BY DEF RoundIds
<1>5. OpenedInOrder /\ SnapshotFrozen
  BY <1>4 DEF Init, OpenedInOrder, SnapshotFrozen, NoRound
<1>6. AnswersMatch
  BY <1>2 DEF Init, AnswersMatch
<1>7. FeedsPoint
  BY DEF Init, FeedsPoint
<1>8. OneLiveRoundPerFeed
  BY DEF Init, OneLiveRoundPerFeed, NoRound, IsLive
<1>9. NoncesCountSubmissions
  <2>1. \A n \in Nodes : {r \in RoundIds : n \in submitted[r]} = {}
    BY DEF Init
  <2> QED
    BY <1>2, <2>1 DEF Init, NoncesCountSubmissions
<1> QED
  BY <1>1, <1>3, <1>5, <1>6, <1>7, <1>8, <1>9 DEF RoundsInv

(* What is not a step of a round is a step aside. *)
LEMMA StepCases ==
  ASSUME RoundsInv, [Next]_vars
  PROVE  \/ \E f \in Feeds : OpenRound(f)
         \/ \E n \in Nodes, r \in RoundIds, v \in Values, k \in 0..MaxRounds :
              Submit(n, r, v, k)
         \/ \E r \in RoundIds : SettleRound(r)
         \/ Aside
<1>1. now \in Nat /\ roundDuration \in Durations /\ feeds \in [Feeds -> Feed]
  BY DEF RoundsInv, Typed
<1>2. UNCHANGED registry => UNCHANGED Registry!vars
  BY DEF registry, Registry!vars
<1>3. ASSUME NEW f \in Feeds, RegisterFeed(f) \/ DeregisterFeed(f)
      PROVE  Aside
  <2>1. PICK b \in BOOLEAN : feeds' = [feeds EXCEPT ![f].registered = b]
    BY <1>3 DEF RegisterFeed, DeregisterFeed
  <2>2. [feeds[f] EXCEPT !.registered = b] \in Feed
    BY <1>1 DEF Feed
  <2>3. /\ feeds' \in [Feeds -> Feed]
        /\ \A g \in Feeds :
             /\ feeds'[g].currentRoundId = feeds[g].currentRoundId
             /\ feeds'[g].lastSettledRoundId = feeds[g].lastSettledRoundId
    BY <1>1, <2>1, <2>2 DEF Feed
  <2> QED
    BY <1>1, <1>2, <1>3, <2>3
       DEF RegisterFeed, DeregisterFeed, Aside, parameters, answers
<1>4. ASSUME SetParameters \/ Pause \/ Unpause
      PROVE  Aside
  BY <1>1, <1>2, <1>4
     DEF SetParameters, Pause, Unpause, Aside, parameters, answers
<1>5. ASSUME RegistryStep
      PROVE  Aside
  BY <1>1, <1>5 DEF RegistryStep, Aside, parameters, answers
<1>6. ASSUME Tick
      PROVE  Aside
  BY <1>1, <1>2, <1>6 DEF Tick, Aside, parameters, answers
<1>7. ASSUME UNCHANGED vars
      PROVE  Aside
  BY <1>1, <1>2, <1>7 DEF vars, Aside, parameters, answers
<1> QED
  BY <1>3, <1>4, <1>5, <1>6, <1>7 DEF Next

LEMMA RoundsNextInv == RoundsInv /\ [Next]_vars => RoundsInv'
BY StepCases, OpenRoundKeepsInv, SubmitKeepsInv, SettleRoundKeepsInv,
   AsideKeepsInv

(* Every reachable state of the contract satisfies the invariant. *)
THEOREM RoundsInvariant == Spec => []RoundsInv
BY RoundsInitInv, RoundsNextInv, PTL DEF Spec

-----------------------------------------------------------------------------
(* What follows from it. *)

LEMMA InvCounts == RoundsInv => CountedOnceFromSnapshot
<1> SUFFICES ASSUME RoundsInv, NEW r \in RoundIds
             PROVE  /\ submitted[r] \subseteq snapshot[r]
                    /\ Len(roundValues[r]) = Cardinality(submitted[r])
                    /\ Len(roundValues[r]) <= rounds[r].eligibleCount
  BY DEF CountedOnceFromSnapshot
<1>1. /\ submitted[r] \subseteq snapshot[r]
      /\ Len(roundValues[r]) = Cardinality(submitted[r])
  BY DEF RoundsInv, AnswersMatch
<1>2. IsFiniteSet(snapshot[r])
  BY SubsetFinite DEF RoundsInv, Typed
<1>3. Cardinality(submitted[r]) <= Cardinality(snapshot[r])
  BY <1>1, <1>2, FS_Subset
<1>4. CASE r < nextRoundId
  BY <1>1, <1>3, <1>4 DEF RoundsInv, SnapshotFrozen
<1>5. CASE r >= nextRoundId
  <2>1. Len(roundValues[r]) = 0
    BY <1>5 DEF RoundsInv, OpenedInOrder
  <2>2. rounds[r].eligibleCount \in Nat
    BY DEF RoundsInv, Typed, RoundOf
  <2> QED
    BY <1>1, <2>1, <2>2
<1>6. r \in Nat /\ nextRoundId \in Nat
  BY DEF RoundsInv, Typed, RoundIds
<1> QED
  BY <1>4, <1>5, <1>6

(* Quorum is counted over the members of the moment the round opened, each *)
(* once, whatever the registry does while the round is live.               *)
THEOREM CountedOnce == Spec => []CountedOnceFromSnapshot
BY RoundsInvariant, InvCounts, PTL

LEMMA InvRoom == RoundsInv => RoomForMembers
<1> SUFFICES ASSUME RoundsInv, NEW r \in RoundIds, NEW n \in Nodes,
                    IsLive(rounds[r].state),
                    n \in Registry!EligibleAt(rounds[r].nodeSetVersion),
                    n \notin submitted[r]
             PROVE  Len(roundValues[r]) < MaxSubmissions
  BY DEF RoomForMembers
<1>1. /\ n \in snapshot[r]
      /\ Cardinality(snapshot[r]) <= Ceiling
  BY LiveIsOpened DEF RoundsInv, SnapshotFrozen
<1>2. /\ submitted[r] \subseteq snapshot[r]
      /\ Len(roundValues[r]) = Cardinality(submitted[r])
  BY DEF RoundsInv, AnswersMatch
<1>3. /\ IsFiniteSet(snapshot[r]) /\ Cardinality(snapshot[r]) \in Nat
      /\ IsFiniteSet(submitted[r]) /\ Cardinality(submitted[r]) \in Nat
  BY SubsetFinite DEF RoundsInv, Typed
<1>4. Cardinality(submitted[r] \cup {n}) = Cardinality(submitted[r]) + 1
  BY <1>3, FS_AddElement
<1>5. Cardinality(submitted[r] \cup {n}) <= Cardinality(snapshot[r])
  BY <1>1, <1>2, <1>3, FS_Subset
<1>6. Ceiling \in Nat /\ MaxSubmissions \in Nat /\ Ceiling <= MaxSubmissions
  BY RoundsAssumption DEF RoundsAssumption
<1> QED
  BY <1>1, <1>2, <1>3, <1>4, <1>5, <1>6

(* As long as the registry's ceiling is within the rounds' own limit, that *)
(* limit refuses nobody who may answer.                                    *)
THEOREM RoomLeft == Spec => []RoomForMembers
BY RoundsInvariant, InvRoom, PTL

(* A feed never has two live rounds, also across its deregistration. *)
THEOREM OneLive == Spec => []OneLiveRoundPerFeed
<1>1. RoundsInv => OneLiveRoundPerFeed
  BY DEF RoundsInv
<1> QED
  BY <1>1, RoundsInvariant, PTL

(* A node's nonce is the number of rounds it has answered. *)
THEOREM NoncesCount == Spec => []NoncesCountSubmissions
<1>1. RoundsInv => NoncesCountSubmissions
  BY DEF RoundsInv
<1> QED
  BY <1>1, RoundsInvariant, PTL

(* A feed's reading, unless it is the one that moves. *)
Moves(f) ==
  LET last == feeds'[f].lastSettledRoundId
  IN /\ last > feeds[f].lastSettledRoundId
     /\ rounds'[last].state = "SETTLED"
     /\ rounds'[last].feedId = f
     /\ rounds'[last].settledAt = now

LEMMA SettleRoundMoves ==
  ASSUME RoundsInv, NEW r \in RoundIds, SettleRound(r), NEW f \in Feeds,
         feeds'[f].lastSettledRoundId # feeds[f].lastSettledRoundId
  PROVE  Moves(f)
<1>1. /\ f = rounds[r].feedId
      /\ feeds'[f].lastSettledRoundId = r
      /\ rounds'[r].state = "SETTLED"
      /\ rounds'[r].feedId = f
      /\ rounds'[r].settledAt = now
  BY SettleRoundWrites DEF SameRound
<1>2. feeds[f].currentRoundId = r
  BY <1>1, SettleRoundWrites DEF RoundsInv, OneLiveRoundPerFeed
<1>3. /\ feeds[f].lastSettledRoundId \in Nat /\ r \in Nat
      /\ feeds[f].lastSettledRoundId <= r
  BY <1>2, RoundsAssumption
     DEF RoundsInv, Typed, FeedsPoint, Feed, RoundIds, RoundsAssumption
<1>4. feeds[f].lastSettledRoundId # r
  BY <1>1
<1> QED
  BY <1>1, <1>3, <1>4 DEF Moves

LEMMA ClosedStep == RoundsInv /\ [Next]_vars => ClosedIsFinal
<1> SUFFICES ASSUME RoundsInv, [Next]_vars
             PROVE  ClosedIsFinal
  OBVIOUS
<1>1. ASSUME NEW q \in RoundIds, rounds[q].state \in {"SETTLED", "FAILED"}
      PROVE  /\ rounds'[q] = rounds[q]
             /\ roundValues'[q] = roundValues[q]
             /\ submitted'[q] = submitted[q]
  <2>1. ~IsLive(rounds[q].state) /\ rounds[q].state # "NONE"
    BY <1>1 DEF IsLive
  <2>2. ASSUME NEW f \in Feeds, OpenRound(f)
        PROVE  /\ rounds'[q] = rounds[q]
               /\ UNCHANGED <<roundValues, submitted>>
    <3>1. q # nextRoundId
      BY <2>1, OpenRoundWrites DEF RoundsInv, OpenedInOrder, RoundIds
    <3> QED
      BY <2>2, <3>1, OpenRoundWrites DEF OpenRound, answers
  <2>3. ASSUME NEW n \in Nodes, NEW r \in RoundIds, NEW v \in Values,
               NEW k \in 0..MaxRounds, Submit(n, r, v, k)
        PROVE  /\ rounds'[q] = rounds[q]
               /\ roundValues'[q] = roundValues[q]
               /\ submitted'[q] = submitted[q]
    BY <2>1, <2>3, SubmitWrites
  <2>4. ASSUME NEW r \in RoundIds, SettleRound(r)
        PROVE  /\ rounds'[q] = rounds[q]
               /\ UNCHANGED <<roundValues, submitted>>
    BY <2>1, <2>4, SettleRoundWrites DEF SettleRound, answers
  <2>5. CASE Aside
    BY <2>5 DEF Aside
  <2> QED
    BY <2>2, <2>3, <2>4, <2>5, StepCases
<1>2. ASSUME NEW f \in Feeds,
             feeds'[f].lastSettledRoundId # feeds[f].lastSettledRoundId
      PROVE  Moves(f)
  <2>1. ASSUME NEW g \in Feeds, OpenRound(g)
        PROVE  FALSE
    BY <1>2, <2>1, OpenRoundWrites
  <2>2. ASSUME NEW n \in Nodes, NEW r \in RoundIds, NEW v \in Values,
               NEW k \in 0..MaxRounds, Submit(n, r, v, k)
        PROVE  FALSE
    BY <1>2, <2>2 DEF Submit
  <2>3. ~Aside
    BY <1>2 DEF Aside
  <2> QED
    BY <1>2, <2>1, <2>2, <2>3, StepCases, SettleRoundMoves
<1> QED
  BY <1>1, <1>2 DEF ClosedIsFinal, Moves

(* A closed round is never touched again, and a feed's reading moves only  *)
(* forward, to a round of that feed which settles in that step.            *)
THEOREM ClosedFinal == Spec => ClosedRoundsAreFinal
BY RoundsInvariant, ClosedStep, PTL DEF Spec, ClosedRoundsAreFinal
-----------------------------------------------------------------------------
(* The settled value, and the full type invariant. *)

(* What a round's record says of its value and of its feed. *)
PriceSound(round, values) ==
  IF round.state = "SETTLED"
  THEN Len(values) > 0 /\ round.aggregatedValue = Median(values)
  ELSE round.aggregatedValue = 0

PricesSound ==
  \A r \in RoundIds :
    /\ PriceSound(rounds[r], roundValues[r])
    /\ r >= nextRoundId => rounds[r].feedId = NoFeed
    /\ r < nextRoundId => rounds[r].state # "NONE"

Ranges ==
  /\ now \in 0..MaxTime
  /\ quorumBps \in QuorumLevels
  /\ minQuorumNodes \in QuorumCounts
  /\ paused \in BOOLEAN

LEMMA RangesStep == RoundsInv /\ Ranges /\ [Next]_vars => Ranges'
<1> SUFFICES ASSUME RoundsInv, Ranges, [Next]_vars PROVE Ranges'
  OBVIOUS
<1>1. ASSUME NEW f \in Feeds, OpenRound(f) \/ RegisterFeed(f) \/ DeregisterFeed(f)
      PROVE  Ranges'
  BY <1>1 DEF OpenRound, RegisterFeed, DeregisterFeed, Ranges, parameters
<1>2. ASSUME NEW n \in Nodes, NEW r \in RoundIds, NEW v \in Values,
             NEW k \in 0..MaxRounds, Submit(n, r, v, k)
      PROVE  Ranges'
  BY <1>2 DEF Submit, Ranges, parameters
<1>3. ASSUME NEW r \in RoundIds, SettleRound(r)
      PROVE  Ranges'
  BY <1>3 DEF SettleRound, Ranges, parameters
<1>4. CASE SetParameters
  BY <1>4 DEF SetParameters, Ranges
<1>5. CASE Pause \/ Unpause \/ RegistryStep
  BY <1>5 DEF Pause, Unpause, RegistryStep, Ranges, parameters
<1>6. CASE Tick
  <2>1. now' \in 0..MaxTime
    BY <1>6, RoundsAssumption DEF Tick, Ranges, RoundsAssumption
  <2> QED
    BY <1>6, <2>1 DEF Tick, Ranges, parameters
<1>7. CASE UNCHANGED vars
  BY <1>7 DEF vars, Ranges, parameters
<1> QED
  BY <1>1, <1>2, <1>3, <1>4, <1>5, <1>6, <1>7 DEF Next

LEMMA OpenRoundKeepsPrices ==
  ASSUME RoundsInv, PricesSound, NEW f \in Feeds, OpenRound(f)
  PROVE  PricesSound'
<1>1. roundValues' = roundValues /\ nextRoundId' = nextRoundId + 1
  BY OpenRoundWrites DEF OpenRound, answers
<1>2. nextRoundId \in Nat /\ \A r \in RoundIds : r \in Nat
  BY DEF RoundsInv, Typed, RoundIds
<1> SUFFICES ASSUME NEW r \in RoundIds
             PROVE  /\ PriceSound(rounds'[r], roundValues[r])
                    /\ r >= nextRoundId + 1 => rounds'[r].feedId = NoFeed
                    /\ r < nextRoundId + 1 => rounds'[r].state # "NONE"
  BY <1>1 DEF PricesSound
<1>3. CASE r = nextRoundId
  <2>1. rounds'[r] = Opened(f)
    BY <1>3, OpenRoundWrites
  <2>2. rounds'[r].state = "OPEN" /\ rounds'[r].aggregatedValue = 0
    BY <2>1 DEF Opened
  <2> QED
    BY <1>2, <1>3, <2>2 DEF PriceSound
<1>4. CASE r # nextRoundId
  <2>1. rounds'[r] = rounds[r]
    BY <1>4, OpenRoundWrites
  <2>2. /\ r >= nextRoundId + 1 => r >= nextRoundId
        /\ r < nextRoundId + 1 => r < nextRoundId
    BY <1>2, <1>4
  <2> QED
    BY <2>1, <2>2 DEF PricesSound
<1> QED
  BY <1>3, <1>4

LEMMA SubmitKeepsPrices ==
  ASSUME RoundsInv, PricesSound, NEW n \in Nodes, NEW r \in RoundIds,
         NEW value \in Values, NEW nonce, Submit(n, r, value, nonce)
  PROVE  PricesSound'
<1>1. nextRoundId' = nextRoundId
  BY DEF Submit
<1>2. /\ rounds'[r].aggregatedValue = rounds[r].aggregatedValue
      /\ rounds'[r].state \in {rounds[r].state, "QUORUM_MET"}
      /\ rounds'[r].feedId = rounds[r].feedId
  <2>1. PICK V : rounds \in [RoundIds -> RoundOf(V)]
    BY DEF RoundsInv, Typed
  <2>2. \/ rounds' = [rounds EXCEPT ![r].state = "QUORUM_MET"]
        \/ rounds' = rounds
    BY DEF Submit
  <2> QED
    BY <2>1, <2>2 DEF RoundOf
<1>3. rounds[r].state # "SETTLED" /\ rounds'[r].state # "SETTLED"
  BY SubmitWrites DEF IsLive
<1> SUFFICES ASSUME NEW q \in RoundIds
             PROVE  /\ PriceSound(rounds'[q], roundValues'[q])
                    /\ q >= nextRoundId => rounds'[q].feedId = NoFeed
                    /\ q < nextRoundId => rounds'[q].state # "NONE"
  BY <1>1 DEF PricesSound
<1>4. CASE q = r
  BY <1>2, <1>3, <1>4 DEF PricesSound, PriceSound
<1>5. CASE q # r
  BY <1>5, SubmitWrites DEF PricesSound
<1> QED
  BY <1>4, <1>5

LEMMA SettleRoundKeepsPrices ==
  ASSUME RoundsInv, PricesSound, Ranges, NEW r \in RoundIds, SettleRound(r)
  PROVE  PricesSound'
<1>1. nextRoundId' = nextRoundId /\ roundValues' = roundValues
  BY DEF SettleRound, answers
<1>2. PICK V : rounds \in [RoundIds -> RoundOf(V)]
  BY DEF RoundsInv, Typed
<1>3. rounds[r].state # "SETTLED"
  BY SettleRoundWrites DEF IsLive
<1>4. PriceSound(rounds'[r], roundValues[r])
  <2>1. CASE /\ HasQuorum(Len(roundValues[r]), rounds[r].eligibleCount)
             /\ rounds' = [rounds EXCEPT ![r].state = "SETTLED",
                             ![r].settledAt = now,
                             ![r].aggregatedValue = Median(roundValues[r])]
    <3>1. Len(roundValues[r]) > 0
      <4>1. Len(roundValues[r]) \in Nat /\ minQuorumNodes \in Nat \ {0}
        BY RoundsAssumption DEF RoundsInv, Typed, Ranges, RoundsAssumption
      <4>2. Len(roundValues[r]) >= minQuorumNodes
        BY <2>1 DEF HasQuorum
      <4> QED
        BY <4>1, <4>2
    <3> DEFINE m == Median(roundValues[r])
    <3>2. rounds' = [rounds EXCEPT ![r].state = "SETTLED",
                       ![r].settledAt = now, ![r].aggregatedValue = m]
      BY <2>1
    <3> HIDE DEF m
    <3>3. rounds'[r].state = "SETTLED" /\ rounds'[r].aggregatedValue = m
      BY <1>2, <3>2 DEF RoundOf
    <3> QED
      BY <3>1, <3>3 DEF PriceSound, m
  <2>2. CASE rounds' = [rounds EXCEPT ![r].state = "FAILED",
                                      ![r].settledAt = now]
    <3>1. /\ rounds'[r].state = "FAILED"
          /\ rounds'[r].aggregatedValue = rounds[r].aggregatedValue
      BY <1>2, <2>2 DEF RoundOf
    <3> QED
      BY <1>3, <3>1 DEF PriceSound, PricesSound
  <2> QED
    BY <2>1, <2>2 DEF SettleRound
<1> SUFFICES ASSUME NEW q \in RoundIds
             PROVE  /\ PriceSound(rounds'[q], roundValues[q])
                    /\ q >= nextRoundId => rounds'[q].feedId = NoFeed
                    /\ q < nextRoundId => rounds'[q].state # "NONE"
  BY <1>1 DEF PricesSound
<1>5. CASE q = r
  BY <1>4, <1>5, SettleRoundWrites DEF PricesSound, SameRound
<1>6. CASE q # r
  BY <1>6, SettleRoundWrites DEF PricesSound
<1> QED
  BY <1>5, <1>6

LEMMA PricesStep == RoundsInv /\ Ranges /\ PricesSound /\ [Next]_vars
                    => PricesSound'
<1> SUFFICES ASSUME RoundsInv, Ranges, PricesSound, [Next]_vars
             PROVE  PricesSound'
  OBVIOUS
<1>1. CASE Aside
  BY <1>1 DEF Aside, PricesSound, PriceSound
<1> QED
  BY <1>1, StepCases, OpenRoundKeepsPrices, SubmitKeepsPrices,
     SettleRoundKeepsPrices

LEMMA PricesInit == Init => Ranges /\ PricesSound
<1> SUFFICES ASSUME Init PROVE Ranges /\ PricesSound
  OBVIOUS
<1>1. Ranges
  <2>1. MaxTime \in Nat
    BY RoundsAssumption DEF RoundsAssumption
  <2>2. now \in 0..MaxTime
    BY <2>1 DEF Init
  <2> QED
    BY <2>2 DEF Init, Ranges
<1>2. \A r \in RoundIds : ~(r < nextRoundId)
  BY DEF Init, RoundIds
<1>3. PricesSound
  BY <1>2 DEF Init, PricesSound, PriceSound, NoRound
<1> QED
  BY <1>1, <1>3

(* Numbers stay in their ranges; prices in a round are ones a node may     *)
(* send, and a settled round's value lies in the middle of its round's     *)
(* (OracleRounds.submit, settleRound and _median).                         *)
THEOREM PricesInvariant == Spec => [](Ranges /\ PricesSound)
BY RoundsInvariant, PricesInit, RangesStep, PricesStep, PTL DEF Spec

LEMMA ValuesAreInts == ASSUME RoundsInv, NEW r \in RoundIds
                       PROVE  /\ roundValues[r] \in Seq(Int)
                              /\ roundValues[r] \in Seq(Nat)
<1>1. Values \subseteq Nat /\ Values \subseteq Int
  BY RoundsAssumption DEF RoundsAssumption
<1>2. roundValues[r] \in Seq(Values)
  BY DEF RoundsInv, Typed
<1> QED
  BY <1>1, <1>2, SeqMonotonic

LEMMA MedianIsPrice ==
  ASSUME NEW s \in Seq(Int), NEW m, Central(s, m),
         \A i \in 1..Len(s) : s[i] \in Nat
  PROVE  m \in Nat
<1>1. PICK i, j \in 1..Len(s) : m = (s[i] + s[j]) \div 2
  BY DEF Central
<1>2. s[i] \in Nat /\ s[j] \in Nat
  OBVIOUS
<1>3. \A a, b \in Nat : (a + b) \div 2 \in Nat
  OBVIOUS
<1> QED
  BY <1>1, <1>2, <1>3

(* A settled round reports a value that no outlier and no order of arrival *)
(* can carry away from the middle of what was submitted.                   *)
THEOREM SettledAtMedian == Spec => []MedianIsCentral
<1>1. RoundsInv /\ PricesSound => MedianIsCentral
  <2> SUFFICES ASSUME RoundsInv, PricesSound, NEW r \in RoundIds,
                      rounds[r].state = "SETTLED"
               PROVE  Central(roundValues[r], rounds[r].aggregatedValue)
    BY DEF MedianIsCentral, Central
  <2>1. /\ rounds[r].aggregatedValue = Median(roundValues[r])
        /\ Len(roundValues[r]) > 0
    BY DEF PricesSound, PriceSound
  <2> QED
    BY <2>1, ValuesAreInts, MedianCentral
<1> QED
  BY <1>1, RoundsInvariant, PricesInvariant, PTL

LEMMA RoundsTyped == RoundsInv /\ Ranges /\ PricesSound => TypeOK
<1> SUFFICES ASSUME RoundsInv, Ranges, PricesSound PROVE TypeOK
  OBVIOUS
<1>1. PICK V : rounds \in [RoundIds -> RoundOf(V)]
  BY DEF RoundsInv, Typed
<1>2. ASSUME NEW r \in RoundIds
      PROVE  rounds[r] \in Round
  <2>1. rounds[r].aggregatedValue \in Nat
    <3>1. CASE rounds[r].state = "SETTLED"
      <4>1. /\ rounds[r].aggregatedValue = Median(roundValues[r])
            /\ Len(roundValues[r]) > 0
        BY <3>1 DEF PricesSound, PriceSound
      <4>2. roundValues[r] \in Seq(Int) /\ roundValues[r] \in Seq(Nat)
        BY ValuesAreInts
      <4>3. \A i \in 1..Len(roundValues[r]) : roundValues[r][i] \in Nat
        BY <4>2
      <4>4. Central(roundValues[r], Median(roundValues[r]))
        BY <4>1, <4>2, MedianCentral
      <4> QED
        BY <4>1, <4>2, <4>3, <4>4, MedianIsPrice
    <3>2. CASE rounds[r].state # "SETTLED"
      BY <3>2 DEF PricesSound, PriceSound
    <3> QED
      BY <3>1, <3>2
  <2>2. rounds[r] \in RoundOf(V)
    BY <1>1
  <2> QED
    BY <2>1, <2>2 DEF RoundOf, Round
<1>3. \A r \in RoundIds :
        /\ rounds[r].state = "NONE" <=> r >= nextRoundId
        /\ rounds[r].feedId = NoFeed <=> r >= nextRoundId
  <2> TAKE r \in RoundIds
  <2>1. r \in Nat /\ nextRoundId \in Nat
    BY DEF RoundsInv, Typed, RoundIds
  <2>2. CASE r >= nextRoundId
    BY <2>2 DEF RoundsInv, OpenedInOrder, PricesSound
  <2>3. CASE ~(r >= nextRoundId)
    <3>1. r < nextRoundId
      BY <2>1, <2>3
    <3> QED
      BY <2>3, <3>1, RoundsAssumption
         DEF RoundsInv, OpenedInOrder, PricesSound, RoundsAssumption
  <2> QED
    BY <2>2, <2>3
<1>4. rounds \in [RoundIds -> Round]
  BY <1>1, <1>2
<1> QED
  BY <1>3, <1>4 DEF TypeOK, RoundsInv, Typed, Ranges

(* Every reachable state of the contract has its type: a round that is     *)
(* still to be opened is blank, one that was opened belongs to a feed, and *)
(* the reported price is a natural number.                                 *)
THEOREM RoundsTypeOK == Spec => []TypeOK
BY RoundsTyped, RoundsInvariant, PricesInvariant, PTL
===============================================================================
