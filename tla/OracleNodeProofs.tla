-------------------------- MODULE OracleNodeProofs --------------------------
(***************************************************************************)
(* Theorems about OracleNode: one daemon beside a live OracleRounds, for   *)
(* any sources and prices, any other nodes, and any length of a round that *)
(* a poll, the headroom and a wait fit into.                               *)
(***************************************************************************)
EXTENDS OracleNode, DataFacts, TLAPS

(* The chain. *)

(* A round with the settled value left open: the daemon never reads it.    *)
RoundOf(V) ==
  [feedId : Feeds \cup {NoFeed}, deadline : Nat, settledAt : Nat,
   state : Rounds!RoundState, nodeSetVersion : 0..MaxVersion,
   eligibleCount : Nat, aggregatedValue : V]

ChainTyped ==
  /\ Rounds!Registry!TypeOK
  /\ now \in 0..MaxTime
  /\ nextRoundId \in 1..(MaxRounds + 1)
  /\ feeds \in [Feeds -> Rounds!Feed]
  /\ \E V : rounds \in [RoundIds -> RoundOf(V)]
  /\ roundValues \in [RoundIds -> Seq(Nat)]
  /\ submitted \in [RoundIds -> SUBSET Nodes]
  /\ nonces \in [Nodes -> Nat]
  /\ roundDuration \in Durations
  /\ snapshot \in [RoundIds -> SUBSET Nodes]
  /\ openedAt \in [RoundIds -> Nat]

RegistrySound ==
  /\ \A n \in Nodes : activatedAt[n] <= version
  /\ Cardinality(active) <= Ceiling

(* A round still to come is blank. *)
BlankAhead ==
  \A r \in RoundIds : r >= nextRoundId =>
    /\ rounds[r].state = "NONE"
    /\ rounds[r].settledAt = 0
    /\ submitted[r] = {}
    /\ roundValues[r] = <<>>

(* What an opened round has fixed. *)
OpenedSound ==
  \A r \in RoundIds : r < nextRoundId =>
    /\ rounds[r].nodeSetVersion <= version
    /\ Rounds!Registry!EligibleAt(rounds[r].nodeSetVersion) \subseteq snapshot[r]
    /\ Cardinality(snapshot[r]) <= Ceiling
    /\ openedAt[r] <= now
    /\ rounds[r].deadline - openedAt[r] \in Durations
    /\ rounds[r].deadline <= MaxTime

AnswersMatch ==
  \A r \in RoundIds :
    /\ submitted[r] \subseteq snapshot[r]
    /\ Len(roundValues[r]) = Cardinality(submitted[r])

(* The rounds of the one feed follow one another. *)
LastIsCurrent ==
  /\ feeds[MyFeed].currentRoundId = nextRoundId - 1
  /\ \A r \in RoundIds : Rounds!IsLive(rounds[r].state) => r = nextRoundId - 1

AnsweredBy(n) == {r \in RoundIds : n \in submitted[r]}

NonceCounts == nonces[Self] = Cardinality(AnsweredBy(Self))

ChainInv ==
  /\ ChainTyped
  /\ RegistrySound
  /\ BlankAhead
  /\ OpenedSound
  /\ AnswersMatch
  /\ LastIsCurrent
  /\ NonceCounts

(* What no step of the chain takes back. *)
GoesOn ==
  /\ now <= now'
  /\ nextRoundId <= nextRoundId'
  /\ \A r \in RoundIds : r < nextRoundId =>
       /\ rounds'[r].deadline = rounds[r].deadline
       /\ rounds'[r].nodeSetVersion = rounds[r].nodeSetVersion
       /\ openedAt'[r] = openedAt[r]
       /\ snapshot'[r] = snapshot[r]
       /\ submitted[r] \subseteq submitted'[r]

-----------------------------------------------------------------------------
(* Counting. *)

LEMMA SameCount ==
  /\ \A S : Rounds!Cardinality(S) = Cardinality(S)
  /\ \A S : Rounds!Registry!Cardinality(S) = Cardinality(S)
BY DEF Cardinality, Rounds!Cardinality, Rounds!Registry!Cardinality

LEMMA NodesFinite ==
  ASSUME NEW S \in SUBSET Nodes
  PROVE  IsFiniteSet(S) /\ Cardinality(S) \in Nat
BY FS_Subset, FS_CardinalityType, NodeAssumption DEF NodeAssumption

LEMMA Numbers ==
  /\ Ceiling \in Nat /\ MaxVersion \in Nat /\ MaxSubmissions \in Nat
  /\ MaxTime \in Nat /\ MaxRounds \in Nat /\ MaxPool \in Nat
  /\ MaxFaults \in Nat /\ SubmitBefore \in Nat /\ MinSources \in Nat
  /\ Durations \subseteq Nat /\ Self \in Nodes /\ MyFeed \in Feeds
  /\ Values \subseteq Nat
BY NodeAssumption DEF NodeAssumption

LEMMA RoundsFinite ==
  ASSUME NEW S \in SUBSET RoundIds
  PROVE  /\ IsFiniteSet(S) /\ Cardinality(S) \in Nat
         /\ Cardinality(S) <= MaxRounds
<1>1. IsFiniteSet(RoundIds) /\ Cardinality(RoundIds) = MaxRounds
  BY IntervalCount, Numbers DEF RoundIds
<1> QED
  BY <1>1, FS_Subset, FS_CardinalityType

-----------------------------------------------------------------------------
(* The registry. *)

LEMMA JoinKeeps ==
  ASSUME Rounds!Registry!TypeOK, RegistrySound,
         NEW n \in Nodes, Rounds!Registry!Join(n)
  PROVE  /\ Rounds!Registry!TypeOK'
         /\ RegistrySound'
         /\ version <= version'
         /\ \A v \in 0..version : Rounds!Registry!EligibleAt(v)'
                                    \subseteq Rounds!Registry!EligibleAt(v)
<1>1. /\ version' = version + 1 /\ version < MaxVersion
      /\ active' = active \cup {n} /\ n \notin active
      /\ activatedAt' = [activatedAt EXCEPT ![n] = version + 1]
      /\ Cardinality(active) < Ceiling
  BY SameCount DEF Rounds!Registry!Join
<1>2. version \in Nat /\ version \in 0..MaxVersion
  BY Numbers DEF Rounds!Registry!TypeOK
<1>3. Rounds!Registry!TypeOK'
  BY <1>1, <1>2, Numbers DEF Rounds!Registry!TypeOK
<1>4. Cardinality(active') <= Ceiling
  <2>1. IsFiniteSet(active) /\ Cardinality(active) \in Nat
    BY NodesFinite DEF Rounds!Registry!TypeOK
  <2>2. Cardinality(active') = Cardinality(active) + 1
    BY <1>1, <2>1, FS_AddElement
  <2> QED
    BY <1>1, <2>1, <2>2, Numbers
<1>5. RegistrySound'
  BY <1>1, <1>2, <1>4 DEF RegistrySound, Rounds!Registry!TypeOK
<1>6. ASSUME NEW v \in 0..version
      PROVE  Rounds!Registry!EligibleAt(v)'
               \subseteq Rounds!Registry!EligibleAt(v)
  BY <1>1, <1>2 DEF Rounds!Registry!EligibleAt, Rounds!Registry!TypeOK
<1> QED
  BY <1>1, <1>2, <1>3, <1>5, <1>6

LEMMA LeaveKeeps ==
  ASSUME Rounds!Registry!TypeOK, RegistrySound,
         NEW n \in Nodes, Rounds!Registry!Leave(n)
  PROVE  /\ Rounds!Registry!TypeOK'
         /\ RegistrySound'
         /\ version <= version'
         /\ \A v \in 0..version : Rounds!Registry!EligibleAt(v)'
                                    \subseteq Rounds!Registry!EligibleAt(v)
<1>1. /\ version' = version + 1 /\ version < MaxVersion
      /\ active' = active \ {n} /\ activatedAt' = activatedAt
  BY DEF Rounds!Registry!Leave
<1>2. version \in Nat /\ version \in 0..MaxVersion
  BY Numbers DEF Rounds!Registry!TypeOK
<1>3. Rounds!Registry!TypeOK'
  BY <1>1, <1>2, Numbers DEF Rounds!Registry!TypeOK
<1>4. Cardinality(active') <= Ceiling
  <2>1. IsFiniteSet(active) /\ Cardinality(active) \in Nat
    BY NodesFinite DEF Rounds!Registry!TypeOK
  <2>2. Cardinality(active) <= Ceiling
    BY DEF RegistrySound
  <2>3. Cardinality(active') <= Cardinality(active)
    BY <1>1, <2>1, FS_Subset
  <2>4. Cardinality(active') \in Nat
    BY <1>3, NodesFinite DEF Rounds!Registry!TypeOK
  <2> QED
    BY <2>1, <2>2, <2>3, <2>4, Numbers
<1>5. RegistrySound'
  BY <1>1, <1>2, <1>4 DEF RegistrySound, Rounds!Registry!TypeOK
<1>6. ASSUME NEW v \in 0..version
      PROVE  Rounds!Registry!EligibleAt(v)'
               \subseteq Rounds!Registry!EligibleAt(v)
  BY <1>1 DEF Rounds!Registry!EligibleAt
<1> QED
  BY <1>1, <1>2, <1>3, <1>5, <1>6

LEMMA RegistryKept ==
  ASSUME Rounds!Registry!TypeOK, RegistrySound, UNCHANGED Rounds!registry
  PROVE  /\ Rounds!Registry!TypeOK'
         /\ RegistrySound'
         /\ version' = version
         /\ \A v : Rounds!Registry!EligibleAt(v)'
                     = Rounds!Registry!EligibleAt(v)
<1>1. active' = active /\ activatedAt' = activatedAt /\ version' = version
  BY DEF Rounds!registry
<1> QED
  BY <1>1 DEF Rounds!Registry!TypeOK, RegistrySound,
              Rounds!Registry!EligibleAt

-----------------------------------------------------------------------------
(* The steps of the chain, one lemma each. *)

rows == <<nextRoundId, feeds, rounds, roundValues, submitted, nonces,
          roundDuration, snapshot, openedAt>>

(* The registry, the pause or the clock. *)
Around ==
  /\ [Rounds!Registry!Next]_(Rounds!Registry!vars)
  /\ now' \in 0..MaxTime /\ now <= now'
  /\ UNCHANGED rows

LEMMA AroundKeeps ==
  ASSUME ChainInv, Around
  PROVE  ChainInv' /\ GoesOn
<1>1. /\ Rounds!Registry!TypeOK'
      /\ RegistrySound'
      /\ version <= version'
      /\ \A v \in 0..version : Rounds!Registry!EligibleAt(v)'
                                 \subseteq Rounds!Registry!EligibleAt(v)
  <2>1. CASE Rounds!Registry!Next
    BY <2>1, JoinKeeps, LeaveKeeps
       DEF ChainInv, ChainTyped, Rounds!Registry!Next
  <2>2. CASE UNCHANGED Rounds!Registry!vars
    <3>1. UNCHANGED Rounds!registry
      BY <2>2 DEF Rounds!Registry!vars, Rounds!registry
    <3>2. version \in Nat
      BY DEF ChainInv, ChainTyped, Rounds!Registry!TypeOK
    <3> QED
      BY <3>1, <3>2, RegistryKept DEF ChainInv, ChainTyped
  <2> QED
    BY <2>1, <2>2 DEF Around
<1>2. /\ nextRoundId' = nextRoundId /\ feeds' = feeds /\ rounds' = rounds
      /\ roundValues' = roundValues /\ submitted' = submitted
      /\ nonces' = nonces /\ roundDuration' = roundDuration
      /\ snapshot' = snapshot /\ openedAt' = openedAt
  BY DEF Around, rows
<1>3. /\ version \in Nat /\ version' \in Nat
      /\ now \in Nat /\ now' \in Nat /\ now <= now'
      /\ nextRoundId \in Nat
  BY <1>1 DEF ChainInv, ChainTyped, Rounds!Registry!TypeOK, Around
<1>4. ChainTyped'
  <2>1. now' \in 0..MaxTime
    BY DEF Around
  <2> QED
    BY <1>1, <1>2, <2>1 DEF ChainInv, ChainTyped
<1>5. BlankAhead' /\ AnswersMatch' /\ LastIsCurrent' /\ NonceCounts'
  BY <1>2 DEF ChainInv, BlankAhead, AnswersMatch, LastIsCurrent, NonceCounts,
              AnsweredBy
<1>6. OpenedSound'
  <2> SUFFICES ASSUME NEW r \in RoundIds, r < nextRoundId
               PROVE  /\ rounds[r].nodeSetVersion <= version'
                      /\ Rounds!Registry!EligibleAt(rounds[r].nodeSetVersion)'
                           \subseteq snapshot[r]
                      /\ Cardinality(snapshot[r]) <= Ceiling
                      /\ openedAt[r] <= now'
                      /\ rounds[r].deadline - openedAt[r] \in Durations
                      /\ rounds[r].deadline <= MaxTime
    BY <1>2 DEF OpenedSound
  <2>1. rounds[r].nodeSetVersion \in Nat /\ openedAt[r] \in Nat
    BY DEF ChainInv, ChainTyped, RoundOf
  <2>2. PICK v \in 0..version : v = rounds[r].nodeSetVersion
    BY <1>3, <2>1 DEF ChainInv, OpenedSound
  <2>3. Rounds!Registry!EligibleAt(v)' \subseteq Rounds!Registry!EligibleAt(v)
    BY <1>1
  <2>4. rounds'[r].nodeSetVersion = v
    BY <1>2, <2>2
  <2>5. Rounds!Registry!EligibleAt(v) \subseteq snapshot[r]
    BY <2>2 DEF ChainInv, OpenedSound
  <2>6. Rounds!Registry!EligibleAt(rounds[r].nodeSetVersion)'
          \subseteq snapshot[r]
    BY <2>3, <2>4, <2>5 DEF Rounds!Registry!EligibleAt
  <2>7. rounds[r].nodeSetVersion <= version'
    BY <1>1, <1>3, <2>2
  <2>8. openedAt[r] <= now /\ openedAt[r] <= now'
    BY <1>3, <2>1 DEF ChainInv, OpenedSound
  <2> QED
    BY <2>6, <2>7, <2>8 DEF ChainInv, OpenedSound
<1>7. GoesOn
  BY <1>2, <1>3 DEF GoesOn
<1> QED
  BY <1>1, <1>4, <1>5, <1>6, <1>7 DEF ChainInv

(* What the step leaves of the chain when it is none of the chain's. *)
LEMMA StillKeeps ==
  ASSUME ChainInv, UNCHANGED <<chain, openedAt>>
  PROVE  ChainInv' /\ GoesOn
<1>1. UNCHANGED rows
  BY DEF chain, rows
<1>2. UNCHANGED Rounds!Registry!vars
  BY DEF chain, Rounds!Registry!vars
<1>3. now' = now /\ now \in 0..MaxTime
  BY DEF chain, ChainInv, ChainTyped
<1>4. Around
  BY <1>1, <1>2, <1>3 DEF Around
<1> QED
  BY <1>4, AroundKeeps

(* What OpenRound writes. *)
Fresh ==
  [feedId |-> MyFeed, deadline |-> now + roundDuration, settledAt |-> 0,
   state |-> "OPEN", nodeSetVersion |-> version,
   eligibleCount |-> Cardinality(active), aggregatedValue |-> 0]

LEMMA OpenWrites ==
  ASSUME ChainInv, OpenRound
  PROVE  /\ nextRoundId \in RoundIds
         /\ nextRoundId' = nextRoundId + 1
         /\ rounds'[nextRoundId] = Fresh
         /\ snapshot'[nextRoundId] = active
         /\ openedAt'[nextRoundId] = now
         /\ \A r \in RoundIds \ {nextRoundId} :
              /\ rounds'[r] = rounds[r] /\ snapshot'[r] = snapshot[r]
              /\ openedAt'[r] = openedAt[r]
         /\ feeds'[MyFeed].currentRoundId = nextRoundId
         /\ now + roundDuration < MaxTime
         /\ ~paused /\ ~paused'
         /\ \A r \in RoundIds : ~Rounds!IsLive(rounds[r].state)
         /\ UNCHANGED <<Rounds!registry, now, roundValues, submitted, nonces,
                        roundDuration>>
         /\ ChainTyped'
<1>1. /\ nextRoundId <= MaxRounds
      /\ ~paused /\ paused' = paused
      /\ now + roundDuration < MaxTime
      /\ nextRoundId' = nextRoundId + 1
      /\ rounds' = [rounds EXCEPT ![nextRoundId] = Fresh]
      /\ snapshot' = [snapshot EXCEPT ![nextRoundId] = active]
      /\ feeds' = [feeds EXCEPT ![MyFeed].currentRoundId = nextRoundId]
      /\ UNCHANGED <<Rounds!registry, now, roundValues, submitted, nonces,
                     roundDuration>>
  BY SameCount
     DEF OpenRound, Rounds!OpenRound, Fresh, Rounds!answers, Rounds!parameters
<1>2. openedAt' = [openedAt EXCEPT ![nextRoundId] = now]
  BY DEF OpenRound
<1>3. nextRoundId \in RoundIds /\ nextRoundId \in Nat
  BY <1>1, Numbers DEF ChainInv, ChainTyped, RoundIds
<1>4. PICK V : rounds \in [RoundIds -> RoundOf(V)]
  BY DEF ChainInv, ChainTyped
<1>5. Fresh \in RoundOf(V \cup {0})
  <2>1. version \in 0..MaxVersion /\ active \in SUBSET Nodes
    BY DEF ChainInv, ChainTyped, Rounds!Registry!TypeOK
  <2>2. now + roundDuration \in Nat
    BY Numbers DEF ChainInv, ChainTyped
  <2>3. Cardinality(active) \in Nat
    BY <2>1, NodesFinite
  <2> QED
    BY <2>1, <2>2, <2>3, Numbers DEF Fresh, RoundOf, Rounds!RoundState
<1>6. rounds' \in [RoundIds -> RoundOf(V \cup {0})]
  BY <1>1, <1>3, <1>4, <1>5 DEF RoundOf
<1>7. snapshot' \in [RoundIds -> SUBSET Nodes]
  BY <1>1 DEF ChainInv, ChainTyped, Rounds!Registry!TypeOK
<1>8. openedAt' \in [RoundIds -> Nat]
  <2>1. now \in Nat
    BY DEF ChainInv, ChainTyped
  <2> QED
    BY <1>2, <2>1 DEF ChainInv, ChainTyped
<1>9. nextRoundId' \in 1..(MaxRounds + 1)
  BY <1>1, <1>3, Numbers
<1>10. /\ feeds' \in [Feeds -> Rounds!Feed]
       /\ feeds'[MyFeed].currentRoundId = nextRoundId
  <2>1. feeds[MyFeed] \in Rounds!Feed /\ nextRoundId \in 0..MaxRounds
    BY <1>1, <1>3, Numbers DEF ChainInv, ChainTyped
  <2>2. [feeds[MyFeed] EXCEPT !.currentRoundId = nextRoundId] \in Rounds!Feed
    BY <2>1 DEF Rounds!Feed
  <2> QED
    BY <1>1, <2>1, <2>2, Numbers DEF ChainInv, ChainTyped, Rounds!Feed
<1>11. Rounds!Registry!TypeOK'
  BY <1>1, RegistryKept DEF ChainInv, ChainTyped
<1>12. ChainTyped'
  BY <1>1, <1>6, <1>7, <1>8, <1>9, <1>10, <1>11 DEF ChainInv, ChainTyped
<1>13. ASSUME NEW r \in RoundIds, Rounds!IsLive(rounds[r].state)
       PROVE  FALSE
  <2>1. r = feeds[MyFeed].currentRoundId /\ r # 0
    BY <1>13 DEF ChainInv, LastIsCurrent, RoundIds
  <2> QED
    BY <1>13, <2>1 DEF OpenRound, Rounds!OpenRound
<1>14. /\ rounds'[nextRoundId] = Fresh
       /\ snapshot'[nextRoundId] = active
       /\ openedAt'[nextRoundId] = now
       /\ \A r \in RoundIds \ {nextRoundId} :
            /\ rounds'[r] = rounds[r] /\ snapshot'[r] = snapshot[r]
            /\ openedAt'[r] = openedAt[r]
  BY <1>1, <1>2, <1>3, <1>4 DEF ChainInv, ChainTyped
<1> QED
  BY <1>1, <1>3, <1>10, <1>12, <1>13, <1>14

LEMMA OpenKeeps ==
  ASSUME ChainInv, OpenRound
  PROVE  ChainInv' /\ GoesOn
<1> DEFINE new == nextRoundId
<1>1. /\ new \in RoundIds /\ new \in Nat /\ nextRoundId' = new + 1
      /\ \A r \in RoundIds : r \in Nat
  BY OpenWrites DEF RoundIds
<1>2. /\ rounds'[new].state = "OPEN"
      /\ rounds'[new].nodeSetVersion = version
      /\ rounds'[new].deadline = now + roundDuration
      /\ snapshot'[new] = active
      /\ openedAt'[new] = now
  <2>1. rounds'[new] = Fresh /\ snapshot'[new] = active /\ openedAt'[new] = now
    BY OpenWrites
  <2> HIDE DEF new
  <2> QED
    BY <2>1 DEF Fresh
<1>3. \A r \in RoundIds : r # new =>
        rounds'[r] = rounds[r] /\ snapshot'[r] = snapshot[r]
        /\ openedAt'[r] = openedAt[r]
  BY OpenWrites
<1>4. /\ now' = now /\ roundValues' = roundValues /\ submitted' = submitted
      /\ nonces' = nonces
  BY OpenWrites
<1>5. /\ RegistrySound'
      /\ version' = version
      /\ \A v : Rounds!Registry!EligibleAt(v)'
                  = Rounds!Registry!EligibleAt(v)
  BY RegistryKept, OpenWrites DEF ChainInv, ChainTyped
<1>6. now \in Nat /\ roundDuration \in Nat /\ roundDuration \in Durations
      /\ version \in Nat /\ now + roundDuration < MaxTime
  BY OpenWrites, Numbers DEF ChainInv, ChainTyped, Rounds!Registry!TypeOK
<1>7. ChainTyped'
  BY OpenWrites
<1> HIDE DEF new
<1>8. BlankAhead'
  <2> SUFFICES ASSUME NEW r \in RoundIds, r >= new + 1
               PROVE  /\ rounds'[r].state = "NONE" /\ rounds'[r].settledAt = 0
                      /\ submitted[r] = {} /\ roundValues[r] = <<>>
    BY <1>1, <1>4 DEF BlankAhead
  <2>1. r # new /\ r >= nextRoundId
    BY <1>1 DEF new
  <2> QED
    BY <1>3, <2>1 DEF ChainInv, BlankAhead
<1>9. OpenedSound'
  <2> SUFFICES ASSUME NEW r \in RoundIds, r < new + 1
               PROVE  /\ rounds'[r].nodeSetVersion <= version
                      /\ Rounds!Registry!EligibleAt(rounds'[r].nodeSetVersion)
                           \subseteq snapshot'[r]
                      /\ Cardinality(snapshot'[r]) <= Ceiling
                      /\ openedAt'[r] <= now
                      /\ rounds'[r].deadline - openedAt'[r] \in Durations
                      /\ rounds'[r].deadline <= MaxTime
    <3>1. \A r : Rounds!Registry!EligibleAt(rounds'[r].nodeSetVersion)
                   = Rounds!Registry!EligibleAt(rounds[r].nodeSetVersion)'
      BY OpenWrites DEF Rounds!Registry!EligibleAt, Rounds!registry
    <3> QED
      BY <1>1, <1>4, <1>5, <3>1 DEF OpenedSound
  <2>1. CASE r = new
    <3>1. Rounds!Registry!EligibleAt(version) \subseteq active
      BY DEF Rounds!Registry!EligibleAt
    <3>2. Cardinality(active) <= Ceiling
      BY DEF ChainInv, RegistrySound
    <3>3. (now + roundDuration) - now = roundDuration
          /\ now + roundDuration <= MaxTime
      BY <1>6, Numbers
    <3> QED
      BY <1>2, <1>6, <2>1, <3>1, <3>2, <3>3
  <2>2. CASE r # new
    <3>1. r < nextRoundId
      BY <1>1, <2>2 DEF new
    <3> QED
      BY <1>3, <2>2, <3>1 DEF ChainInv, OpenedSound
  <2> QED
    BY <2>1, <2>2
<1>10. AnswersMatch'
  <2> SUFFICES ASSUME NEW r \in RoundIds
               PROVE  submitted[r] \subseteq snapshot'[r]
    BY <1>4 DEF ChainInv, AnswersMatch
  <2>1. CASE r = new
    <3>1. r >= nextRoundId
      BY <1>1, <2>1 DEF new
    <3> QED
      BY <3>1 DEF ChainInv, BlankAhead
  <2>2. CASE r # new
    BY <1>3, <2>2 DEF ChainInv, AnswersMatch
  <2> QED
    BY <2>1, <2>2
<1>11. LastIsCurrent'
  <2>1. feeds'[MyFeed].currentRoundId = new /\ new = (new + 1) - 1
    BY <1>1, OpenWrites DEF new
  <2>2. ASSUME NEW r \in RoundIds, Rounds!IsLive(rounds'[r].state)
        PROVE  r = new
    BY <1>3, <2>2, OpenWrites
  <2>3. \A r \in RoundIds : Rounds!IsLive(rounds'[r].state)
                              => r = (new + 1) - 1
    BY <1>1, <2>2
  <2>4. \A r \in RoundIds : Rounds!IsLive(rounds[r].state)'
                              <=> Rounds!IsLive(rounds'[r].state)
    BY DEF Rounds!IsLive
  <2> QED
    BY <1>1, <2>1, <2>3, <2>4 DEF LastIsCurrent
<1>12. NonceCounts'
  BY <1>4 DEF ChainInv, NonceCounts, AnsweredBy
<1>13. GoesOn
  <2>1. nextRoundId <= nextRoundId' /\ now <= now'
    BY <1>1, <1>4, <1>6 DEF new
  <2>2. \A r \in RoundIds : r < nextRoundId => r # new
    BY <1>1 DEF new
  <2> QED
    BY <1>3, <1>4, <2>1, <2>2 DEF GoesOn
<1> QED
  BY <1>5, <1>7, <1>8, <1>9, <1>10, <1>11, <1>12, <1>13 DEF ChainInv

(* A round's record keeps what fixed it: all but its state, the time it    *)
(* closed and its value.                                                   *)
SameRound(old, new) ==
  /\ new.deadline = old.deadline
  /\ new.nodeSetVersion = old.nodeSetVersion

LEMMA SubmitWrites ==
  ASSUME ChainInv, NEW n \in Nodes, NEW r \in RoundIds, NEW value \in Nat,
         NEW k, Rounds!Submit(n, r, value, k)
  PROVE  /\ ~paused /\ ~paused'
         /\ Rounds!IsLive(rounds[r].state)
         /\ n \in Rounds!Registry!EligibleAt(rounds[r].nodeSetVersion)
         /\ n \notin submitted[r]
         /\ k = nonces[n]
         /\ Rounds!IsLive(rounds'[r].state)
         /\ rounds'[r].settledAt = rounds[r].settledAt
         /\ SameRound(rounds[r], rounds'[r])
         /\ submitted'[r] = submitted[r] \cup {n}
         /\ Len(roundValues'[r]) = Len(roundValues[r]) + 1
         /\ \A q \in RoundIds \ {r} : /\ rounds'[q] = rounds[q]
                                      /\ submitted'[q] = submitted[q]
                                      /\ roundValues'[q] = roundValues[q]
         /\ nonces'[n] = nonces[n] + 1
         /\ \A m \in Nodes \ {n} : nonces'[m] = nonces[m]
         /\ UNCHANGED <<Rounds!registry, now, nextRoundId, feeds,
                        roundDuration, snapshot>>
         /\ openedAt' = openedAt => ChainTyped'
<1>1. PICK V : rounds \in [RoundIds -> RoundOf(V)]
  BY DEF ChainInv, ChainTyped
<1>2. /\ ~paused /\ paused' = paused
      /\ Rounds!IsLive(rounds[r].state)
      /\ n \in Rounds!Registry!EligibleAt(rounds[r].nodeSetVersion)
      /\ n \notin submitted[r]
      /\ k = nonces[n]
      /\ submitted' = [submitted EXCEPT ![r] = @ \cup {n}]
      /\ roundValues' = [roundValues EXCEPT ![r] = Append(@, value)]
      /\ nonces' = [nonces EXCEPT ![n] = nonces[n] + 1]
      /\ UNCHANGED <<Rounds!registry, now, nextRoundId, feeds, roundDuration,
                     snapshot>>
  BY DEF Rounds!Submit, Rounds!parameters
<1>5. /\ \E W : rounds' \in [RoundIds -> RoundOf(W)]
      /\ Rounds!IsLive(rounds'[r].state)
      /\ rounds'[r].settledAt = rounds[r].settledAt
      /\ SameRound(rounds[r], rounds'[r])
      /\ \A q \in RoundIds \ {r} : rounds'[q] = rounds[q]
  <2>1. \/ rounds' = [rounds EXCEPT ![r].state = "QUORUM_MET"]
        \/ rounds' = rounds
    BY DEF Rounds!Submit
  <2>2. CASE rounds' = rounds
    BY <1>1, <1>2, <2>2 DEF SameRound
  <2>3. CASE rounds' = [rounds EXCEPT ![r].state = "QUORUM_MET"]
    <3> DEFINE new == [rounds[r] EXCEPT !.state = "QUORUM_MET"]
    <3>1. rounds[r] \in RoundOf(V)
      BY <1>1
    <3>2. /\ new \in RoundOf(V) /\ new.state = "QUORUM_MET"
          /\ new.settledAt = rounds[r].settledAt
          /\ SameRound(rounds[r], new)
      BY <3>1 DEF RoundOf, Rounds!RoundState, SameRound
    <3>3. rounds' = [rounds EXCEPT ![r] = new]
      BY <2>3
    <3> HIDE DEF new
    <3>4. /\ rounds' \in [RoundIds -> RoundOf(V)]
          /\ rounds'[r] = new
          /\ \A q \in RoundIds \ {r} : rounds'[q] = rounds[q]
      BY <1>1, <3>2, <3>3
    <3> QED
      BY <3>2, <3>4 DEF Rounds!IsLive
  <2> QED
    BY <2>1, <2>2, <2>3
<1>6. /\ submitted' \in [RoundIds -> SUBSET Nodes]
      /\ submitted'[r] = submitted[r] \cup {n}
      /\ \A q \in RoundIds \ {r} : submitted'[q] = submitted[q]
  BY <1>2 DEF ChainInv, ChainTyped
<1>7. /\ roundValues' \in [RoundIds -> Seq(Nat)]
      /\ Len(roundValues'[r]) = Len(roundValues[r]) + 1
      /\ \A q \in RoundIds \ {r} : roundValues'[q] = roundValues[q]
  <2>1. roundValues[r] \in Seq(Nat)
    BY DEF ChainInv, ChainTyped
  <2> DEFINE more == Append(roundValues[r], value)
  <2>2. more \in Seq(Nat) /\ Len(more) = Len(roundValues[r]) + 1
    BY <2>1
  <2>3. roundValues' = [roundValues EXCEPT ![r] = more]
    BY <1>2
  <2> HIDE DEF more
  <2> QED
    BY <2>2, <2>3 DEF ChainInv, ChainTyped
<1>8. /\ nonces' \in [Nodes -> Nat]
      /\ nonces'[n] = nonces[n] + 1
      /\ \A m \in Nodes \ {n} : nonces'[m] = nonces[m]
  BY <1>2 DEF ChainInv, ChainTyped
<1>9. Rounds!Registry!TypeOK'
  BY <1>2, RegistryKept DEF ChainInv, ChainTyped
<1>10. openedAt' = openedAt => ChainTyped'
  BY <1>2, <1>5, <1>6, <1>7, <1>8, <1>9 DEF ChainInv, ChainTyped
<1> QED
  BY <1>2, <1>5, <1>6, <1>7, <1>8, <1>10

LEMMA SubmitKeeps ==
  ASSUME ChainInv, NEW n \in Nodes, NEW r \in RoundIds, NEW value \in Nat,
         NEW k, Rounds!Submit(n, r, value, k), UNCHANGED openedAt
  PROVE  ChainInv' /\ GoesOn
<1>1. /\ now' = now /\ feeds' = feeds /\ snapshot' = snapshot
      /\ nextRoundId' = nextRoundId
  BY SubmitWrites
<1>2. /\ RegistrySound'
      /\ version' = version
      /\ \A v : Rounds!Registry!EligibleAt(v)'
                  = Rounds!Registry!EligibleAt(v)
  BY RegistryKept, SubmitWrites DEF ChainInv, ChainTyped
<1>3. /\ r = nextRoundId - 1 /\ r < nextRoundId
      /\ r \in Nat /\ nextRoundId \in Nat /\ now \in Nat
  <2>1. Rounds!IsLive(rounds[r].state)
    BY SubmitWrites
  <2>2. r = nextRoundId - 1
    BY <2>1 DEF ChainInv, LastIsCurrent
  <2>3. r \in Nat /\ nextRoundId \in Nat /\ now \in Nat
    BY DEF ChainInv, ChainTyped, RoundIds
  <2> QED
    BY <2>2, <2>3
<1>4. BlankAhead'
  <2> SUFFICES ASSUME NEW q \in RoundIds, q >= nextRoundId
               PROVE  /\ rounds'[q].state = "NONE" /\ rounds'[q].settledAt = 0
                      /\ submitted'[q] = {} /\ roundValues'[q] = <<>>
    BY <1>1 DEF BlankAhead
  <2>1. q # r
    BY <1>3
  <2> QED
    BY <2>1, SubmitWrites DEF ChainInv, BlankAhead
<1>5. \A q \in RoundIds : SameRound(rounds[q], rounds'[q])
  BY SubmitWrites DEF SameRound
<1>6. OpenedSound'
  <2> SUFFICES ASSUME NEW q \in RoundIds, q < nextRoundId
               PROVE  /\ rounds'[q].nodeSetVersion <= version
                      /\ Rounds!Registry!EligibleAt(rounds'[q].nodeSetVersion)
                           \subseteq snapshot[q]
                      /\ Cardinality(snapshot[q]) <= Ceiling
                      /\ openedAt[q] <= now
                      /\ rounds'[q].deadline - openedAt[q] \in Durations
                      /\ rounds'[q].deadline <= MaxTime
    <3>1. \A q : Rounds!Registry!EligibleAt(rounds'[q].nodeSetVersion)
                   = Rounds!Registry!EligibleAt(rounds[q].nodeSetVersion)'
      BY SubmitWrites DEF Rounds!Registry!EligibleAt, Rounds!registry
    <3> QED
      BY <1>1, <1>2, <3>1 DEF OpenedSound
  <2> QED
    BY <1>5 DEF SameRound, ChainInv, OpenedSound
<1>7. AnswersMatch'
  <2> SUFFICES ASSUME NEW q \in RoundIds
               PROVE  /\ submitted'[q] \subseteq snapshot[q]
                      /\ Len(roundValues'[q]) = Cardinality(submitted'[q])
    BY <1>1 DEF AnswersMatch
  <2>1. CASE q = r
    <3>1. submitted'[r] = submitted[r] \cup {n} /\ n \notin submitted[r]
      BY SubmitWrites
    <3>2. n \in snapshot[r]
      BY <1>3, SubmitWrites DEF ChainInv, OpenedSound
    <3>3. IsFiniteSet(submitted[r])
      BY NodesFinite DEF ChainInv, ChainTyped
    <3>4. Cardinality(submitted'[r]) = Cardinality(submitted[r]) + 1
      BY <3>1, <3>3, FS_AddElement
    <3> QED
      BY <2>1, <3>1, <3>2, <3>4, SubmitWrites DEF ChainInv, AnswersMatch
  <2>2. CASE q # r
    BY <2>2, SubmitWrites DEF ChainInv, AnswersMatch
  <2> QED
    BY <2>1, <2>2
<1>8. LastIsCurrent'
  <2>1. ASSUME NEW q \in RoundIds, Rounds!IsLive(rounds'[q].state)
        PROVE  q = nextRoundId - 1
    BY <1>3, <2>1, SubmitWrites DEF ChainInv, LastIsCurrent
  <2>2. \A q \in RoundIds : Rounds!IsLive(rounds[q].state)'
                              <=> Rounds!IsLive(rounds'[q].state)
    BY DEF Rounds!IsLive
  <2> QED
    BY <1>1, <2>1, <2>2 DEF ChainInv, LastIsCurrent
<1>9. NonceCounts'
  <2> DEFINE Old == {q \in RoundIds : Self \in submitted[q]}
             New == {q \in RoundIds : Self \in submitted'[q]}
  <2>1. nonces[Self] = Cardinality(Old)
    BY DEF ChainInv, NonceCounts, AnsweredBy
  <2>2. CASE Self = n
    <3>1. New = Old \cup {r} /\ r \notin Old
      BY <2>2, SubmitWrites
    <3>2. IsFiniteSet(Old)
      BY RoundsFinite
    <3> HIDE DEF Old, New
    <3>3. Cardinality(New) = Cardinality(Old) + 1
      BY <3>1, <3>2, FS_AddElement
    <3> QED
      BY <2>1, <2>2, <3>3, SubmitWrites DEF New, NonceCounts, AnsweredBy
  <2>3. CASE Self # n
    <3>1. New = Old
      BY <2>3, SubmitWrites
    <3>2. nonces'[Self] = nonces[Self]
      BY <2>3, SubmitWrites, Numbers
    <3> QED
      BY <2>1, <3>1, <3>2 DEF NonceCounts, AnsweredBy
  <2> QED
    BY <2>2, <2>3
<1>10. GoesOn
  <2>1. \A q \in RoundIds : submitted[q] \subseteq submitted'[q]
    BY SubmitWrites
  <2> QED
    BY <1>1, <1>3, <1>5, <2>1 DEF GoesOn, SameRound
<1> QED
  BY <1>2, <1>4, <1>6, <1>7, <1>8, <1>9, <1>10, SubmitWrites DEF ChainInv

LEMMA SettleWrites ==
  ASSUME ChainInv, NEW r \in RoundIds, Rounds!SettleRound(r)
  PROVE  /\ Rounds!IsLive(rounds[r].state)
         /\ ~Rounds!IsLive(rounds'[r].state)
         /\ SameRound(rounds[r], rounds'[r])
         /\ rounds'[r].settledAt = now
         /\ \A q \in RoundIds \ {r} : rounds'[q] = rounds[q]
         /\ feeds'[MyFeed].currentRoundId = feeds[MyFeed].currentRoundId
         /\ UNCHANGED <<Rounds!registry, now, nextRoundId, roundValues,
                        submitted, nonces, roundDuration, snapshot, paused>>
         /\ openedAt' = openedAt => ChainTyped'
<1>1. PICK V : rounds \in [RoundIds -> RoundOf(V)]
  BY DEF ChainInv, ChainTyped
<1>2. /\ Rounds!IsLive(rounds[r].state)
      /\ UNCHANGED <<Rounds!registry, now, nextRoundId, roundValues,
                     submitted, nonces, roundDuration, snapshot, paused>>
  BY DEF Rounds!SettleRound, Rounds!parameters, Rounds!answers
<1>3. rounds[r] \in RoundOf(V)
  BY <1>1
<1>4. now \in Nat
  BY DEF ChainInv, ChainTyped
<1>5. Rounds!Registry!TypeOK'
  BY <1>2, RegistryKept DEF ChainInv, ChainTyped
<1>6. CASE /\ rounds' = [rounds EXCEPT ![r].state = "SETTLED",
                           ![r].settledAt = now,
                           ![r].aggregatedValue = Rounds!Median(roundValues[r])]
           /\ feeds' = [feeds EXCEPT
                          ![rounds[r].feedId].lastSettledRoundId = r]
  <2> DEFINE m == Rounds!Median(roundValues[r])
             new == [rounds[r] EXCEPT !.state = "SETTLED", !.settledAt = now,
                                      !.aggregatedValue = m]
             f == rounds[r].feedId
             feed == [feeds[f] EXCEPT !.lastSettledRoundId = r]
  <2>1. rounds' = [rounds EXCEPT ![r] = new]
    BY <1>6
  <2>2. /\ new.state = "SETTLED" /\ new.settledAt = now
        /\ SameRound(rounds[r], new)
        /\ new \in RoundOf(V \cup {m})
    <3> HIDE DEF m
    <3> QED
      BY <1>3, <1>4 DEF RoundOf, Rounds!RoundState, SameRound
  <2>3. rounds[r] \in RoundOf(V \cup {m})
        /\ rounds \in [RoundIds -> RoundOf(V \cup {m})]
    <3> HIDE DEF m
    <3> QED
      BY <1>1, <1>3 DEF RoundOf
  <2>4. r \in 0..MaxRounds
    BY Numbers DEF RoundIds
  <2>5. f \in Feeds => /\ feeds[f] \in Rounds!Feed
                       /\ feed \in Rounds!Feed
                       /\ feed.currentRoundId = feeds[f].currentRoundId
    BY <2>4 DEF Rounds!Feed, ChainInv, ChainTyped
  <2>6. feeds' = [feeds EXCEPT ![f] = feed]
    BY <1>6
  <2> HIDE DEF new, feed, m
  <2>7. /\ rounds' \in [RoundIds -> RoundOf(V \cup {m})]
        /\ rounds'[r] = new
        /\ \A q \in RoundIds \ {r} : rounds'[q] = rounds[q]
    BY <2>1, <2>2, <2>3
  <2>8. /\ feeds' \in [Feeds -> Rounds!Feed]
        /\ feeds'[MyFeed].currentRoundId = feeds[MyFeed].currentRoundId
    BY <2>5, <2>6, Numbers DEF ChainInv, ChainTyped
  <2>9. openedAt' = openedAt => ChainTyped'
    BY <1>2, <1>5, <2>7, <2>8 DEF ChainInv, ChainTyped
  <2> QED
    BY <1>2, <2>2, <2>7, <2>8, <2>9 DEF Rounds!IsLive
<1>7. CASE /\ rounds' = [rounds EXCEPT ![r].state = "FAILED",
                                       ![r].settledAt = now]
           /\ UNCHANGED feeds
  <2> DEFINE new == [rounds[r] EXCEPT !.state = "FAILED", !.settledAt = now]
  <2>1. rounds' = [rounds EXCEPT ![r] = new]
    BY <1>7
  <2>2. /\ new.state = "FAILED" /\ new.settledAt = now
        /\ SameRound(rounds[r], new)
        /\ new \in RoundOf(V)
    BY <1>3, <1>4 DEF RoundOf, Rounds!RoundState, SameRound
  <2> HIDE DEF new
  <2>3. /\ rounds' \in [RoundIds -> RoundOf(V)]
        /\ rounds'[r] = new
        /\ \A q \in RoundIds \ {r} : rounds'[q] = rounds[q]
    BY <1>1, <2>1, <2>2
  <2>4. openedAt' = openedAt => ChainTyped'
    BY <1>2, <1>5, <1>7, <2>3 DEF ChainInv, ChainTyped
  <2> QED
    BY <1>2, <1>7, <2>2, <2>3, <2>4 DEF Rounds!IsLive
<1> QED
  BY <1>6, <1>7 DEF Rounds!SettleRound

LEMMA SettleKeeps ==
  ASSUME ChainInv, NEW r \in RoundIds, Rounds!SettleRound(r),
         UNCHANGED openedAt
  PROVE  ChainInv' /\ GoesOn
<1>1. /\ now' = now /\ roundValues' = roundValues /\ submitted' = submitted
      /\ nonces' = nonces /\ snapshot' = snapshot
      /\ nextRoundId' = nextRoundId
  BY SettleWrites
<1>2. /\ RegistrySound'
      /\ version' = version
      /\ \A v : Rounds!Registry!EligibleAt(v)'
                  = Rounds!Registry!EligibleAt(v)
  BY RegistryKept, SettleWrites DEF ChainInv, ChainTyped
<1>3. /\ r = nextRoundId - 1 /\ r < nextRoundId
      /\ r \in Nat /\ nextRoundId \in Nat /\ now \in Nat
  <2>1. r = nextRoundId - 1
    BY SettleWrites DEF ChainInv, LastIsCurrent
  <2>2. r \in Nat /\ nextRoundId \in Nat /\ now \in Nat
    BY DEF ChainInv, ChainTyped, RoundIds
  <2> QED
    BY <2>1, <2>2
<1>4. BlankAhead'
  <2> SUFFICES ASSUME NEW q \in RoundIds, q >= nextRoundId
               PROVE  rounds'[q].state = "NONE" /\ rounds'[q].settledAt = 0
    BY <1>1 DEF ChainInv, BlankAhead
  <2>1. q # r
    BY <1>3
  <2> QED
    BY <2>1, SettleWrites DEF ChainInv, BlankAhead
<1>5. \A q \in RoundIds : SameRound(rounds[q], rounds'[q])
  BY SettleWrites DEF SameRound
<1>6. OpenedSound'
  <2> SUFFICES ASSUME NEW q \in RoundIds, q < nextRoundId
               PROVE  /\ rounds'[q].nodeSetVersion <= version
                      /\ Rounds!Registry!EligibleAt(rounds'[q].nodeSetVersion)
                           \subseteq snapshot[q]
                      /\ Cardinality(snapshot[q]) <= Ceiling
                      /\ openedAt[q] <= now
                      /\ rounds'[q].deadline - openedAt[q] \in Durations
                      /\ rounds'[q].deadline <= MaxTime
    <3>1. \A q : Rounds!Registry!EligibleAt(rounds'[q].nodeSetVersion)
                   = Rounds!Registry!EligibleAt(rounds[q].nodeSetVersion)'
      BY SettleWrites DEF Rounds!Registry!EligibleAt, Rounds!registry
    <3> QED
      BY <1>1, <1>2, <3>1 DEF OpenedSound
  <2> QED
    BY <1>5 DEF SameRound, ChainInv, OpenedSound
<1>7. AnswersMatch' /\ NonceCounts'
  BY <1>1 DEF ChainInv, AnswersMatch, NonceCounts, AnsweredBy
<1>8. LastIsCurrent'
  <2>1. ASSUME NEW q \in RoundIds, Rounds!IsLive(rounds'[q].state)
        PROVE  q = nextRoundId - 1
    BY <2>1, SettleWrites DEF ChainInv, LastIsCurrent
  <2>2. \A q \in RoundIds : Rounds!IsLive(rounds[q].state)'
                              <=> Rounds!IsLive(rounds'[q].state)
    BY DEF Rounds!IsLive
  <2> QED
    BY <1>1, <2>1, <2>2, SettleWrites DEF ChainInv, LastIsCurrent
<1>9. GoesOn
  BY <1>1, <1>3, <1>5 DEF GoesOn, SameRound
<1> QED
  BY <1>2, <1>4, <1>6, <1>7, <1>8, <1>9, SettleWrites DEF ChainInv

-----------------------------------------------------------------------------
(* The daemon. *)

Steps == {"idle", "polling", "round", "standing", "fetching", "priced",
          "signed", "waiting"}

DaemonTyped ==
  /\ vm \in Vms
  /\ step \in Steps
  /\ ticked \in BOOLEAN
  /\ view \in [round : 0..MaxRounds, deadline : 0..MaxTime,
               version : 0..MaxVersion]
  /\ price \in [value : Nat, honest : SUBSET Nat, at : 0..MaxTime]
  /\ nonce \in 0..MaxRounds
  /\ mined \in Nat
  /\ pool \subseteq Tx
  /\ IsFiniteSet(pool)
  /\ awaited \in Tx
  /\ landed \in BOOLEAN
  /\ excused \in BOOLEAN
  /\ faults \in 0..MaxFaults

(* What the daemon holds is of the round it works on: the price it has     *)
(* fetched for that round was fetched while it ran.                        *)
ViewSound ==
  /\ step \in {"idle", "polling"} => view = NoView
  /\ step \notin {"idle", "polling"} =>
       view.round \in RoundIds /\ view.round < nextRoundId
  /\ step \in {"standing", "fetching", "priced", "signed"} =>
       /\ view.deadline = rounds[view.round].deadline
       /\ view.version = rounds[view.round].nodeSetVersion
  /\ step = "fetching" => now <= view.deadline - SubmitBefore
  /\ step \in {"priced", "signed"} =>
       /\ openedAt[view.round] <= price.at
       /\ price.at <= view.deadline - SubmitBefore

(* So was what it has sent. *)
OfItsRound(tx) ==
  /\ tx.round \in RoundIds /\ tx.round < nextRoundId
  /\ openedAt[tx.round] <= tx.fetchedAt
  /\ tx.fetchedAt <= rounds[tx.round].deadline - SubmitBefore
  /\ tx.sentAt <= now

SentSound ==
  /\ \A tx \in pool : OfItsRound(tx)
  /\ step = "waiting" => OfItsRound(awaited) /\ vm = "svm"
  /\ step # "waiting" => awaited = NoTx
  /\ landed => step = "waiting"

NodeInv == ChainInv /\ DaemonTyped /\ ViewSound /\ SentSound

LEMMA RoundTyped ==
  ASSUME ChainInv, NEW r \in RoundIds, r < nextRoundId
  PROVE  /\ rounds[r].deadline \in 0..MaxTime
         /\ rounds[r].nodeSetVersion \in 0..MaxVersion
         /\ openedAt[r] \in Nat /\ openedAt[r] <= now
         /\ now \in 0..MaxTime /\ nextRoundId \in Nat /\ r \in Nat
<1>1. PICK V : rounds[r] \in RoundOf(V)
  BY DEF ChainInv, ChainTyped
<1>2. rounds[r].deadline \in Nat /\ rounds[r].nodeSetVersion \in 0..MaxVersion
  BY <1>1 DEF RoundOf
<1>3. rounds[r].deadline <= MaxTime /\ openedAt[r] <= now
  BY DEF ChainInv, OpenedSound
<1>4. openedAt[r] \in Nat /\ now \in 0..MaxTime
  BY DEF ChainInv, ChainTyped
<1>5. nextRoundId \in Nat /\ r \in Nat
  BY Numbers DEF ChainInv, ChainTyped, RoundIds
<1> QED
  BY <1>2, <1>3, <1>4, <1>5, Numbers

LEMMA OfItsRoundKept ==
  ASSUME ChainInv, ChainInv', GoesOn, NEW tx \in Tx, OfItsRound(tx)
  PROVE  OfItsRound(tx)'
<1>1. tx.round \in RoundIds /\ tx.round < nextRoundId /\ tx.sentAt <= now
  BY DEF OfItsRound
<1>2. tx.sentAt \in Nat
  BY Numbers DEF Tx
<1>3. /\ nextRoundId \in Nat /\ nextRoundId' \in Nat /\ now \in Nat
      /\ now' \in Nat /\ now <= now' /\ nextRoundId <= nextRoundId'
      /\ tx.round \in Nat
  BY <1>1 DEF ChainInv, ChainTyped, GoesOn, RoundIds
<1>4. tx.sentAt <= now' /\ tx.round < nextRoundId'
  BY <1>1, <1>2, <1>3
<1>5. /\ rounds'[tx.round].deadline = rounds[tx.round].deadline
      /\ openedAt'[tx.round] = openedAt[tx.round]
  BY <1>1 DEF GoesOn
<1> QED
  BY <1>1, <1>4, <1>5 DEF OfItsRound

LEMMA RangeGrows ==
  ASSUME NEW a \in Nat, NEW b \in Nat, NEW c \in Nat, a <= b
  PROVE  0..(a + c) \subseteq 0..(b + c)
OBVIOUS

(* The chain and the clock go on beside the daemon. *)
LEMMA BesideKeeps ==
  ASSUME NodeInv, ChainInv', GoesOn,
         UNCHANGED <<vm, step, view, price, nonce, awaited>>,
         ticked' \in BOOLEAN, pool' \subseteq pool,
         mined' \in Nat, mined <= mined', landed' \in BOOLEAN,
         landed' => step = "waiting", excused' \in BOOLEAN,
         faults' \in 0..MaxFaults,
         step = "fetching" => now' <= view.deadline - SubmitBefore
  PROVE  NodeInv'
<1>1. Tx \subseteq Tx'
  <2>0. mined \in Nat
    BY DEF NodeInv, DaemonTyped
  <2>1. 0..(mined + MaxPool) \subseteq 0..(mined' + MaxPool)
    BY <2>0, RangeGrows, Numbers
  <2> QED
    BY <2>1 DEF Tx
<1>2. DaemonTyped'
  <2>1. IsFiniteSet(pool')
    BY FS_Subset DEF NodeInv, DaemonTyped
  <2>2. pool' \subseteq Tx' /\ awaited' \in Tx'
    BY <1>1 DEF NodeInv, DaemonTyped
  <2> QED
    BY <2>1, <2>2 DEF NodeInv, DaemonTyped
<1>3. ViewSound'
  <2>1. /\ step \in {"idle", "polling"} => view' = NoView
        /\ step = "fetching" => now' <= view.deadline - SubmitBefore
    BY DEF NodeInv, ViewSound
  <2>2. ASSUME step \notin {"idle", "polling"}
        PROVE  /\ view.round \in RoundIds /\ view.round < nextRoundId
               /\ view.round < nextRoundId'
               /\ rounds'[view.round].deadline = rounds[view.round].deadline
               /\ rounds'[view.round].nodeSetVersion
                    = rounds[view.round].nodeSetVersion
               /\ openedAt'[view.round] = openedAt[view.round]
    <3>1. view.round \in RoundIds /\ view.round < nextRoundId
      BY <2>2 DEF NodeInv, ViewSound
    <3>2. /\ view.round \in Nat /\ nextRoundId \in Nat /\ nextRoundId' \in Nat
          /\ nextRoundId <= nextRoundId'
      BY <3>1 DEF NodeInv, ChainInv, ChainTyped, RoundIds, GoesOn
    <3>3. view.round < nextRoundId'
      BY <3>1, <3>2
    <3> QED
      BY <3>1, <3>3 DEF GoesOn
  <2> QED
    BY <2>1, <2>2 DEF NodeInv, ViewSound
<1>4. SentSound'
  <2>1. \A tx \in pool' : OfItsRound(tx)'
    BY OfItsRoundKept DEF NodeInv, SentSound, DaemonTyped
  <2>2. step = "waiting" => OfItsRound(awaited)'
    <3> SUFFICES ASSUME step = "waiting" PROVE OfItsRound(awaited)'
      OBVIOUS
    <3>1. PICK tx : tx = awaited
      OBVIOUS
    <3>2. tx \in Tx /\ OfItsRound(tx)
      BY <3>1 DEF NodeInv, SentSound, DaemonTyped
    <3>3. OfItsRound(tx)'
      BY <3>2, OfItsRoundKept DEF NodeInv
    <3>4. awaited' = tx
      BY <3>1
    <3> QED
      BY <3>3, <3>4 DEF OfItsRound
  <2> QED
    BY <2>1, <2>2 DEF NodeInv, SentSound
<1> QED
  BY <1>2, <1>3, <1>4 DEF NodeInv

(* The daemon's own steps, beside a chain that stays. *)
Still == UNCHANGED <<chain, vm, openedAt>>

LEMMA StillSame ==
  ASSUME NodeInv, Still
  PROVE  /\ ChainInv'
         /\ now' = now /\ nextRoundId' = nextRoundId /\ rounds' = rounds
         /\ submitted' = submitted /\ nonces' = nonces /\ snapshot' = snapshot
         /\ feeds' = feeds /\ openedAt' = openedAt /\ vm' = vm
         /\ paused' = paused
         /\ \A tx : OfItsRound(tx)' = OfItsRound(tx)
         /\ mined' = mined => Tx' = Tx
<1>1. /\ now' = now /\ nextRoundId' = nextRoundId /\ rounds' = rounds
      /\ submitted' = submitted /\ nonces' = nonces /\ snapshot' = snapshot
      /\ feeds' = feeds /\ openedAt' = openedAt /\ vm' = vm
      /\ paused' = paused
  BY DEF Still, chain
<1>2. ChainInv'
  BY StillKeeps DEF NodeInv, Still
<1> QED
  BY <1>1, <1>2 DEF OfItsRound, Tx

LEMMA ReturnKeeps ==
  ASSUME NodeInv, Still, Return, mined' = mined,
         pool' \subseteq Tx, IsFiniteSet(pool'),
         \A tx \in pool' : OfItsRound(tx),
         awaited' = NoTx, landed' = FALSE, ticked' \in BOOLEAN,
         excused' \in BOOLEAN, faults' \in 0..MaxFaults
  PROVE  NodeInv'
<1>1. /\ step' = "idle" /\ view' = NoView /\ price' = NoPrice /\ nonce' = 0
  BY DEF Return
<1>2. NoView \in [round : 0..MaxRounds, deadline : 0..MaxTime,
                  version : 0..MaxVersion]
  BY Numbers DEF NoView
<1>3. NoPrice \in [value : Nat, honest : SUBSET Nat, at : 0..MaxTime]
  BY Numbers DEF NoPrice
<1>4. NoTx \in Tx
  <2>1. mined + MaxPool \in Nat /\ 0 \in 0..(mined + MaxPool)
    BY Numbers DEF NodeInv, DaemonTyped
  <2> QED
    BY <2>1, Numbers DEF NoTx, Tx
<1>5. 0 \in 0..MaxRounds
  BY Numbers
<1>6. DaemonTyped'
  <2>1. Tx' = Tx /\ vm' = vm
    BY StillSame
  <2>2. vm' \in Vms /\ mined' \in Nat
    BY <2>1 DEF NodeInv, DaemonTyped
  <2>3. pool' \subseteq Tx' /\ awaited' \in Tx'
    BY <1>4, <2>1
  <2>4. step' \in Steps /\ landed' \in BOOLEAN
    BY <1>1 DEF Steps
  <2> QED
    BY <1>1, <1>2, <1>3, <1>5, <2>2, <2>3, <2>4 DEF DaemonTyped
<1>7. ViewSound'
  BY <1>1 DEF ViewSound
<1>8. SentSound'
  BY <1>1, StillSame DEF SentSound
<1> QED
  BY <1>6, <1>7, <1>8, StillSame DEF NodeInv

LEMMA PlainReturnKeeps ==
  ASSUME NodeInv, Still, Return, step # "waiting",
         UNCHANGED <<ticked, sent, faults>>, excused' \in BOOLEAN
  PROVE  NodeInv'
<1>1. pool' = pool /\ mined' = mined /\ awaited' = awaited /\ landed' = landed
      /\ ticked' = ticked /\ faults' = faults
  BY DEF sent
<1>2. awaited = NoTx /\ landed = FALSE
  BY DEF NodeInv, SentSound, DaemonTyped
<1>3. /\ pool \subseteq Tx /\ IsFiniteSet(pool) /\ ticked \in BOOLEAN
      /\ faults \in 0..MaxFaults /\ \A tx \in pool : OfItsRound(tx)
  BY DEF NodeInv, SentSound, DaemonTyped
<1> QED
  BY <1>1, <1>2, <1>3, ReturnKeeps

(* A step of the daemon that sends nothing. *)
LEMMA WorkKeeps ==
  ASSUME NodeInv, Still, step # "waiting", step' \in Steps, step' # "waiting",
         UNCHANGED <<sent, faults>>, ticked' \in BOOLEAN,
         excused' \in BOOLEAN,
         view' \in [round : 0..MaxRounds, deadline : 0..MaxTime,
                    version : 0..MaxVersion],
         price' \in [value : Nat, honest : SUBSET Nat, at : 0..MaxTime],
         nonce' \in 0..MaxRounds, ViewSound'
  PROVE  NodeInv'
<1>1. pool' = pool /\ mined' = mined /\ awaited' = awaited /\ landed' = landed
      /\ faults' = faults /\ Tx' = Tx /\ vm' = vm
  BY StillSame DEF sent
<1>2. DaemonTyped'
  BY <1>1 DEF NodeInv, DaemonTyped
<1>3. SentSound'
  BY <1>1, StillSame DEF NodeInv, SentSound
<1> QED
  BY <1>2, <1>3, StillSame DEF NodeInv

LEMMA PollKeeps ==
  ASSUME NodeInv, Poll
  PROVE  NodeInv'
<1>1. Still /\ UNCHANGED <<sent, faults>>
  BY DEF Poll, Still
<1>2. /\ step = "idle" /\ step' = "polling" /\ ticked' = FALSE
      /\ view' = view /\ price' = price /\ nonce' = nonce
      /\ excused' = excused
  BY DEF Poll
<1>3. ViewSound'
  BY <1>2 DEF NodeInv, ViewSound
<1> QED
  BY <1>1, <1>2, <1>3, WorkKeeps DEF NodeInv, DaemonTyped, Steps

LEMMA ReadCurrentRoundKeeps ==
  ASSUME NodeInv, ReadCurrentRound
  PROVE  NodeInv'
<1> DEFINE id == feeds[MyFeed].currentRoundId
<1>1. Still /\ UNCHANGED <<ticked, sent, faults, excused>> /\ step = "polling"
  BY DEF ReadCurrentRound, Still
<1>2. excused' \in BOOLEAN /\ ticked' \in BOOLEAN
  BY <1>1 DEF NodeInv, DaemonTyped
<1>3. CASE Return
  BY <1>1, <1>2, <1>3, PlainReturnKeeps
<1>4. CASE /\ id # 0
           /\ step' = "round"
           /\ view' = [NoView EXCEPT !.round = id]
           /\ UNCHANGED <<price, nonce>>
  <2>1. id = nextRoundId - 1 /\ nextRoundId \in 1..(MaxRounds + 1)
    BY DEF NodeInv, ChainInv, LastIsCurrent, ChainTyped
  <2>2. id \in RoundIds /\ id < nextRoundId /\ id \in 0..MaxRounds
    BY <1>4, <2>1, Numbers DEF RoundIds
  <2>3. view' = [round |-> id, deadline |-> 0, version |-> 0]
    BY <1>4 DEF NoView
  <2> HIDE DEF id
  <2>4. view'.round = id /\
        view' \in [round : 0..MaxRounds, deadline : 0..MaxTime,
                   version : 0..MaxVersion]
    BY <2>2, <2>3, Numbers
  <2>5. ViewSound'
    BY <1>1, <1>4, <2>2, <2>4, StillSame DEF ViewSound
  <2>6. /\ price' \in [value : Nat, honest : SUBSET Nat, at : 0..MaxTime]
        /\ nonce' \in 0..MaxRounds
    BY <1>4 DEF NodeInv, DaemonTyped
  <2> QED
    BY <1>1, <1>2, <1>4, <2>4, <2>5, <2>6, WorkKeeps DEF Steps
<1> QED
  BY <1>3, <1>4 DEF ReadCurrentRound

LEMMA ReadRoundKeeps ==
  ASSUME NodeInv, ReadRound
  PROVE  NodeInv'
<1> DEFINE round == rounds[view.round]
<1>1. Still /\ UNCHANGED <<ticked, sent, faults, excused>> /\ step = "round"
  BY DEF ReadRound, Still
<1>2. excused' \in BOOLEAN /\ ticked' \in BOOLEAN
  BY <1>1 DEF NodeInv, DaemonTyped
<1>3. CASE Return
  BY <1>1, <1>2, <1>3, PlainReturnKeeps
<1>4. CASE /\ step' = "standing"
           /\ view' = [view EXCEPT !.deadline = round.deadline,
                                   !.version = round.nodeSetVersion]
           /\ UNCHANGED <<price, nonce>>
  <2>1. view.round \in RoundIds /\ view.round < nextRoundId
    BY <1>1 DEF NodeInv, ViewSound
  <2>2. /\ round.deadline \in 0..MaxTime
        /\ round.nodeSetVersion \in 0..MaxVersion
    BY <2>1, RoundTyped DEF NodeInv
  <2>3. view \in [round : 0..MaxRounds, deadline : 0..MaxTime,
                  version : 0..MaxVersion]
    BY DEF NodeInv, DaemonTyped
  <2>4. PICK d, v : d = round.deadline /\ v = round.nodeSetVersion
    OBVIOUS
  <2> HIDE DEF round
  <2>5. /\ view' \in [round : 0..MaxRounds, deadline : 0..MaxTime,
                      version : 0..MaxVersion]
        /\ view'.round = view.round
        /\ view'.deadline = d /\ view'.version = v
    BY <1>4, <2>2, <2>3, <2>4
  <2>6. ViewSound'
    BY <1>1, <1>4, <2>1, <2>4, <2>5, StillSame DEF ViewSound, round
  <2>7. /\ price' \in [value : Nat, honest : SUBSET Nat, at : 0..MaxTime]
        /\ nonce' \in 0..MaxRounds
    BY <1>4 DEF NodeInv, DaemonTyped
  <2> QED
    BY <1>1, <1>2, <1>4, <2>5, <2>6, <2>7, WorkKeeps DEF Steps
<1> QED
  BY <1>3, <1>4 DEF ReadRound

LEMMA ReadStandingKeeps ==
  ASSUME NodeInv, ReadStanding
  PROVE  NodeInv'
<1>1. Still /\ UNCHANGED <<ticked, sent, faults, excused>> /\ step = "standing"
  BY DEF ReadStanding, Still
<1>2. excused' \in BOOLEAN /\ ticked' \in BOOLEAN
  BY <1>1 DEF NodeInv, DaemonTyped
<1>3. CASE Return
  BY <1>1, <1>2, <1>3, PlainReturnKeeps
<1>4. CASE /\ ~TooLate(view.deadline)
           /\ step' = "fetching"
           /\ UNCHANGED <<view, price, nonce>>
  <2>1. now \in Nat /\ view.deadline \in Nat /\ SubmitBefore \in Nat
    BY Numbers DEF NodeInv, ChainInv, ChainTyped, DaemonTyped
  <2>2. ~(view.deadline - now <= SubmitBefore)
    BY <1>4 DEF TooLate
  <2>3. now <= view.deadline - SubmitBefore
    BY ONLY <2>1, <2>2
  <2>4. view' = view /\ price' = price /\ nonce' = nonce
    BY <1>4
  <2>5. ViewSound'
    BY <1>1, <1>4, <2>3, <2>4, StillSame DEF NodeInv, ViewSound
  <2> QED
    BY <1>1, <1>2, <1>4, <2>4, <2>5, WorkKeeps DEF Steps, NodeInv, DaemonTyped
<1> QED
  BY <1>3, <1>4 DEF ReadStanding

(* The contract's module and the facts about data speak of one median. *)
LEMMA SameMedian == \A l : Rounds!ServiceMedian(l) = ServiceMedian(l)
BY DEF Rounds!ServiceMedian, ServiceMedian, Rounds!Middle, Middle,
       Rounds!Sorted, Sorted, Rounds!UpTo, UpTo,
       Rounds!Cardinality, Cardinality

(* What one fetch brings, when enough sources answered. *)
LEMMA Fetched ==
  ASSUME NEW result,
         \A s \in Sources : result[s] \in FetchWithBackoff(s),
         ~TooFewSources(result)
  PROVE  /\ Price(result) \in Nat
         /\ {result[s] : s \in Answered(result) \ {Faulty}} \subseteq Nat
         /\ MinSources >= 3 =>
              \E low, high \in {result[s] : s \in Answered(result) \ {Faulty}} :
                low <= Price(result) /\ Price(result) <= high
<1> DEFINE A == Answered(result)
           l == Listing(result, A)
           m == ServiceMedian(l)
<1>1. \A s \in Sources : result[s] \in Nat
  <2>1. \A q \in Honest \cup Wild : q \div Precision \in Nat
    BY NodeAssumption DEF NodeAssumption
  <2> QED
    BY <2>1 DEF FetchWithBackoff, Fetch, ParseScaled, NoAnswer
<1>2. IsFiniteSet(A) /\ A \subseteq Sources /\ Cardinality(A) \in Nat
  BY FS_Subset, FS_CardinalityType, NodeAssumption
     DEF NodeAssumption, Answered
<1>3. /\ Cardinality(A) >= MinSources /\ MinSources \in Nat
      /\ Cardinality(A) >= 1
  BY <1>2, NodeAssumption DEF TooFewSources, NodeAssumption
<1>4. \A s \in A : result[s] \in Int
  BY <1>1, <1>2
<1>5. Price(result) = m
  BY FoldIsListing, SameMedian DEF Price
<1> HIDE DEF A
<1>6. ListsOnce(l, result, A)
  BY <1>2, <1>4, ListingOnce
<1> HIDE DEF l
<1>7. l \in Seq(Int) /\ Len(l) > 0
  BY <1>2, <1>3, <1>6 DEF ListsOnce
<1>8. Central(l, m)
  BY <1>7, MedianCentral
<1> HIDE DEF m
<1>9. m \in Nat
  <2>1. PICK i, j \in 1..Len(l) : m = (l[i] + l[j]) \div 2
    BY <1>8 DEF Central
  <2>2. \A k \in 1..Len(l) : l[k] \in Nat
    BY <1>1, <1>2, <1>6 DEF ListsOnce
  <2>3. PICK a \in Nat, b \in Nat : m = (a + b) \div 2
    BY <2>1, <2>2
  <2> QED
    BY ONLY <2>3
<1>10. ASSUME MinSources >= 3
       PROVE  \E x, y \in A \ {Faulty} : result[x] <= m /\ m <= result[y]
  <2>1. Cardinality(A) >= 3 /\ m \in Int
    BY ONLY <1>2, <1>3, <1>9, <1>10
  <2> QED
    BY <1>4, <1>6, <1>8, <2>1, OneOfThree
<1> QED
  BY <1>1, <1>2, <1>5, <1>9, <1>10 DEF A

LEMMA FetchPriceKeeps ==
  ASSUME NodeInv, FetchPrice
  PROVE  NodeInv'
<1>1. Still /\ UNCHANGED <<ticked, sent, faults>> /\ step = "fetching"
  BY DEF FetchPrice, Still
<1>2. ticked' \in BOOLEAN /\ excused \in BOOLEAN
  BY <1>1 DEF NodeInv, DaemonTyped
<1>3. PICK result \in [Sources -> UNION {FetchWithBackoff(s) : s \in Sources}] :
        /\ \A s \in Sources : result[s] \in FetchWithBackoff(s)
        /\ \/ /\ TooFewSources(result)
              /\ Return
              /\ excused' = (excused \/ view.round \in Live)
           \/ /\ ~TooFewSources(result)
              /\ step' = "priced"
              /\ price' = [value |-> Price(result),
                           honest |-> {result[s] :
                                       s \in Answered(result) \ {Faulty}},
                           at |-> now]
              /\ UNCHANGED <<view, nonce, excused>>
  BY DEF FetchPrice
<1>4. CASE Return /\ excused' = (excused \/ view.round \in Live)
  BY <1>1, <1>4, PlainReturnKeeps
<1>5. CASE /\ ~TooFewSources(result)
           /\ step' = "priced"
           /\ price' = [value |-> Price(result),
                        honest |-> {result[s] :
                                    s \in Answered(result) \ {Faulty}},
                        at |-> now]
           /\ UNCHANGED <<view, nonce, excused>>
  <2> DEFINE m == Price(result)
             said == {result[s] : s \in Answered(result) \ {Faulty}}
  <2>1. m \in Nat /\ said \in SUBSET Nat
    BY <1>3, <1>5, Fetched
  <2>2. price' = [value |-> m, honest |-> said, at |-> now]
    BY <1>5
  <2>3. now \in 0..MaxTime
    BY DEF NodeInv, ChainInv, ChainTyped
  <2> HIDE DEF m, said
  <2>4. /\ price' \in [value : Nat, honest : SUBSET Nat, at : 0..MaxTime]
        /\ price'.at = now
    BY <2>1, <2>2, <2>3
  <2>5. view.round \in RoundIds /\ view.round < nextRoundId
    BY <1>1 DEF NodeInv, ViewSound
  <2>6. openedAt[view.round] <= now
    BY <2>5, RoundTyped DEF NodeInv
  <2>7. view' = view /\ nonce' = nonce /\ step' = "priced" /\ excused' = excused
    BY <1>5
  <2>8. ViewSound'
    BY <1>1, <2>4, <2>5, <2>6, <2>7, StillSame DEF NodeInv, ViewSound
  <2> QED
    BY <1>1, <1>2, <2>4, <2>7, <2>8, WorkKeeps
       DEF Steps, NodeInv, DaemonTyped
<1> QED
  BY <1>3, <1>4, <1>5

LEMMA NonceBound ==
  ASSUME ChainInv
  PROVE  nonces[Self] \in 0..MaxRounds
<1>1. AnsweredBy(Self) \in SUBSET RoundIds
  BY DEF AnsweredBy
<1>2. /\ Cardinality(AnsweredBy(Self)) \in Nat
      /\ Cardinality(AnsweredBy(Self)) <= MaxRounds
  BY <1>1, RoundsFinite
<1>3. nonces[Self] = Cardinality(AnsweredBy(Self))
  BY DEF ChainInv, NonceCounts
<1> QED
  BY <1>2, <1>3, Numbers

LEMMA ReadNonceKeeps ==
  ASSUME NodeInv, ReadNonce
  PROVE  NodeInv'
<1>1. Still /\ UNCHANGED <<ticked, sent, faults, excused>> /\ step = "priced"
  BY DEF ReadNonce, Still
<1>2. /\ step' = "signed" /\ view' = view /\ price' = price
      /\ nonce' = nonces[Self]
  BY DEF ReadNonce
<1>3. nonce' \in 0..MaxRounds
  BY <1>2, NonceBound DEF NodeInv
<1>4. ViewSound'
  BY <1>1, <1>2, StillSame DEF NodeInv, ViewSound
<1> QED
  BY <1>1, <1>2, <1>3, <1>4, WorkKeeps DEF Steps, NodeInv, DaemonTyped

(* The number of the next transaction: the account's pending ones cannot   *)
(* hold all of the numbers it is taken from.                               *)
LEMMA PendingNonceTyped ==
  ASSUME NodeInv, Cardinality(pool) < MaxPool
  PROVE  PendingNonce \in 0..(mined + MaxPool)
<1> DEFINE held == {tx.account : tx \in pool}
           f == [tx \in pool |-> tx.account]
           R == mined..(mined + MaxPool)
           free == {a \in R : a \notin held}
<1>1. /\ IsFiniteSet(pool) /\ mined \in Nat /\ MaxPool \in Nat
      /\ Cardinality(pool) \in Nat
  BY Numbers, FS_CardinalityType DEF NodeInv, DaemonTyped
<1>2. IsFiniteSet(held) /\ Cardinality(held) <= Cardinality(pool)
  <2>1. f \in Surjection(pool, held)
    BY DEF Surjection
  <2> HIDE DEF f, held
  <2> QED
    BY <1>1, <2>1, FS_Surjection
<1>3. Cardinality(held) \in Nat
  BY <1>2, FS_CardinalityType
<1>4. IsFiniteSet(R) /\ Cardinality(R) = MaxPool + 1
  <2>1. \A a, b \in Int : a <= b =>
          IsFiniteSet(a..b) /\ Cardinality(a..b) = b - a + 1
    BY FS_Interval
  <2>2. mined \in Int /\ mined + MaxPool \in Int /\ mined <= mined + MaxPool
        /\ (mined + MaxPool) - mined + 1 = MaxPool + 1
    BY <1>1
  <2> QED
    BY <2>1, <2>2
<1>5. free # {}
  <2> SUFFICES ASSUME R \subseteq held PROVE FALSE
    OBVIOUS
  <2> HIDE DEF R, held
  <2>1. Cardinality(R) <= Cardinality(held)
    BY <1>2, FS_Subset
  <2> QED
    BY <1>1, <1>2, <1>3, <1>4, <2>1
<1>6. PICK x \in free : TRUE
  BY <1>5
<1>7. free \in SUBSET Nat
  BY <1>1
<1> DEFINE a == Min(free)
<1> HIDE DEF free
<1>8. a \in free /\ \A y \in free : a <= y
  BY <1>6, <1>7, LowestIsLeast
<1> HIDE DEF a
<1>9. a \in R /\ a \notin held /\ \A b \in mined..(a - 1) : b \in held
  <2>1. a \in R /\ a \notin held
    BY <1>8 DEF free
  <2>2. ASSUME NEW b \in mined..(a - 1) PROVE b \in held
    <3>1. b \in R /\ ~(a <= b)
      BY <1>1, <2>1
    <3> HIDE DEF R
    <3> QED
      BY <1>8, <3>1 DEF free
  <2> QED
    BY <2>1, <2>2
<1>10. PendingNonce \in R
  BY <1>9 DEF PendingNonce
<1>11. R \subseteq 0..(mined + MaxPool)
  BY <1>1
<1> QED
  BY <1>10, <1>11

(* What the daemon sends. *)
LEMMA TransactionTyped ==
  ASSUME NodeInv, step = "signed", NEW account \in 0..(mined + MaxPool)
  PROVE  /\ Transaction(account) \in Tx
         /\ OfItsRound(Transaction(account))
         /\ Transaction(account) # NoTx
<1>1. /\ view.round \in RoundIds /\ view.round < nextRoundId
      /\ view.deadline = rounds[view.round].deadline
      /\ openedAt[view.round] <= price.at
      /\ price.at <= view.deadline - SubmitBefore
  BY DEF NodeInv, ViewSound
<1>2. /\ view.round \in 0..MaxRounds
      /\ price.value \in Nat /\ price.at \in 0..MaxTime
      /\ nonce \in 0..MaxRounds
  BY DEF NodeInv, DaemonTyped
<1>3. now \in 0..MaxTime
  BY DEF NodeInv, ChainInv, ChainTyped
<1>4. view.round # 0 /\ now <= now
  BY <1>1, <1>3, Numbers DEF RoundIds
<1>5. PICK r, v, k, t, p : /\ r = view.round /\ v = price.value /\ k = nonce
                           /\ t = now /\ p = price.at
  OBVIOUS
<1> DEFINE tx == [account |-> account, round |-> r, value |-> v, nonce |-> k,
                  sentAt |-> t, fetchedAt |-> p]
<1>6. Transaction(account) = tx
  BY <1>5 DEF Transaction, Target
<1>7. tx \in Tx
  BY <1>2, <1>3, <1>5 DEF Tx
<1>8. OfItsRound(tx)
  BY <1>1, <1>4, <1>5 DEF OfItsRound
<1>9. tx.round # NoTx.round
  BY <1>4, <1>5 DEF NoTx
<1> QED
  BY <1>6, <1>7, <1>8, <1>9

LEMMA SendKeeps ==
  ASSUME NodeInv, Submit
  PROVE  NodeInv'
<1>1. /\ Still /\ UNCHANGED <<ticked, faults>> /\ step = "signed"
  BY DEF Submit, Still
<1>2. /\ ticked' \in BOOLEAN /\ excused \in BOOLEAN /\ faults' \in 0..MaxFaults
      /\ pool \subseteq Tx /\ IsFiniteSet(pool)
      /\ \A tx \in pool : OfItsRound(tx)
      /\ awaited = NoTx /\ landed = FALSE
  BY <1>1 DEF NodeInv, DaemonTyped, SentSound
<1>3. CASE Return /\ UNCHANGED sent /\ excused' \in BOOLEAN
  BY <1>1, <1>3, PlainReturnKeeps
<1>4. CASE SendOnEvm /\ UNCHANGED <<mined, excused>> /\ Cardinality(pool) < MaxPool
  <2>1. PICK tx : tx = Transaction(PendingNonce)
    OBVIOUS
  <2>2. tx \in Tx /\ OfItsRound(tx)
    BY <1>1, <1>4, <2>1, PendingNonceTyped, TransactionTyped
  <2>3. pool' = pool \cup {tx}
    BY <1>4, <2>1 DEF SendOnEvm
  <2>4. IsFiniteSet(pool')
    BY <1>2, <2>3, FS_AddElement
  <2>5. Return /\ awaited' = NoTx /\ landed' = FALSE /\ mined' = mined
        /\ excused' \in BOOLEAN
    BY <1>2, <1>4 DEF SendOnEvm
  <2> QED
    BY <1>1, <1>2, <2>2, <2>3, <2>4, <2>5, ReturnKeeps
<1>5. CASE /\ SendOnSolana /\ UNCHANGED <<mined, excused>>
           /\ Cardinality(pool) < MaxPool /\ vm = "svm"
  <2>1. PICK tx : tx = Transaction(0)
    OBVIOUS
  <2>2. tx \in Tx /\ OfItsRound(tx)
    <3>1. 0 \in 0..(mined + MaxPool)
      BY Numbers DEF NodeInv, DaemonTyped
    <3> QED
      BY <1>1, <2>1, <3>1, TransactionTyped
  <2>3. pool' = pool \cup {tx} /\ awaited' = tx /\ landed' = FALSE
        /\ step' = "waiting" /\ view' = view /\ price' = price
        /\ nonce' = nonce /\ mined' = mined /\ excused' = excused
    BY <1>5, <2>1 DEF SendOnSolana
  <2>4. IsFiniteSet(pool')
    BY <1>2, <2>3, FS_AddElement
  <2>5. Tx' = Tx /\ vm' = vm
    BY <1>1, <2>3, StillSame
  <2>6. DaemonTyped'
    <3>1. pool' \subseteq Tx' /\ awaited' \in Tx'
      BY <1>2, <2>2, <2>3, <2>5
    <3> QED
      BY <1>1, <1>2, <2>3, <2>4, <2>5, <3>1
         DEF NodeInv, DaemonTyped, Steps
  <2>7. ViewSound'
    BY <1>1, <2>3, StillSame DEF NodeInv, ViewSound
  <2>8. SentSound'
    <3>1. \A t \in pool' : OfItsRound(t)'
      BY <1>1, <1>2, <2>2, <2>3, StillSame
    <3>2. OfItsRound(tx)'
      BY <1>1, <2>2, StillSame
    <3>3. OfItsRound(awaited)'
      BY <2>3, <3>2 DEF OfItsRound
    <3> QED
      BY <1>5, <2>3, <2>5, <3>1, <3>3 DEF SentSound
  <2> QED
    BY <1>1, <2>6, <2>7, <2>8, StillSame DEF NodeInv
<1> QED
  <2>1. \/ Return /\ UNCHANGED <<sent, excused>>
        \/ /\ Cardinality(pool) < MaxPool
           /\ \/ vm = "evm" /\ SendOnEvm
              \/ vm = "svm" /\ SendOnSolana
           /\ UNCHANGED <<mined, excused>>
        \/ Return /\ excused' = TRUE /\ UNCHANGED sent
    BY DEF Submit
  <2> QED
    BY <1>2, <1>3, <1>4, <1>5, <2>1

LEMMA WaitForKeeps ==
  ASSUME NodeInv, WaitFor
  PROVE  NodeInv'
<1>1. /\ Still /\ Return /\ awaited' = NoTx /\ landed' = FALSE
      /\ UNCHANGED <<ticked, pool, mined, excused, faults>>
  BY DEF WaitFor, Still
<1> QED
  BY <1>1, ReturnKeeps DEF NodeInv, DaemonTyped, SentSound

LEMMA CallFailsKeeps ==
  ASSUME NodeInv, CallFails
  PROVE  NodeInv'
<1>1. /\ Still /\ Return /\ awaited' = NoTx /\ landed' = FALSE
      /\ UNCHANGED <<ticked, pool, mined>> /\ excused' = TRUE
      /\ faults < MaxFaults /\ faults' = faults + 1
  BY DEF CallFails, Fault, Still
<1>2. faults' \in 0..MaxFaults
  BY <1>1, Numbers DEF NodeInv, DaemonTyped
<1> QED
  BY <1>1, <1>2, ReturnKeeps DEF NodeInv, DaemonTyped, SentSound

LEMMA CrashKeeps ==
  ASSUME NodeInv, Crash
  PROVE  NodeInv'
<1>1. /\ Still /\ Return /\ awaited' = NoTx /\ landed' = FALSE
      /\ ticked' = TRUE /\ UNCHANGED <<pool, mined>> /\ excused' = TRUE
      /\ faults < MaxFaults /\ faults' = faults + 1
  BY DEF Crash, Fault, Still
<1>2. faults' \in 0..MaxFaults
  BY <1>1, Numbers DEF NodeInv, DaemonTyped
<1> QED
  BY <1>1, <1>2, ReturnKeeps DEF NodeInv, DaemonTyped, SentSound

LEMMA MineKeeps ==
  ASSUME NodeInv, NEW tx \in pool, Mine(tx)
  PROVE  NodeInv'
<1>1. /\ tx \in Tx /\ OfItsRound(tx) /\ mined \in Nat
      /\ (landed => step = "waiting") /\ awaited \in Tx
      /\ (step # "waiting" => awaited = NoTx)
  BY DEF NodeInv, DaemonTyped, SentSound
<1>2. /\ UNCHANGED <<vm, step, view, price, nonce, awaited, ticked, openedAt,
                     excused, faults>>
      /\ pool' = pool \ {tx}
      /\ mined' = IF vm = "evm" THEN mined + 1 ELSE mined
      /\ landed' = (landed \/ tx = awaited)
  BY DEF Mine, work
<1>3. ChainInv' /\ GoesOn /\ now' = now
  <2>1. CASE Rounds!Submit(Self, tx.round, tx.value, tx.nonce)
    <3>1. tx.round \in RoundIds /\ tx.value \in Nat
      BY <1>1 DEF OfItsRound, Tx
    <3> QED
      BY <1>2, <2>1, <3>1, Numbers, SubmitKeeps, SubmitWrites DEF NodeInv
  <2>2. CASE UNCHANGED chain
    BY <1>2, <2>2, StillKeeps DEF NodeInv, chain
  <2> QED
    BY <2>1, <2>2 DEF Mine
<1>4. tx # NoTx
  <2>1. tx.round # 0 /\ NoTx.round = 0
    BY <1>1, Numbers DEF OfItsRound, RoundIds, NoTx
  <2> QED
    BY <2>1
<1>5. landed' \in BOOLEAN /\ (landed' => step = "waiting")
  BY <1>1, <1>2, <1>4
<1>6. mined' \in Nat /\ mined <= mined'
  BY <1>1, <1>2
<1>7. step = "fetching" => now' <= view.deadline - SubmitBefore
  BY <1>3 DEF NodeInv, ViewSound
<1> QED
  BY <1>2, <1>3, <1>5, <1>6, <1>7, BesideKeeps DEF NodeInv, DaemonTyped

LEMMA DropKeeps ==
  ASSUME NodeInv, DropTransaction
  PROVE  NodeInv'
<1>1. /\ UNCHANGED <<chain, openedAt, vm, step, view, price, nonce, awaited,
                     ticked, mined, landed>>
      /\ pool' \subseteq pool /\ excused' = TRUE
      /\ faults < MaxFaults /\ faults' = faults + 1
  BY DEF DropTransaction, Fault, work
<1>2. ChainInv' /\ GoesOn /\ now' = now
  BY <1>1, StillKeeps DEF NodeInv, chain
<1>3. faults' \in 0..MaxFaults
  BY <1>1, Numbers DEF NodeInv, DaemonTyped
<1>4. step = "fetching" => now' <= view.deadline - SubmitBefore
  BY <1>2 DEF NodeInv, ViewSound
<1>5. /\ mined' \in Nat /\ mined <= mined' /\ landed' \in BOOLEAN
      /\ (landed' => step = "waiting") /\ ticked' \in BOOLEAN
  BY <1>1 DEF NodeInv, DaemonTyped, SentSound
<1> QED
  BY <1>1, <1>2, <1>3, <1>4, <1>5, BesideKeeps

LEMMA OpenRoundKeeps ==
  ASSUME NodeInv, OpenRound
  PROVE  NodeInv'
<1>1. /\ UNCHANGED <<vm, step, view, price, nonce, awaited, ticked, mined,
                     landed, pool, faults>>
      /\ excused' = FALSE
  BY DEF OpenRound, daemon, work, sent
<1>2. ChainInv' /\ GoesOn /\ now' = now
  BY OpenKeeps, OpenWrites DEF NodeInv
<1>3. step = "fetching" => now' <= view.deadline - SubmitBefore
  BY <1>2 DEF NodeInv, ViewSound
<1>4. /\ mined' \in Nat /\ mined <= mined' /\ landed' \in BOOLEAN
      /\ (landed' => step = "waiting") /\ ticked' \in BOOLEAN
      /\ faults' \in 0..MaxFaults
  BY <1>1 DEF NodeInv, DaemonTyped, SentSound
<1> QED
  BY <1>1, <1>2, <1>3, <1>4, BesideKeeps

(* The registry, the pause and the clock, each with the rest left alone. *)
LEMMA RegistryStepAround ==
  ASSUME NodeInv, Rounds!RegistryStep, UNCHANGED openedAt
  PROVE  ChainInv' /\ GoesOn /\ now' = now /\ paused' = paused
         /\ UNCHANGED rows
<1>1. UNCHANGED rows /\ now' = now /\ paused' = paused
  BY DEF Rounds!RegistryStep, Rounds!answers, Rounds!parameters, rows
<1>2. now' \in 0..MaxTime /\ now <= now'
  BY <1>1 DEF NodeInv, ChainInv, ChainTyped
<1>3. Around
  BY <1>1, <1>2 DEF Around, Rounds!RegistryStep
<1> QED
  BY <1>1, <1>3, AroundKeeps DEF NodeInv

LEMMA PauseAround ==
  ASSUME NodeInv, Rounds!Pause \/ Rounds!Unpause, UNCHANGED openedAt
  PROVE  ChainInv' /\ GoesOn /\ now' = now
         /\ UNCHANGED rows /\ UNCHANGED Rounds!registry
<1>1. UNCHANGED rows /\ now' = now /\ UNCHANGED Rounds!registry
  BY DEF Rounds!Pause, Rounds!Unpause, Rounds!answers, Rounds!parameters, rows
<1>2. now' \in 0..MaxTime /\ now <= now'
  BY <1>1 DEF NodeInv, ChainInv, ChainTyped
<1>3. UNCHANGED Rounds!Registry!vars
  BY <1>1 DEF Rounds!registry, Rounds!Registry!vars
<1>4. Around
  BY <1>1, <1>2, <1>3 DEF Around
<1> QED
  BY <1>1, <1>4, AroundKeeps DEF NodeInv

LEMMA TickAround ==
  ASSUME NodeInv, Rounds!Tick, UNCHANGED openedAt
  PROVE  ChainInv' /\ GoesOn /\ now' = now + 1 /\ now \in Nat
         /\ paused' = paused /\ UNCHANGED rows /\ UNCHANGED Rounds!registry
<1>1. /\ UNCHANGED rows /\ now < MaxTime /\ now' = now + 1
      /\ paused' = paused /\ UNCHANGED Rounds!registry
  BY DEF Rounds!Tick, Rounds!answers, Rounds!parameters, rows
<1>2. now' \in 0..MaxTime /\ now <= now' /\ now \in Nat
  BY <1>1, Numbers DEF NodeInv, ChainInv, ChainTyped
<1>3. UNCHANGED Rounds!Registry!vars
  BY <1>1 DEF Rounds!registry, Rounds!Registry!vars
<1>4. Around
  BY <1>1, <1>2, <1>3 DEF Around
<1> QED
  BY <1>1, <1>2, <1>4, AroundKeeps DEF NodeInv

LEMMA OthersKeep ==
  ASSUME NodeInv, OthersAct
  PROVE  NodeInv'
<1>1. /\ UNCHANGED <<vm, step, view, price, nonce, awaited, ticked, mined,
                     landed, pool, faults, excused, openedAt>>
  BY DEF OthersAct, daemon, work, sent
<1>2. ChainInv' /\ GoesOn /\ now' = now
  <2>1. CASE \E n \in Nodes \ {Self}, r \in RoundIds, v \in Values :
               Rounds!Submit(n, r, v, nonces[n])
    BY <1>1, <2>1, Numbers, SubmitKeeps, SubmitWrites DEF NodeInv
  <2>2. CASE \E r \in RoundIds : Rounds!SettleRound(r)
    BY <1>1, <2>2, SettleKeeps, SettleWrites DEF NodeInv
  <2>3. CASE Rounds!Unpause
    BY <1>1, <2>3, PauseAround
  <2>4. CASE Rounds!RegistryStep
    BY <1>1, <2>4, RegistryStepAround
  <2> QED
    BY <2>1, <2>2, <2>3, <2>4 DEF OthersAct
<1>3. step = "fetching" => now' <= view.deadline - SubmitBefore
  BY <1>2 DEF NodeInv, ViewSound
<1>4. /\ mined' \in Nat /\ mined <= mined' /\ landed' \in BOOLEAN
      /\ (landed' => step = "waiting") /\ ticked' \in BOOLEAN
      /\ faults' \in 0..MaxFaults /\ excused' \in BOOLEAN
  BY <1>1 DEF NodeInv, DaemonTyped, SentSound
<1> QED
  BY <1>1, <1>2, <1>3, <1>4, BesideKeeps

LEMMA DisruptedKeeps ==
  ASSUME NodeInv, Disrupted
  PROVE  NodeInv'
<1>1. /\ UNCHANGED <<vm, step, view, price, nonce, awaited, ticked, mined,
                     landed, pool, openedAt>>
      /\ excused' = TRUE /\ faults < MaxFaults /\ faults' = faults + 1
  BY DEF Disrupted, work, sent
<1>2. ChainInv' /\ GoesOn /\ now' = now
  <2>1. CASE Rounds!Pause
    BY <1>1, <2>1, PauseAround
  <2>2. CASE Rounds!RegistryStep
    BY <1>1, <2>2, RegistryStepAround
  <2> QED
    BY <2>1, <2>2 DEF Disrupted
<1>3. step = "fetching" => now' <= view.deadline - SubmitBefore
  BY <1>2 DEF NodeInv, ViewSound
<1>4. faults' \in 0..MaxFaults
  BY <1>1, Numbers DEF NodeInv, DaemonTyped
<1>5. /\ mined' \in Nat /\ mined <= mined' /\ landed' \in BOOLEAN
      /\ (landed' => step = "waiting") /\ ticked' \in BOOLEAN
  BY <1>1 DEF NodeInv, DaemonTyped, SentSound
<1> QED
  BY <1>1, <1>2, <1>3, <1>4, <1>5, BesideKeeps

LEMMA TickKeeps ==
  ASSUME NodeInv, Tick
  PROVE  NodeInv'
<1>1. /\ UNCHANGED <<vm, step, view, price, nonce, awaited, mined, landed,
                     pool, openedAt>>
      /\ ticked' = TRUE /\ Rounds!Tick
  BY DEF Tick, work, sent
<1>2. ChainInv' /\ GoesOn /\ now' = now + 1 /\ now \in Nat
  BY <1>1, TickAround
<1>3. step = "fetching" => now' <= view.deadline - SubmitBefore
  <2> SUFFICES ASSUME step = "fetching"
               PROVE  now + 1 <= view.deadline - SubmitBefore
    BY <1>2
  <2>1. ~(now >= view.deadline - SubmitBefore)
    BY DEF Tick, OutOfTime
  <2>2. view.deadline \in Nat /\ SubmitBefore \in Nat
    BY Numbers DEF NodeInv, DaemonTyped
  <2> QED
    BY ONLY <1>2, <2>1, <2>2
<1>4. faults' \in 0..MaxFaults
  <2>1. faults' = faults \/ (faults < MaxFaults /\ faults' = faults + 1)
    BY DEF Tick
  <2> QED
    BY <2>1, Numbers DEF NodeInv, DaemonTyped
<1>5. /\ mined' \in Nat /\ mined <= mined' /\ landed' \in BOOLEAN
      /\ (landed' => step = "waiting") /\ excused' \in BOOLEAN
  BY <1>1 DEF NodeInv, DaemonTyped, SentSound, Tick
<1> QED
  BY <1>1, <1>2, <1>3, <1>4, <1>5, BesideKeeps

-----------------------------------------------------------------------------
(* The inductive invariant. *)

LEMMA InitSound ==
  ASSUME Init
  PROVE  NodeInv
<1> DEFINE Orders == {f \in [Nodes -> 1..version] :
                        \A n, m \in Nodes : f[n] = f[m] => n = m}
<1>1. /\ version = Cardinality(Nodes) /\ version \in Nat
      /\ version <= Ceiling /\ version <= MaxVersion
      /\ active = Nodes /\ IsFiniteSet(Nodes)
  BY FS_CardinalityType, NodeAssumption DEF Init, NodeAssumption
<1>2. activatedAt \in [Nodes -> 1..version]
  <2>1. ExistsBijection(Nodes, 1..version)
    BY <1>1, IntervalCount, FS_SameCardinalityBij
  <2>2. PICK order \in Bijection(Nodes, 1..version) : TRUE
    BY <2>1 DEF ExistsBijection
  <2>3. order \in Orders
    BY <2>2 DEF Bijection, Injection, IsInjective
  <2>4. activatedAt = CHOOSE f \in [Nodes -> 1..version] :
                        \A n, m \in Nodes : f[n] = f[m] => n = m
    BY DEF Init
  <2> QED
    BY <2>3, <2>4
<1>3. Rounds!Registry!TypeOK
  <2>1. 1..version \subseteq 0..MaxVersion /\ version \in 0..MaxVersion
    BY <1>1, Numbers
  <2> QED
    BY <1>1, <1>2, <2>1 DEF Rounds!Registry!TypeOK
<1>4. RegistrySound
  BY <1>1, <1>2 DEF RegistrySound
<1>5. /\ now = 0 /\ nextRoundId = 1
      /\ feeds = [f \in Feeds |-> [registered |-> TRUE, currentRoundId |-> 0,
                                   lastSettledRoundId |-> 0]]
      /\ rounds = [r \in RoundIds |-> Rounds!NoRound]
      /\ roundValues = [r \in RoundIds |-> <<>>]
      /\ submitted = [r \in RoundIds |-> {}]
      /\ nonces = [n \in Nodes |-> 0]
      /\ roundDuration \in Durations
      /\ snapshot = [r \in RoundIds |-> {}]
      /\ openedAt = [r \in RoundIds |-> 0]
  BY DEF Init
<1>6. ChainTyped
  <2>1. Rounds!NoRound \in RoundOf({0})
    BY Numbers DEF Rounds!NoRound, RoundOf, Rounds!RoundState
  <2>2. rounds \in [RoundIds -> RoundOf({0})]
    BY <1>5, <2>1
  <2>3. feeds \in [Feeds -> Rounds!Feed]
    BY <1>5, Numbers DEF Rounds!Feed
  <2>4. now \in 0..MaxTime /\ nextRoundId \in 1..(MaxRounds + 1)
    BY <1>5, Numbers
  <2>5. roundValues \in [RoundIds -> Seq(Nat)]
    BY <1>5
  <2>6. /\ submitted \in [RoundIds -> SUBSET Nodes]
        /\ snapshot \in [RoundIds -> SUBSET Nodes]
        /\ openedAt \in [RoundIds -> Nat] /\ nonces \in [Nodes -> Nat]
    BY <1>5
  <2> QED
    BY <1>3, <1>5, <2>2, <2>3, <2>4, <2>5, <2>6 DEF ChainTyped
<1>7. BlankAhead /\ AnswersMatch
  BY <1>5, FS_EmptySet DEF BlankAhead, AnswersMatch, Rounds!NoRound
<1>8. OpenedSound
  BY <1>5, Numbers DEF OpenedSound, RoundIds
<1>9. LastIsCurrent
  BY <1>5, Numbers DEF LastIsCurrent, Rounds!IsLive, Rounds!NoRound
<1>10. NonceCounts
  <2>1. AnsweredBy(Self) = {}
    BY <1>5 DEF AnsweredBy
  <2> QED
    BY <1>5, <2>1, Numbers, FS_EmptySet DEF NonceCounts
<1>11. /\ vm \in Vms /\ step = "idle" /\ ticked = TRUE /\ view = NoView
       /\ price = NoPrice /\ nonce = 0 /\ pool = {} /\ mined = 0
       /\ awaited = NoTx /\ landed = FALSE /\ excused = FALSE /\ faults = 0
  BY DEF Init
<1>12. DaemonTyped
  <2>1. NoView \in [round : 0..MaxRounds, deadline : 0..MaxTime,
                    version : 0..MaxVersion]
    BY Numbers DEF NoView
  <2>2. NoPrice \in [value : Nat, honest : SUBSET Nat, at : 0..MaxTime]
    BY Numbers DEF NoPrice
  <2>3. NoTx \in Tx
    <3>1. 0 \in 0..(mined + MaxPool)
      BY <1>11, Numbers
    <3> QED
      BY <3>1, Numbers DEF NoTx, Tx
  <2>4. IsFiniteSet(pool)
    BY <1>11, FS_EmptySet
  <2>5. /\ view \in [round : 0..MaxRounds, deadline : 0..MaxTime,
                    version : 0..MaxVersion]
        /\ price \in [value : Nat, honest : SUBSET Nat, at : 0..MaxTime]
        /\ pool \subseteq Tx /\ awaited \in Tx
    BY <1>11, <2>1, <2>2, <2>3
  <2>6. nonce \in 0..MaxRounds /\ faults \in 0..MaxFaults /\ mined \in Nat
    BY <1>11, Numbers
  <2>7. step \in Steps
    BY <1>11 DEF Steps
  <2> QED
    BY <1>11, <2>4, <2>5, <2>6, <2>7 DEF DaemonTyped
<1>13. ViewSound /\ SentSound
  BY <1>11 DEF ViewSound, SentSound
<1> QED
  BY <1>4, <1>6, <1>7, <1>8, <1>9, <1>10, <1>12, <1>13 DEF NodeInv, ChainInv

LEMMA StutterKeeps ==
  ASSUME NodeInv, UNCHANGED vars
  PROVE  NodeInv'
<1>1. /\ UNCHANGED <<chain, openedAt, vm, step, view, price, nonce, awaited,
                     ticked, mined, landed, pool, faults, excused>>
  BY DEF vars, work, sent
<1>2. ChainInv' /\ GoesOn /\ now' = now
  BY <1>1, StillKeeps DEF NodeInv, chain
<1>3. step = "fetching" => now' <= view.deadline - SubmitBefore
  BY <1>2 DEF NodeInv, ViewSound
<1>4. /\ mined' \in Nat /\ mined <= mined' /\ landed' \in BOOLEAN
      /\ (landed' => step = "waiting") /\ ticked' \in BOOLEAN
      /\ faults' \in 0..MaxFaults /\ excused' \in BOOLEAN
  BY <1>1 DEF NodeInv, DaemonTyped, SentSound
<1> QED
  BY <1>1, <1>2, <1>3, <1>4, BesideKeeps

LEMMA StepKeeps ==
  ASSUME NodeInv, [Next]_vars
  PROVE  NodeInv'
<1>1. CASE UNCHANGED vars
  BY <1>1, StutterKeeps
<1>2. CASE Poll \/ ReadCurrentRound \/ ReadRound \/ ReadStanding
  BY <1>2, PollKeeps, ReadCurrentRoundKeeps, ReadRoundKeeps, ReadStandingKeeps
<1>3. CASE FetchPrice \/ ReadNonce \/ Submit \/ WaitFor
  BY <1>3, FetchPriceKeeps, ReadNonceKeeps, SendKeeps, WaitForKeeps
<1>4. CASE MineTransaction
  BY <1>4, MineKeeps DEF MineTransaction
<1>5. CASE DropTransaction \/ CallFails \/ Crash
  BY <1>5, DropKeeps, CallFailsKeeps, CrashKeeps
<1>6. CASE OpenRound \/ OthersAct \/ Disrupted \/ Tick
  BY <1>6, OpenRoundKeeps, OthersKeep, DisruptedKeeps, TickKeeps
<1> QED
  BY <1>1, <1>2, <1>3, <1>4, <1>5, <1>6 DEF Next

(* What the daemon holds and has sent is of the round it works on, on a    *)
(* chain whose rounds follow one another: the inductive invariant.         *)
THEOREM NodeInvariant == Spec => []NodeInv
<1>1. Init => NodeInv
  BY InitSound
<1>2. NodeInv /\ [Next]_vars => NodeInv'
  BY StepKeeps
<1> QED
  BY <1>1, <1>2, PTL DEF Spec

(* The daemon's and the chain's variables keep their types, the account's  *)
(* next number exists, and a transaction is awaited exactly in Send's wait *)
(* for it (svm/client.go).                                                 *)
THEOREM NodeTypeOK == Spec => []TypeOK
<1>1. NodeInv => TypeOK
  <2> SUFFICES ASSUME NodeInv PROVE TypeOK
    OBVIOUS
  <2>1. step = "waiting" => awaited # NoTx
    BY Numbers DEF NodeInv, SentSound, OfItsRound, RoundIds, NoTx
  <2> QED
    BY <2>1 DEF NodeInv, ChainInv, ChainTyped, DaemonTyped, SentSound, TypeOK,
                Steps
<1> QED
  BY <1>1, NodeInvariant, PTL

(* A price sent to a round was fetched while that round ran, and before    *)
(* its headroom: Node.Step carries the round it read through the fetch,    *)
(* the nonce and the signature, however long they take.                    *)
THEOREM PriceOfItsRound == Spec => []PriceIsOfItsRound
<1>1. NodeInv => PriceIsOfItsRound
  BY DEF NodeInv, SentSound, OfItsRound, PriceIsOfItsRound
<1> QED
  BY <1>1, NodeInvariant, PTL

LEMMA OneSourceStep ==
  ASSUME MinSources >= 3, OneSourceCannotMovePrice, [Next]_vars
  PROVE  OneSourceCannotMovePrice'
<1>1. CASE price' = price
  BY <1>1 DEF OneSourceCannotMovePrice
<1>2. CASE Return
  BY <1>2 DEF Return, OneSourceCannotMovePrice
<1>3. CASE FetchPrice
  <2> SUFFICES ASSUME ~Return PROVE OneSourceCannotMovePrice'
    BY <1>2
  <2>1. PICK result :
          /\ \A s \in Sources : result[s] \in FetchWithBackoff(s)
          /\ ~TooFewSources(result)
          /\ price' = [value |-> Price(result),
                       honest |-> {result[s] :
                                   s \in Answered(result) \ {Faulty}},
                       at |-> now]
    BY <1>3 DEF FetchPrice
  <2>2. \E low, high \in {result[s] : s \in Answered(result) \ {Faulty}} :
          low <= Price(result) /\ Price(result) <= high
    BY <2>1, Fetched
  <2> QED
    BY <2>1, <2>2 DEF OneSourceCannotMovePrice
<1>4. CASE UNCHANGED vars \/ Poll \/ ReadNonce
  BY <1>1, <1>4 DEF vars, work, Poll, ReadNonce
<1>5. CASE ReadCurrentRound \/ ReadRound \/ ReadStanding
  BY <1>1, <1>2, <1>5 DEF ReadCurrentRound, ReadRound, ReadStanding
<1>6. CASE Submit \/ WaitFor
  BY <1>1, <1>2, <1>6 DEF Submit, SendOnEvm, SendOnSolana, WaitFor
<1>7. CASE CallFails \/ Crash
  BY <1>2, <1>7 DEF CallFails, Crash
<1>8. CASE MineTransaction \/ DropTransaction
  BY <1>1, <1>8 DEF MineTransaction, Mine, DropTransaction, work
<1>9. CASE OpenRound \/ OthersAct \/ Disrupted \/ Tick
  BY <1>1, <1>9 DEF OpenRound, OthersAct, Disrupted, Tick, daemon, work
<1> QED
  BY <1>3, <1>4, <1>5, <1>6, <1>7, <1>8, <1>9 DEF Next

(* With at least three answers asked for, the default of NODE_MIN_SOURCES, *)
(* one source that reports anything at all, while any of the honest ones   *)
(* fail to answer, leaves the price Fetcher.Price returns between two      *)
(* honest reports of the same fetch.                                       *)
THEOREM OneSourceHeld ==
  ASSUME MinSources >= 3
  PROVE  Spec => []OneSourceCannotMovePrice
<1>1. Init => OneSourceCannotMovePrice
  BY DEF Init, OneSourceCannotMovePrice
<1>2. OneSourceCannotMovePrice /\ [Next]_vars => OneSourceCannotMovePrice'
  BY OneSourceStep
<1> QED
  BY <1>1, <1>2, PTL DEF Spec

-----------------------------------------------------------------------------
(* Why a round the daemon is to answer does get its answer.                *)

Newest == nextRoundId - 1

(* Nothing but the daemon keeps it out of the last round. *)
Undisturbed ==
  ~excused /\ Newest # 0 /\ Self \in snapshot[Newest] /\ LongEnough(Newest)

(* The last round still waits for it. *)
Due == Undisturbed /\ Newest \in Live /\ Self \notin submitted[Newest]

(* The answer to round r, which opened at o and ends at d, is on its way:  *)
(* sent with the nonce k, or with time left for what the daemon has yet to *)
(* do, which may be to finish with an earlier round.                       *)
Way(r, d, o, k) ==
  \/ \E tx \in pool : /\ tx.round = r /\ tx.nonce = k
                      /\ tx.sentAt <= d - SubmitBefore
                      /\ now <= tx.sentAt + SubmitBefore
  \/ /\ step = "idle"
     /\ now + SubmitBefore + 1 < d \/ (ticked /\ now + SubmitBefore < d)
  \/ step = "polling" /\ now + SubmitBefore < d
  \/ /\ step \in {"round", "standing"} /\ view.round = r
     /\ now + SubmitBefore < d
  \/ step = "fetching" /\ view.round = r
  \/ /\ step \in {"priced", "signed"} /\ view.round = r
     /\ now + SubmitBefore <= d
  \/ /\ step \in {"round", "standing", "fetching", "priced", "signed"}
     /\ view.round # r
     /\ now + SubmitBefore + 1 < d
  \/ /\ step = "waiting" /\ awaited.round # r
     /\ awaited.sentAt <= o /\ now <= o + SubmitBefore
     /\ ticked \/ now = o

OnItsWay == Way(Newest, rounds[Newest].deadline, openedAt[Newest], nonces[Self])

NotSilenced ==
  /\ ~paused
  /\ Self \in Rounds!Registry!EligibleAt(rounds[Newest].nodeSetVersion)
  /\ rounds[Newest].settledAt > rounds[Newest].deadline => Self \in submitted[Newest]

NonceFits == step = "signed" /\ view.round = Newest => nonce = nonces[Self]

TimelyInv ==
  /\ Undisturbed => NotSilenced
  /\ Due => NonceFits /\ OnItsWay

LEMMA LastNumbers ==
  ASSUME NodeInv, Undisturbed
  PROVE  \E r \in RoundIds, d \in Nat, o \in Nat, k \in Nat :
           /\ r = Newest /\ d = rounds[Newest].deadline /\ o = openedAt[Newest]
           /\ k = nonces[Self]
           /\ r < nextRoundId /\ nextRoundId \in Nat
           /\ o <= now /\ now \in Nat
           /\ o + SubmitBefore + 1 < d
           /\ vm = "svm" => o + 2 * SubmitBefore < d
<1>1. nextRoundId \in 1..(MaxRounds + 1) /\ nextRoundId \in Nat
      /\ nextRoundId # 1
  BY Numbers DEF NodeInv, ChainInv, ChainTyped, Undisturbed, Newest
<1>2. PICK r : r = Newest
  OBVIOUS
<1>3. r \in RoundIds /\ r < nextRoundId
  BY <1>1, <1>2, Numbers DEF RoundIds, Newest
<1>4. /\ rounds[r].deadline \in Nat /\ openedAt[r] \in Nat
      /\ openedAt[r] <= now /\ now \in Nat
  BY <1>3, RoundTyped, Numbers DEF NodeInv
<1>5. LongEnough(r)
  BY <1>2 DEF Undisturbed
<1>6. PICK d \in Nat, o \in Nat : d = rounds[r].deadline /\ o = openedAt[r]
  BY <1>4
<1>7. /\ d - o > SubmitBefore + 1
      /\ vm = "svm" => d - o > 2 * SubmitBefore
  BY <1>5, <1>6 DEF LongEnough
<1>8. /\ o + SubmitBefore + 1 < d
      /\ vm = "svm" => o + 2 * SubmitBefore < d
  <2>1. SubmitBefore \in Nat /\ d \in Nat /\ o \in Nat
    BY Numbers
  <2> QED
    BY ONLY <1>7, <2>1
<1>9. nonces[Self] \in Nat
  BY Numbers DEF NodeInv, ChainInv, ChainTyped
<1> QED
  BY <1>1, <1>2, <1>3, <1>4, <1>6, <1>8, <1>9

(* An answer on its way is not late. *)
LEMMA InTime ==
  ASSUME NodeInv, Due, OnItsWay
  PROVE  now <= rounds[Newest].deadline
<1>1. PICK r \in RoundIds, d \in Nat, o \in Nat, k \in Nat :
        /\ r = Newest /\ d = rounds[Newest].deadline /\ o = openedAt[Newest]
        /\ k = nonces[Self]
        /\ o <= now /\ now \in Nat
        /\ o + SubmitBefore + 1 < d
        /\ vm = "svm" => o + 2 * SubmitBefore < d
  BY LastNumbers DEF Due
<1>2. Way(r, d, o, k)
  BY <1>1 DEF OnItsWay
<1>3. SubmitBefore \in Nat
  BY Numbers
<1>4. ASSUME NEW tx \in pool, tx.sentAt <= d - SubmitBefore,
             now <= tx.sentAt + SubmitBefore
      PROVE  now <= d
  <2>1. tx.sentAt \in Nat
    BY Numbers DEF NodeInv, DaemonTyped, Tx
  <2> QED
    BY <1>1, <1>3, <1>4, <2>1
<1>5. step = "fetching" /\ view.round = r => now <= d - SubmitBefore
  BY <1>1 DEF NodeInv, ViewSound
<1>6. CASE now + SubmitBefore <= d \/ now + SubmitBefore + 1 < d
           \/ now + SubmitBefore < d \/ now <= d - SubmitBefore
           \/ now <= o + SubmitBefore
  BY <1>1, <1>3, <1>6
<1> QED
  BY <1>1, <1>2, <1>4, <1>5, <1>6 DEF Way

(* There is room for it: a snapshot never outgrows the ceiling. *)
LEMMA RoomLeft ==
  ASSUME NodeInv, Due
  PROVE  Len(roundValues[Newest]) < MaxSubmissions
<1>1. PICK r \in RoundIds : r = Newest /\ r < nextRoundId
  BY LastNumbers DEF Due
<1>2. /\ submitted[r] \subseteq snapshot[r] /\ snapshot[r] \in SUBSET Nodes
      /\ Self \in snapshot[r] /\ Self \notin submitted[r]
      /\ Len(roundValues[r]) = Cardinality(submitted[r])
      /\ Cardinality(snapshot[r]) <= Ceiling
  BY <1>1 DEF NodeInv, ChainInv, AnswersMatch, OpenedSound, ChainTyped, Due,
              Undisturbed
<1>3. /\ IsFiniteSet(snapshot[r]) /\ Cardinality(snapshot[r]) \in Nat
      /\ Cardinality(submitted[r]) \in Nat
  BY <1>2, NodesFinite
<1>4. Cardinality(submitted[r]) < Cardinality(snapshot[r])
  <2>1. Cardinality(submitted[r]) <= Cardinality(snapshot[r])
        /\ Cardinality(submitted[r]) # Cardinality(snapshot[r])
    BY <1>2, <1>3, FS_Subset
  <2> QED
    BY <1>3, <2>1
<1>5. Ceiling \in Nat /\ MaxSubmissions \in Nat /\ Ceiling <= MaxSubmissions
  BY NodeAssumption DEF NodeAssumption
<1> QED
  BY <1>1, <1>2, <1>3, <1>4, <1>5

(* So the contract takes it. *)
LEMMA Accepted ==
  ASSUME NodeInv, TimelyInv, Due
  PROVE  Accepts(Newest, nonces[Self])
<1>1. now <= rounds[Newest].deadline
  BY InTime DEF TimelyInv
<1>2. Len(roundValues[Newest]) < MaxSubmissions
  BY RoomLeft
<1>3. Rounds!IsLive(rounds[Newest].state)
  BY DEF Due, Live
<1> QED
  BY <1>1, <1>2, <1>3 DEF TimelyInv, NotSilenced, Due, Accepts

(* A live round is the last one. *)
LEMMA LiveIsLast ==
  ASSUME NodeInv
  PROVE  \A r \in Live : r = Newest
BY DEF NodeInv, ChainInv, LastIsCurrent, Live, Newest

(* Whatever leaves the rounds as they opened brings no new obligation.     *)
LEMMA NotNewlyDue ==
  ASSUME NodeInv, Undisturbed', excused => excused',
         nextRoundId' = nextRoundId, snapshot' = snapshot,
         openedAt' = openedAt, vm' = vm,
         \A r \in RoundIds : rounds'[r].deadline = rounds[r].deadline
  PROVE  Undisturbed
<1>1. Newest' = Newest
  BY DEF Newest
<1>2. ~excused /\ Newest # 0 /\ Self \in snapshot[Newest]
  BY <1>1 DEF Undisturbed
<1>3. Newest \in RoundIds
  BY <1>2, Numbers DEF NodeInv, ChainInv, ChainTyped, RoundIds, Newest
<1>4. rounds'[Newest].deadline - openedAt'[Newest]
        = rounds[Newest].deadline - openedAt[Newest]
  BY <1>3
<1>5. LongEnough(Newest)'
  BY DEF Undisturbed
<1>6. LongEnough(Newest)
  BY <1>1, <1>4, <1>5 DEF LongEnough
<1> QED
  BY <1>2, <1>6 DEF Undisturbed

(* A step of the daemon beside a chain that stays: it owes what remains of *)
(* the way.                                                                *)
LEMMA StillTimely ==
  ASSUME NodeInv, TimelyInv, Still, excused => excused',
         \A r \in RoundIds, d \in Nat, o \in Nat, k \in Nat :
           /\ Due /\ ~excused'
           /\ r = Newest /\ d = rounds[Newest].deadline /\ o = openedAt[Newest]
           /\ k = nonces[Self]
           /\ Way(r, d, o, k)
           => /\ Way(r, d, o, k)'
              /\ step' = "signed" /\ view'.round = r => nonce' = k
  PROVE  TimelyInv'
<1>1. /\ nextRoundId' = nextRoundId /\ rounds' = rounds
      /\ submitted' = submitted /\ nonces' = nonces /\ snapshot' = snapshot
      /\ openedAt' = openedAt /\ paused' = paused
      /\ active' = active /\ activatedAt' = activatedAt
  BY StillSame DEF Still, chain
<1>2. Undisturbed' => Undisturbed
  BY <1>1, NotNewlyDue DEF Still
<1>3. Undisturbed' => NotSilenced'
  BY <1>1, <1>2
     DEF TimelyInv, NotSilenced, Newest, Rounds!Registry!EligibleAt
<1>4. ASSUME Due' PROVE NonceFits' /\ OnItsWay'
  <2>1. Due /\ ~excused'
    BY <1>1, <1>2, <1>4 DEF Due, Live, Newest, Undisturbed
  <2>2. PICK r \in RoundIds, d \in Nat, o \in Nat, k \in Nat :
          /\ r = Newest /\ d = rounds[Newest].deadline /\ o = openedAt[Newest]
          /\ k = nonces[Self]
    BY <2>1, LastNumbers DEF Due
  <2>3. Way(r, d, o, k)
    BY <2>1, <2>2 DEF TimelyInv, OnItsWay
  <2>4. /\ Way(r, d, o, k)'
        /\ step' = "signed" /\ view'.round = r => nonce' = k
    BY <2>1, <2>2, <2>3
  <2>5. /\ r = Newest' /\ d = rounds'[Newest'].deadline /\ o = openedAt'[Newest']
        /\ k = nonces'[Self]
    BY <1>1, <2>2 DEF Newest
  <2>6. OnItsWay'
    BY <2>4, <2>5 DEF OnItsWay, Way
  <2> QED
    BY <2>4, <2>5, <2>6 DEF NonceFits
<1> QED
  BY <1>3, <1>4 DEF TimelyInv

LEMMA ExcusedTimely ==
  ASSUME excused' = TRUE
  PROVE  TimelyInv'
BY DEF TimelyInv, Due, Undisturbed

LEMMA PollTimely ==
  ASSUME NodeInv, TimelyInv, Poll
  PROVE  TimelyInv'
<1>1. /\ Still /\ excused' = excused /\ pool' = pool /\ now' = now
      /\ step = "idle" /\ step' = "polling" /\ ticked
  BY DEF Poll, Still, sent, chain
<1>2. ASSUME NEW r \in RoundIds, NEW d \in Nat, NEW o \in Nat, NEW k \in Nat,
             Way(r, d, o, k)
      PROVE  Way(r, d, o, k)'
  <2>1. now \in Nat /\ SubmitBefore \in Nat
    BY Numbers DEF NodeInv, ChainInv, ChainTyped
  <2>2. now + SubmitBefore + 1 < d => now + SubmitBefore < d
    BY <2>1
  <2> QED
    BY <1>1, <1>2, <2>2 DEF Way
<1> QED
  BY <1>1, <1>2, StillTimely

LEMMA ReadCurrentRoundTimely ==
  ASSUME NodeInv, TimelyInv, ReadCurrentRound
  PROVE  TimelyInv'
<1>1. /\ Still /\ excused' = excused /\ pool' = pool /\ now' = now
      /\ step = "polling"
  BY DEF ReadCurrentRound, Still, sent, chain
<1>2. ASSUME NEW r \in RoundIds, NEW d \in Nat, NEW o \in Nat, NEW k \in Nat,
             Due, r = Newest, Way(r, d, o, k)
      PROVE  Way(r, d, o, k)' /\ step' # "signed"
  <2>1. feeds[MyFeed].currentRoundId = r /\ r # 0
    BY <1>2 DEF NodeInv, ChainInv, LastIsCurrent, Newest, Due, Undisturbed
  <2>2. step' = "round" /\ view' = [NoView EXCEPT !.round = r]
    BY <2>1 DEF ReadCurrentRound
  <2>3. view'.round = r
    BY <2>2 DEF NoView
  <2> QED
    BY <1>1, <1>2, <2>2, <2>3 DEF Way
<1> QED
  BY <1>1, <1>2, StillTimely

(* A step that returns early on an older round leaves time for the last.   *)
LEMMA ReturnOnWay ==
  ASSUME NEW r, NEW d \in Nat, NEW o, NEW k, NodeInv, Way(r, d, o, k),
         Return, pool \subseteq pool', now' = now,
         step \in {"round", "standing", "fetching", "priced", "signed"},
         view.round # r
  PROVE  Way(r, d, o, k)' /\ step' # "signed"
<1>1. step' = "idle"
  BY DEF Return
<1> QED
  BY <1>1 DEF Way

LEMMA ReadRoundTimely ==
  ASSUME NodeInv, TimelyInv, ReadRound
  PROVE  TimelyInv'
<1>1. /\ Still /\ excused' = excused /\ pool' = pool /\ now' = now
      /\ step = "round"
  BY DEF ReadRound, Still, sent, chain
<1>2. ASSUME NEW r \in RoundIds, NEW d \in Nat, NEW o \in Nat, NEW k \in Nat,
             Due, r = Newest, Way(r, d, o, k)
      PROVE  Way(r, d, o, k)' /\ step' # "signed"
  <2>1. CASE Return /\ view.round # r
    BY <1>1, <1>2, <2>1, ReturnOnWay
  <2>2. CASE Return /\ view.round = r /\ ~Open(rounds[view.round].state)
    <3>1. Rounds!IsLive(rounds[r].state)
      BY <1>2 DEF Due, Live
    <3> QED
      BY <2>2, <3>1 DEF Open, Rounds!IsLive
  <2>3. CASE /\ step' = "standing"
             /\ view' = [view EXCEPT !.deadline = rounds[view.round].deadline,
                             !.version = rounds[view.round].nodeSetVersion]
    <3>1. view'.round = view.round
      BY <2>3 DEF NodeInv, DaemonTyped
    <3> QED
      BY <1>1, <1>2, <2>3, <3>1 DEF Way
  <2> QED
    BY <2>1, <2>2, <2>3 DEF ReadRound
<1> QED
  BY <1>1, <1>2, StillTimely

LEMMA ReadStandingTimely ==
  ASSUME NodeInv, TimelyInv, ReadStanding
  PROVE  TimelyInv'
<1>1. /\ Still /\ excused' = excused /\ pool' = pool /\ now' = now
      /\ step = "standing"
  BY DEF ReadStanding, Still, sent, chain
<1>2. ASSUME NEW r \in RoundIds, NEW d \in Nat, NEW o \in Nat, NEW k \in Nat,
             Due, r = Newest, d = rounds[Newest].deadline, Way(r, d, o, k)
      PROVE  Way(r, d, o, k)' /\ step' # "signed"
  <2>1. CASE Return /\ view.round # r
    BY <1>1, <1>2, <2>1, ReturnOnWay
  <2>2. CASE /\ Return /\ view.round = r
             /\ \/ Self \in submitted[view.round]
                \/ ~Eligible(view.version)
                \/ TooLate(view.deadline)
    <3>1. CASE \E tx \in pool : /\ tx.round = r /\ tx.nonce = k
                                /\ tx.sentAt <= d - SubmitBefore
                                /\ now <= tx.sentAt + SubmitBefore
      BY <1>1, <2>2, <3>1 DEF Way, Return
    <3>2. CASE now + SubmitBefore < d
      <4>1. Self \notin submitted[view.round]
        BY <1>2, <2>2 DEF Due
      <4>2. Self \in Rounds!Registry!EligibleAt(view.version)
        BY <1>1, <1>2, <2>2
           DEF NodeInv, ViewSound, TimelyInv, NotSilenced, Due
      <4>3. Eligible(view.version)
        <5>1. vm \in {"evm", "svm"}
          BY NodeAssumption DEF NodeAssumption, NodeInv, DaemonTyped
        <5> QED
          BY <4>2, <5>1 DEF Eligible, EligibleOnEvm, EligibleOnSolana,
                            Rounds!Registry!EligibleAt
      <4>4. ~TooLate(view.deadline)
        <5>1. view.deadline = d
          BY <1>1, <1>2, <2>2 DEF NodeInv, ViewSound
        <5>2. now \in Nat /\ SubmitBefore \in Nat
          BY Numbers DEF NodeInv, ChainInv, ChainTyped
        <5>3. ~(d - now <= SubmitBefore)
          BY <3>2, <5>2
        <5> QED
          BY <5>1, <5>3 DEF TooLate
      <4> QED
        BY <2>2, <4>1, <4>3, <4>4
    <3> QED
      BY <1>1, <1>2, <2>2, <3>1, <3>2 DEF Way
  <2>3. CASE step' = "fetching" /\ UNCHANGED view
    BY <1>1, <1>2, <2>3 DEF Way
  <2> QED
    BY <2>1, <2>2, <2>3 DEF ReadStanding
<1> QED
  BY <1>1, <1>2, StillTimely

LEMMA FetchPriceTimely ==
  ASSUME NodeInv, TimelyInv, FetchPrice
  PROVE  TimelyInv'
<1>1. /\ Still /\ pool' = pool /\ now' = now /\ step = "fetching"
      /\ excused \in BOOLEAN
  BY DEF FetchPrice, Still, sent, chain, NodeInv, DaemonTyped
<1>2. \/ Return /\ excused' = (excused \/ view.round \in Live)
      \/ step' = "priced" /\ UNCHANGED <<view, excused>>
  BY DEF FetchPrice
<1>3. ASSUME NEW r \in RoundIds, NEW d \in Nat, NEW o \in Nat, NEW k \in Nat,
             Due, ~excused', r = Newest, d = rounds[Newest].deadline,
             Way(r, d, o, k)
      PROVE  Way(r, d, o, k)' /\ step' # "signed"
  <2>1. CASE Return /\ view.round # r
    BY <1>1, <1>3, <2>1, ReturnOnWay
  <2>2. CASE /\ Return /\ excused' = (excused \/ view.round \in Live)
             /\ view.round = r
    <3>1. view.round \in Live
      BY <1>3, <2>2 DEF Due
    <3> QED
      BY <1>3, <2>2, <3>1
  <2>3. CASE step' = "priced" /\ UNCHANGED <<view, excused>>
    <3>1. CASE view.round = r
      <4>1. now <= d - SubmitBefore
        BY <1>1, <1>3, <3>1 DEF NodeInv, ViewSound
      <4>2. now + SubmitBefore <= d
        <5>1. now \in Nat /\ SubmitBefore \in Nat
          BY Numbers DEF NodeInv, ChainInv, ChainTyped
        <5> QED
          BY <4>1, <5>1
      <4> QED
        BY <1>1, <2>3, <3>1, <4>2 DEF Way
    <3>2. CASE view.round # r
      BY <1>1, <1>3, <2>3, <3>2 DEF Way
    <3> QED
      BY <3>1, <3>2
  <2> QED
    BY <1>2, <2>1, <2>2, <2>3
<1>4. excused => excused'
  BY <1>1, <1>2
<1> QED
  BY <1>1, <1>3, <1>4, StillTimely

LEMMA ReadNonceTimely ==
  ASSUME NodeInv, TimelyInv, ReadNonce
  PROVE  TimelyInv'
<1>1. /\ Still /\ excused' = excused /\ pool' = pool /\ now' = now
      /\ step = "priced" /\ step' = "signed" /\ nonce' = nonces[Self]
      /\ view' = view
  BY DEF ReadNonce, Still, sent, chain
<1>2. ASSUME NEW r \in RoundIds, NEW d \in Nat, NEW o \in Nat, NEW k \in Nat,
             Way(r, d, o, k)
      PROVE  Way(r, d, o, k)'
  BY <1>1, <1>2 DEF Way
<1> QED
  BY <1>1, <1>2, StillTimely

LEMMA WaitForTimely ==
  ASSUME NodeInv, TimelyInv, WaitFor
  PROVE  TimelyInv'
<1>1. /\ Still /\ excused' = excused /\ pool' = pool /\ now' = now
      /\ step = "waiting" /\ step' = "idle" /\ ticked' = ticked
  BY DEF WaitFor, Still, Return, chain
<1>2. ASSUME NEW r \in RoundIds, NEW d \in Nat, NEW o \in Nat, NEW k \in Nat,
             Due, r = Newest, d = rounds[Newest].deadline, o = openedAt[Newest],
             Way(r, d, o, k)
      PROVE  Way(r, d, o, k)'
  <2>1. now \in Nat /\ SubmitBefore \in Nat /\ vm = "svm" /\ ticked \in BOOLEAN
    BY <1>1, Numbers DEF NodeInv, ChainInv, ChainTyped, SentSound, DaemonTyped
  <2>2. o + SubmitBefore + 1 < d /\ o + 2 * SubmitBefore < d
    BY <1>2, <2>1, LastNumbers DEF Due
  <2>3. ASSUME now <= o + SubmitBefore, ticked \/ now = o
        PROVE  now + SubmitBefore + 1 < d \/ (ticked /\ now + SubmitBefore < d)
    <3>1. now <= o + SubmitBefore => now + SubmitBefore < d
      BY ONLY <2>1, <2>2, SubmitBefore \in Nat, d \in Nat, o \in Nat, now \in Nat
    <3>2. now = o => now + SubmitBefore + 1 < d
      BY ONLY <2>2
    <3> QED
      BY <2>3, <3>1, <3>2
  <2> QED
    BY <1>1, <1>2, <2>3 DEF Way
<1> QED
  BY <1>1, <1>2, StillTimely

LEMMA SendTimely ==
  ASSUME NodeInv, TimelyInv, Submit
  PROVE  TimelyInv'
<1>1. Still /\ now' = now /\ step = "signed" /\ excused \in BOOLEAN
  BY DEF Submit, Still, chain, NodeInv, DaemonTyped
<1>2. \/ /\ ~Accepts(Target, nonce) /\ Return
         /\ UNCHANGED <<sent, excused>>
      \/ /\ Accepts(Target, nonce)
         /\ SendOnEvm \/ SendOnSolana
         /\ UNCHANGED <<mined, excused>>
      \/ excused' = TRUE
  BY DEF Submit
<1>3. CASE excused' = TRUE
  BY <1>3, ExcusedTimely
<1>4. CASE excused' = excused
  <2>1. ASSUME NEW r \in RoundIds, NEW d \in Nat, NEW o \in Nat, NEW k \in Nat,
               Due, ~excused', r = Newest, d = rounds[Newest].deadline,
               k = nonces[Self], Way(r, d, o, k)
        PROVE  Way(r, d, o, k)' /\ step' # "signed"
    <3>1. CASE view.round # r
      <4>1. ~Accepts(Target, nonce)
        <5>1. view.round \in RoundIds /\ ~Rounds!IsLive(rounds[view.round].state)
          BY <1>1, <2>1, <3>1, LiveIsLast DEF NodeInv, ViewSound, Live
        <5> QED
          BY <5>1 DEF Accepts, Target
      <4>2. Return /\ pool' = pool
        BY <1>2, <2>1, <4>1 DEF sent
      <4> QED
        BY <1>1, <2>1, <3>1, <4>2, ReturnOnWay
    <3>2. CASE view.round = r
      <4>1. nonce = k
        BY <1>1, <2>1, <3>2 DEF TimelyInv, NonceFits
      <4>2. Accepts(Target, nonce)
        BY <2>1, <3>2, <4>1, Accepted DEF Target
      <4>3. SendOnEvm \/ SendOnSolana
        BY <1>2, <2>1, <4>2
      <4>4. PICK account : pool' = pool \cup {Transaction(account)}
        BY <4>3 DEF SendOnEvm, SendOnSolana
      <4>5. step' # "signed"
        BY <4>3 DEF SendOnEvm, SendOnSolana, Return
      <4>6. PICK tx : tx = Transaction(account)
        OBVIOUS
      <4>7. tx.round = r /\ tx.nonce = k /\ tx.sentAt = now
        BY <3>2, <4>1, <4>6 DEF Transaction, Target
      <4>8. CASE \E t \in pool : /\ t.round = r /\ t.nonce = k
                                 /\ t.sentAt <= d - SubmitBefore
                                 /\ now <= t.sentAt + SubmitBefore
        BY <1>1, <4>4, <4>5, <4>8 DEF Way
      <4>9. CASE now + SubmitBefore <= d
        <5>1. now \in Nat /\ SubmitBefore \in Nat
          BY Numbers DEF NodeInv, ChainInv, ChainTyped
        <5>2. now <= d - SubmitBefore /\ now <= now + SubmitBefore
          BY <4>9, <5>1
        <5>3. /\ tx \in pool' /\ tx.round = r /\ tx.nonce = k
              /\ tx.sentAt <= d - SubmitBefore
              /\ now' <= tx.sentAt + SubmitBefore
          BY <1>1, <4>4, <4>6, <4>7, <5>2
        <5> QED
          BY <4>5, <5>3 DEF Way
      <4> QED
        BY <1>1, <2>1, <3>2, <4>8, <4>9 DEF Way
    <3> QED
      BY <3>1, <3>2
  <2> QED
    BY <1>1, <1>4, <2>1, StillTimely
<1> QED
  BY <1>2, <1>3, <1>4

(* A step of the chain that answers, opens or closes no round of the node. *)
LEMMA BesideTimely ==
  ASSUME NodeInv, TimelyInv, excused => excused',
         UNCHANGED <<step, view, nonce, awaited>>,
         nextRoundId' = nextRoundId, snapshot' = snapshot,
         openedAt' = openedAt, paused' = paused, vm' = vm,
         active' = active, activatedAt' = activatedAt,
         \A r \in RoundIds :
           /\ rounds'[r].deadline = rounds[r].deadline
           /\ rounds'[r].nodeSetVersion = rounds[r].nodeSetVersion
           /\ rounds'[r].settledAt = rounds[r].settledAt
           /\ r \in Live' => r \in Live
           /\ submitted[r] \subseteq submitted'[r],
         Due' => nonces'[Self] = nonces[Self],
         \A r \in RoundIds, d \in Nat, o \in Nat, k \in Nat :
           /\ Due /\ ~excused' /\ Self \notin submitted'[r]
           /\ r = Newest /\ d = rounds[Newest].deadline /\ o = openedAt[Newest]
           /\ k = nonces[Self]
           /\ Way(r, d, o, k)
           => Way(r, d, o, k)'
  PROVE  TimelyInv'
<1>1. Newest' = Newest /\ (Undisturbed' => Undisturbed)
  BY NotNewlyDue DEF Newest
<1>2. Undisturbed' => NotSilenced'
  <2> SUFFICES ASSUME Undisturbed' PROVE NotSilenced'
    OBVIOUS
  <2>1. PICK r \in RoundIds : r = Newest
    BY <1>1, LastNumbers
  <2>2. Undisturbed /\ NotSilenced
    BY <1>1 DEF TimelyInv
  <2>3. /\ rounds'[r].deadline = rounds[r].deadline
        /\ rounds'[r].nodeSetVersion = rounds[r].nodeSetVersion
        /\ rounds'[r].settledAt = rounds[r].settledAt
        /\ submitted[r] \subseteq submitted'[r]
    OBVIOUS
  <2> QED
    BY <1>1, <2>1, <2>2, <2>3 DEF NotSilenced, Rounds!Registry!EligibleAt
<1>3. ASSUME Due' PROVE NonceFits' /\ OnItsWay'
  <2>1. Undisturbed
    BY <1>1, <1>3 DEF Due
  <2>2. PICK r \in RoundIds, d \in Nat, o \in Nat, k \in Nat :
          /\ r = Newest /\ d = rounds[Newest].deadline /\ o = openedAt[Newest]
          /\ k = nonces[Self]
    BY <2>1, LastNumbers
  <2>3. r \in Live /\ Self \notin submitted'[r]
    BY <1>1, <1>3, <2>2 DEF Due
  <2>4. Due
    BY <2>1, <2>2, <2>3 DEF Due
  <2>5. Way(r, d, o, k) /\ NonceFits
    BY <2>2, <2>4 DEF TimelyInv, OnItsWay
  <2>6. ~excused'
    BY <1>3 DEF Due, Undisturbed
  <2>7. Way(r, d, o, k)'
    BY <2>2, <2>3, <2>4, <2>5, <2>6
  <2>8. /\ r = Newest' /\ d = rounds'[Newest'].deadline /\ o = openedAt'[Newest']
        /\ k = nonces'[Self]
    BY <1>1, <1>3, <2>2
  <2>9. OnItsWay'
    BY <2>7, <2>8 DEF OnItsWay, Way
  <2>10. NonceFits'
    BY <1>1, <1>3, <2>5 DEF NonceFits
  <2> QED
    BY <2>9, <2>10
<1> QED
  BY <1>2, <1>3 DEF TimelyInv

(* What a submission of any node leaves. *)
LEMMA SubmitLeaves ==
  ASSUME NodeInv, NEW n \in Nodes, NEW q \in RoundIds, NEW value \in Nat,
         NEW c, Rounds!Submit(n, q, value, c)
  PROVE  /\ q = Newest /\ n \in submitted'[q]
         /\ now' = now /\ nextRoundId' = nextRoundId /\ snapshot' = snapshot
         /\ paused' = paused /\ active' = active /\ activatedAt' = activatedAt
         /\ n # Self => nonces'[Self] = nonces[Self]
         /\ \A r \in RoundIds :
              /\ rounds'[r].deadline = rounds[r].deadline
              /\ rounds'[r].nodeSetVersion = rounds[r].nodeSetVersion
              /\ rounds'[r].settledAt = rounds[r].settledAt
              /\ r \in Live' => r \in Live
              /\ submitted[r] \subseteq submitted'[r]
<1>1. ChainInv
  BY DEF NodeInv
<1>2. /\ Rounds!IsLive(rounds[q].state)
      /\ SameRound(rounds[q], rounds'[q])
      /\ rounds'[q].settledAt = rounds[q].settledAt
      /\ submitted'[q] = submitted[q] \cup {n}
      /\ \A r \in RoundIds \ {q} : /\ rounds'[r] = rounds[r]
                                   /\ submitted'[r] = submitted[r]
      /\ UNCHANGED <<Rounds!registry, now, nextRoundId, snapshot>>
      /\ \A m \in Nodes \ {n} : nonces'[m] = nonces[m]
  BY <1>1, SubmitWrites
<1>3. q \in Live
  BY <1>2 DEF Live
<1>4. ASSUME NEW r \in RoundIds
      PROVE  /\ rounds'[r].deadline = rounds[r].deadline
             /\ rounds'[r].nodeSetVersion = rounds[r].nodeSetVersion
             /\ rounds'[r].settledAt = rounds[r].settledAt
             /\ r \in Live' => r \in Live
             /\ submitted[r] \subseteq submitted'[r]
  <2>1. CASE r = q
    BY <1>2, <1>3, <2>1 DEF SameRound
  <2>2. CASE r # q
    BY <1>2, <2>2 DEF Live, Rounds!IsLive
  <2> QED
    BY <2>1, <2>2
<1>5. paused' = paused
  BY DEF Rounds!Submit
<1>6. n # Self => nonces'[Self] = nonces[Self]
  BY <1>2, Numbers
<1> QED
  BY <1>2, <1>3, <1>4, <1>5, <1>6, LiveIsLast DEF Rounds!registry

LEMMA MineTimely ==
  ASSUME NodeInv, TimelyInv, NEW tx \in pool, Mine(tx)
  PROVE  TimelyInv'
<1>1. /\ UNCHANGED <<vm, step, view, nonce, awaited, openedAt, ticked>>
      /\ excused' = excused /\ pool' = pool \ {tx}
  BY DEF Mine, work
<1>2. CASE Rounds!Submit(Self, tx.round, tx.value, tx.nonce)
  <2>1. tx.round \in RoundIds /\ tx.value \in Nat /\ Self \in Nodes
    BY Numbers DEF NodeInv, SentSound, DaemonTyped, OfItsRound, Tx
  <2>2. PICK q \in RoundIds, v \in Nat, c \in {tx.nonce} :
          q = tx.round /\ v = tx.value /\ c = tx.nonce
    BY <2>1
  <2>3. Rounds!Submit(Self, q, v, c)
    BY <1>2, <2>2
  <2>4. /\ q = Newest /\ Self \in submitted'[q]
        /\ now' = now /\ nextRoundId' = nextRoundId /\ snapshot' = snapshot
        /\ paused' = paused /\ active' = active /\ activatedAt' = activatedAt
        /\ \A r \in RoundIds :
             /\ rounds'[r].deadline = rounds[r].deadline
             /\ rounds'[r].nodeSetVersion = rounds[r].nodeSetVersion
             /\ rounds'[r].settledAt = rounds[r].settledAt
             /\ r \in Live' => r \in Live
             /\ submitted[r] \subseteq submitted'[r]
    BY <2>1, <2>3, SubmitLeaves
  <2>5. ~Due'
    BY <2>4 DEF Due, Newest
  <2>6. \A r \in RoundIds : r = Newest => Self \in submitted'[r]
    BY <2>4
  <2> QED
    BY <1>1, <2>4, <2>5, <2>6, BesideTimely
<1>3. CASE ~Accepts(tx.round, tx.nonce) /\ UNCHANGED chain
  <2>1. /\ now' = now /\ nextRoundId' = nextRoundId /\ snapshot' = snapshot
        /\ paused' = paused /\ active' = active /\ activatedAt' = activatedAt
        /\ rounds' = rounds /\ submitted' = submitted /\ nonces' = nonces
    BY <1>3 DEF chain
  <2>2. Live' = Live
    BY <2>1 DEF Live, Rounds!IsLive
  <2>3. ASSUME NEW r \in RoundIds, NEW d \in Nat, NEW o \in Nat, NEW k \in Nat,
               Due, r = Newest, k = nonces[Self], Way(r, d, o, k)
        PROVE  Way(r, d, o, k)'
    <3>1. Accepts(r, k)
      BY <2>3, Accepted
    <3>2. ~(tx.round = r /\ tx.nonce = k)
      BY <1>3, <3>1
    <3>3. ASSUME NEW t \in pool, t.round = r, t.nonce = k,
                 t.sentAt <= d - SubmitBefore, now <= t.sentAt + SubmitBefore
          PROVE  Way(r, d, o, k)'
      <4>1. t \in pool'
        BY <1>1, <3>2, <3>3
      <4>2. now' <= t.sentAt + SubmitBefore
        BY <2>1, <3>3
      <4> QED
        BY <3>3, <4>1, <4>2 DEF Way
    <3> QED
      BY <1>1, <2>1, <2>3, <3>3 DEF Way
  <2> QED
    BY <1>1, <2>1, <2>2, <2>3, BesideTimely
<1> QED
  BY <1>2, <1>3 DEF Mine

LEMMA OpenRoundTimely ==
  ASSUME NodeInv, OpenRound
  PROVE  TimelyInv'
<1>1. /\ UNCHANGED <<step, view, nonce, awaited, ticked, pool>>
  BY DEF OpenRound, daemon, work, sent
<1>2. ChainInv
  BY DEF NodeInv
<1>3. /\ nextRoundId \in RoundIds /\ nextRoundId' = nextRoundId + 1
      /\ rounds'[nextRoundId] = Fresh
      /\ snapshot'[nextRoundId] = active
      /\ openedAt'[nextRoundId] = now
      /\ ~paused' /\ UNCHANGED <<Rounds!registry, now>>
  BY <1>2, OpenWrites
<1>4. PICK r \in RoundIds : r = nextRoundId
  BY <1>3
<1>5. Newest' = r
  <2>1. nextRoundId \in Nat
    BY DEF NodeInv, ChainInv, ChainTyped
  <2> QED
    BY <1>3, <1>4, <2>1 DEF Newest
<1>6. /\ rounds'[r].deadline = now + roundDuration
      /\ rounds'[r].settledAt = 0
      /\ rounds'[r].nodeSetVersion = version
  <2>1. rounds'[r] = Fresh
    BY <1>3, <1>4
  <2> QED
    BY <2>1 DEF Fresh
<1>7. /\ roundDuration \in Durations /\ now \in Nat /\ roundDuration \in Nat
      /\ SubmitBefore \in Nat
  BY <1>2, Numbers DEF ChainInv, ChainTyped
<1>8. PICK d \in Nat, o \in Nat : d = now + roundDuration /\ o = now
  BY <1>7
<1>9. Undisturbed' => now + SubmitBefore + 1 < d /\ now + SubmitBefore < d
  <2> SUFFICES ASSUME Undisturbed'
               PROVE  now + SubmitBefore + 1 < d /\ now + SubmitBefore < d
    OBVIOUS
  <2>1. (now + roundDuration) - now > SubmitBefore + 1
    BY <1>3, <1>4, <1>5, <1>6 DEF Undisturbed, LongEnough
  <2> QED
    BY ONLY <1>7, <1>8, <2>1
<1>10. Undisturbed' => NotSilenced'
  <2> SUFFICES ASSUME Undisturbed' PROVE NotSilenced'
    OBVIOUS
  <2>1. Self \in active /\ active' = active /\ activatedAt' = activatedAt
    BY <1>3, <1>4, <1>5 DEF Undisturbed, Rounds!registry
  <2>2. activatedAt[Self] <= version
    BY <1>2, Numbers DEF ChainInv, RegistrySound
  <2>3. \A v : Rounds!Registry!EligibleAt(v)' = Rounds!Registry!EligibleAt(v)
    BY <2>1 DEF Rounds!Registry!EligibleAt
  <2>4. Self \in Rounds!Registry!EligibleAt(rounds[Newest].nodeSetVersion)'
    BY <1>5, <1>6, <2>1, <2>2 DEF Rounds!Registry!EligibleAt
  <2>5. ~(rounds'[r].settledAt > rounds'[r].deadline)
    BY <1>6, <1>7
  <2> QED
    BY <1>3, <1>5, <2>4, <2>5 DEF NotSilenced
<1>11. /\ step \notin {"idle", "polling"} => view.round # r
       /\ step = "waiting" => awaited.round # r /\ awaited.sentAt <= now
  <2>1. \A q \in Nat : q < q => FALSE
    OBVIOUS
  <2>2. r \in Nat
    BY Numbers DEF RoundIds
  <2> QED
    BY <1>4, <2>1, <2>2 DEF NodeInv, ViewSound, SentSound, OfItsRound
<1>12. Undisturbed' => Way(r, d, o, nonces[Self])'
  <2> SUFFICES ASSUME Undisturbed' PROVE Way(r, d, o, nonces[Self])'
    OBVIOUS
  <2>1. now' = now /\ o = now /\ now <= o + SubmitBefore
    BY <1>3, <1>7, <1>8
  <2>2. step \in Steps
    BY DEF NodeInv, DaemonTyped
  <2>3. CASE step = "idle"
    BY <1>1, <1>9, <2>1, <2>3 DEF Way
  <2>4. CASE step = "polling"
    BY <1>1, <1>9, <2>1, <2>4 DEF Way
  <2>5. CASE step \in {"round", "standing", "fetching", "priced", "signed"}
    BY <1>1, <1>9, <1>11, <2>1, <2>5 DEF Way
  <2>6. CASE step = "waiting"
    BY <1>1, <1>11, <2>1, <2>6 DEF Way
  <2> QED
    BY <2>2, <2>3, <2>4, <2>5, <2>6 DEF Steps
<1>13. Undisturbed' => OnItsWay'
  <2>1. d = rounds'[Newest'].deadline /\ o = openedAt'[Newest']
    BY <1>3, <1>4, <1>5, <1>6, <1>8
  <2> QED
    BY <1>5, <1>12, <2>1 DEF OnItsWay, Way
<1>14. NonceFits'
  BY <1>1, <1>5, <1>11 DEF NonceFits
<1> QED
  BY <1>10, <1>13, <1>14 DEF TimelyInv, Due

(* A round closes in time for its node, or the node has answered it.       *)
LEMMA SettleTimely ==
  ASSUME NodeInv, TimelyInv, NEW q \in RoundIds, Rounds!SettleRound(q),
         UNCHANGED <<vm, excused, openedAt>>
  PROVE  TimelyInv'
<1>1. ChainInv
  BY DEF NodeInv
<1>2. /\ Rounds!IsLive(rounds[q].state)
      /\ ~Rounds!IsLive(rounds'[q].state)
      /\ SameRound(rounds[q], rounds'[q])
      /\ rounds'[q].settledAt = now
      /\ UNCHANGED <<Rounds!registry, now, nextRoundId, submitted, snapshot,
                     paused>>
  BY <1>1, SettleWrites
<1>3. q \in Live /\ q = Newest /\ Newest' = Newest
  BY <1>2, LiveIsLast DEF Live, Newest
<1>4. ~Due'
  BY <1>2, <1>3 DEF Due, Live, Rounds!IsLive
<1>5. ASSUME Undisturbed' PROVE NotSilenced'
  <2>0. \A r \in RoundIds : rounds'[r].deadline = rounds[r].deadline
    BY <1>1, SettleWrites DEF SameRound
  <2>1. Undisturbed
    BY <1>2, <1>5, <2>0, NotNewlyDue
  <2>2. active' = active /\ activatedAt' = activatedAt
    BY <1>2 DEF Rounds!registry
  <2>3. /\ ~paused'
        /\ Self \in Rounds!Registry!EligibleAt(rounds[q].nodeSetVersion)
    BY <1>2, <1>3, <2>1 DEF TimelyInv, NotSilenced
  <2>4. Self \in Rounds!Registry!EligibleAt(rounds[Newest].nodeSetVersion)'
    BY <1>2, <1>3, <2>2, <2>3 DEF Rounds!Registry!EligibleAt, SameRound
  <2>5. Self \notin submitted[q] => now <= rounds[q].deadline
    BY <1>3, <2>1, InTime DEF TimelyInv, Due
  <2>6. now \in Nat /\ rounds[q].deadline \in Nat
    <3>1. PICK r \in RoundIds, d \in Nat : r = Newest /\ d = rounds[Newest].deadline
      BY <2>1, LastNumbers
    <3> QED
      BY <1>1, <1>3, <3>1 DEF ChainInv, ChainTyped
  <2>7. now > rounds[q].deadline => Self \in submitted[q]
    BY <2>5, <2>6
  <2>8. rounds'[q].settledAt > rounds'[q].deadline => Self \in submitted'[q]
    BY <1>2, <2>7 DEF SameRound
  <2> QED
    BY <1>3, <2>3, <2>4, <2>8 DEF NotSilenced
<1> QED
  BY <1>4, <1>5 DEF TimelyInv

LEMMA OthersTimely ==
  ASSUME NodeInv, TimelyInv, OthersAct
  PROVE  TimelyInv'
<1>1. /\ UNCHANGED <<vm, step, view, nonce, awaited, ticked, pool, excused,
                     openedAt>>
  BY DEF OthersAct, daemon, work, sent
<1>2. CASE \E n \in Nodes \ {Self}, r \in RoundIds, v \in Values :
             Rounds!Submit(n, r, v, nonces[n])
  <2>1. PICK n \in Nodes \ {Self}, q \in RoundIds, v \in Nat :
          Rounds!Submit(n, q, v, nonces[n])
    BY <1>2, Numbers
  <2>2. /\ now' = now /\ nextRoundId' = nextRoundId /\ snapshot' = snapshot
        /\ paused' = paused /\ active' = active /\ activatedAt' = activatedAt
        /\ nonces'[Self] = nonces[Self]
        /\ \A r \in RoundIds :
             /\ rounds'[r].deadline = rounds[r].deadline
             /\ rounds'[r].nodeSetVersion = rounds[r].nodeSetVersion
             /\ rounds'[r].settledAt = rounds[r].settledAt
             /\ r \in Live' => r \in Live
             /\ submitted[r] \subseteq submitted'[r]
    BY <2>1, SubmitLeaves
  <2>3. \A r, d, o, k : Way(r, d, o, k) => Way(r, d, o, k)'
    BY <1>1, <2>2 DEF Way
  <2> QED
    BY <1>1, <2>2, <2>3, BesideTimely
<1>3. CASE \E r \in RoundIds : Rounds!SettleRound(r)
  BY <1>1, <1>3, SettleTimely
<1>4. CASE Rounds!Unpause
  <2>1. /\ paused /\ nextRoundId' = nextRoundId /\ snapshot' = snapshot
        /\ rounds' = rounds
    BY <1>4 DEF Rounds!Unpause
  <2>2. ~Undisturbed
    BY <2>1 DEF TimelyInv, NotSilenced
  <2>3. ~Undisturbed'
    BY <1>1, <2>1, <2>2, NotNewlyDue
  <2> QED
    BY <2>3 DEF TimelyInv, Due
<1>5. CASE Self \notin active /\ Rounds!RegistryStep
  <2>1. nextRoundId' = nextRoundId /\ snapshot' = snapshot /\ rounds' = rounds
    BY <1>5 DEF Rounds!RegistryStep
  <2>2. ~Undisturbed
    BY <1>5 DEF TimelyInv, NotSilenced, Rounds!Registry!EligibleAt
  <2>3. ~Undisturbed'
    BY <1>1, <2>1, <2>2, NotNewlyDue
  <2> QED
    BY <2>3 DEF TimelyInv, Due
<1> QED
  BY <1>2, <1>3, <1>4, <1>5 DEF OthersAct

LEMMA TickTimely ==
  ASSUME NodeInv, TimelyInv, Tick
  PROVE  TimelyInv'
<1>1. /\ UNCHANGED <<vm, step, view, nonce, awaited, pool, openedAt>>
      /\ ticked' = TRUE
      /\ excused' = (excused \/ Slow \/ Busy
                       \/ \E tx \in Overdue : tx.round \in Live)
  BY DEF Tick, work, sent
<1>2. /\ now' = now + 1 /\ nextRoundId' = nextRoundId /\ rounds' = rounds
      /\ submitted' = submitted /\ nonces' = nonces /\ snapshot' = snapshot
      /\ paused' = paused /\ active' = active /\ activatedAt' = activatedAt
  BY DEF Tick, Rounds!Tick, Rounds!answers, Rounds!registry
<1>3. Live' = Live
  BY <1>2 DEF Live, Rounds!IsLive
<1>4. now \in Nat /\ SubmitBefore \in Nat
  BY Numbers DEF NodeInv, ChainInv, ChainTyped
<1>5. ASSUME NEW r \in RoundIds, NEW d \in Nat, NEW o \in Nat, NEW k \in Nat,
             Due, ~excused', r = Newest, Way(r, d, o, k)
      PROVE  Way(r, d, o, k)'
  <2>1. /\ ~Slow /\ ~Busy /\ \A tx \in Overdue : tx.round \notin Live
        /\ r \in Live
    BY <1>1, <1>5 DEF Due
  <2>2. ASSUME NEW tx \in pool, tx \notin Overdue
        PROVE  tx.sentAt \in Nat /\ now + 1 <= tx.sentAt + SubmitBefore
    <3>1. tx.sentAt \in Nat
      BY Numbers DEF NodeInv, DaemonTyped, Tx
    <3>2. ~(now - tx.sentAt >= SubmitBefore)
      BY <2>2 DEF Overdue
    <3> QED
      BY <1>4, <3>1, <3>2
  <2>3. CASE \E tx \in pool : /\ tx.round = r /\ tx.nonce = k
                              /\ tx.sentAt <= d - SubmitBefore
                              /\ now <= tx.sentAt + SubmitBefore
    <3>1. PICK tx \in pool : /\ tx.round = r /\ tx.nonce = k
                             /\ tx.sentAt <= d - SubmitBefore
      BY <2>3
    <3>2. tx \notin Overdue
      BY <2>1, <3>1
    <3>3. now' <= tx.sentAt + SubmitBefore /\ tx \in pool'
      BY <1>1, <1>2, <2>2, <3>2
    <3> QED
      BY <3>1, <3>3 DEF Way
  <2>4. step \in {"idle", "fetching", "waiting"}
    BY <2>1 DEF Slow
  <2>5. CASE step = "idle" /\ now + SubmitBefore + 1 < d
    <3>1. now' + SubmitBefore < d
      BY <1>2, <1>4, <2>5
    <3> QED
      BY <1>1, <2>5, <3>1 DEF Way
  <2>6. CASE step = "idle" /\ ticked
    BY <2>1, <2>6 DEF Slow
  <2>7. CASE step = "fetching" /\ view.round = r
    BY <1>1, <2>7 DEF Way
  <2>8. CASE step = "fetching" /\ view.round # r
    <3>1. view.round \notin Live
      BY <1>5, <2>8, LiveIsLast
    <3> QED
      BY <2>1, <2>8, <3>1 DEF Busy
  <2>9. CASE /\ step = "waiting" /\ awaited.round # r
             /\ awaited.sentAt <= o /\ now <= o + SubmitBefore
    <3>1. awaited \in pool \ Overdue
      BY <2>1, <2>9 DEF Busy
    <3>2. PICK s \in Nat : /\ s = awaited.sentAt
                           /\ now + 1 <= s + SubmitBefore
      BY <2>2, <3>1
    <3>3. now + 1 <= o + SubmitBefore
      BY ONLY <1>4, <2>9, <3>2, o \in Nat
    <3>4. now' <= o + SubmitBefore
      BY <1>2, <3>3
    <3> QED
      BY <1>1, <2>9, <3>4 DEF Way
  <2> QED
    BY <1>5, <2>3, <2>4, <2>5, <2>6, <2>7, <2>8, <2>9 DEF Way
<1>6. excused => excused'
  BY <1>1
<1> QED
  BY <1>1, <1>2, <1>3, <1>5, <1>6, BesideTimely

LEMMA StutterTimely ==
  ASSUME NodeInv, TimelyInv, UNCHANGED vars
  PROVE  TimelyInv'
<1>1. /\ Still /\ excused' = excused
      /\ UNCHANGED <<step, view, nonce, awaited, ticked, pool, now>>
  BY DEF vars, Still, work, sent, chain
<1>2. \A r, d, o, k : Way(r, d, o, k) => Way(r, d, o, k)'
  BY <1>1 DEF Way
<1>3. Due => NonceFits
  BY DEF TimelyInv
<1> QED
  BY <1>1, <1>2, <1>3, StillTimely DEF NonceFits

LEMMA StepTimely ==
  ASSUME NodeInv, TimelyInv, [Next]_vars
  PROVE  TimelyInv'
<1>1. CASE UNCHANGED vars
  BY <1>1, StutterTimely
<1>2. CASE Poll \/ ReadCurrentRound \/ ReadRound \/ ReadStanding
  BY <1>2, PollTimely, ReadCurrentRoundTimely, ReadRoundTimely,
     ReadStandingTimely
<1>3. CASE FetchPrice \/ ReadNonce \/ Submit \/ WaitFor
  BY <1>3, FetchPriceTimely, ReadNonceTimely, SendTimely, WaitForTimely
<1>4. CASE MineTransaction
  BY <1>4, MineTimely DEF MineTransaction
<1>5. CASE DropTransaction \/ CallFails \/ Crash \/ Disrupted
  BY <1>5, ExcusedTimely DEF DropTransaction, CallFails, Crash, Fault, Disrupted
<1>6. CASE OpenRound \/ OthersAct \/ Tick
  BY <1>6, OpenRoundTimely, OthersTimely, TickTimely
<1> QED
  BY <1>1, <1>2, <1>3, <1>4, <1>5, <1>6 DEF Next

(* Whenever the last round ran its full time with no obstacle but the      *)
(* daemon's own work, and counted the node when it opened, the node's      *)
(* submission is in, if the round was long enough for it: the poll, the    *)
(* calls, the sources' time, the headroom (NODE_SUBMIT_BEFORE) and the     *)
(* Solana client's wait for an older round fit one after the other into it.*)
THEOREM HeardInTime == Spec => []HeardUnlessExcused
<1>1. Init => TimelyInv
  BY DEF Init, TimelyInv, Due, Undisturbed, Newest
<1>2. NodeInv /\ TimelyInv /\ [Next]_vars => TimelyInv'
  BY StepTimely
<1>3. NodeInv /\ TimelyInv => HeardUnlessExcused
  <2> SUFFICES ASSUME NodeInv, TimelyInv, Undisturbed,
                      now > rounds[Newest].deadline,
                      Newest \in Live
                        \/ rounds[Newest].settledAt > rounds[Newest].deadline,
                      Self \notin submitted[Newest]
               PROVE  FALSE
    BY DEF HeardUnlessExcused, Undisturbed, Newest
  <2>1. CASE Newest \in Live
    <3>1. now <= rounds[Newest].deadline
      BY <2>1, InTime DEF TimelyInv, Due
    <3>2. PICK d \in Nat : d = rounds[Newest].deadline /\ now \in Nat
      BY LastNumbers
    <3> QED
      BY <3>1, <3>2
  <2>2. CASE rounds[Newest].settledAt > rounds[Newest].deadline
    BY <2>2 DEF TimelyInv, NotSilenced
  <2> QED
    BY <2>1, <2>2
<1> QED
  BY <1>1, <1>2, <1>3, NodeInvariant, PTL DEF Spec
=============================================================================
