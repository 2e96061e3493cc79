---------------------------- MODULE OracleRounds ----------------------------
(***************************************************************************)
(* contracts/src/oracle/OracleRounds.sol: the round lifecycle of the price *)
(* feeds.  The registry the contract reads is the module NodeSet, which    *)
(* OracleStaking implements; its steps interleave with the round's own.    *)
(* A transaction is one action, a revert leaves the state alone.           *)
(***************************************************************************)
EXTENDS Integers, FiniteSets, Sequences, MedianPrice

CONSTANTS
  Nodes, Ceiling, MaxVersion,   \* of NodeSet
  Feeds,            \* feed ids
  NoFeed,           \* the feedId of a round that was never opened
  Values,           \* prices a node may submit (0 is refused by the code)
  Durations,        \* values of the round duration
  QuorumLevels,     \* values of the quorum, in basis points
  QuorumCounts,     \* values of the smallest quorum, in nodes
  MaxSubmissions,   \* _MAX_SUBMISSIONS (31)
  MaxTime,          \* bound on the clock
  MaxRounds         \* bound on the number of rounds opened

BPS == 10000        \* _BPS_DENOMINATOR

ASSUME RoundsAssumption ==
  /\ IsFiniteSet(Nodes)
  /\ Ceiling \in Nat
  /\ MaxVersion \in Nat
  /\ NoFeed \notin Feeds
  /\ Values \subseteq Nat \ {0}
  /\ Durations \subseteq Nat \ {0}
  /\ QuorumLevels \subseteq 1..BPS
  /\ QuorumCounts \subseteq Nat \ {0}
  /\ MaxSubmissions \in Nat
  /\ Ceiling <= MaxSubmissions    \* both contracts say 31
  /\ MaxTime \in Nat
  /\ MaxRounds \in Nat

RoundIds == 1..MaxRounds

VARIABLES
  active, activatedAt, version,   \* the registry
  now,                            \* block.timestamp
  nextRoundId,                    \* _nextRoundId
  feeds,                          \* _feeds
  rounds,                         \* _rounds
  roundValues,                    \* _roundValues, in the order they arrived
  submitted,                      \* _submitted, as the nodes flagged
  nonces,                         \* _nonces
  roundDuration, quorumBps, minQuorumNodes,
  paused,
  snapshot          \* history: the members when the round opened

registry   == <<active, activatedAt, version>>
parameters == <<roundDuration, quorumBps, minQuorumNodes>>
answers    == <<roundValues, submitted, nonces>>
vars == <<registry, now, nextRoundId, feeds, rounds, answers, parameters,
          paused, snapshot>>

Registry == INSTANCE NodeSet

RoundState == {"NONE", "OPEN", "QUORUM_MET", "SETTLED", "FAILED"}

Round ==
  [feedId : Feeds \cup {NoFeed}, deadline : Nat, settledAt : Nat,
   state : RoundState, nodeSetVersion : 0..MaxVersion,
   eligibleCount : Nat, aggregatedValue : Nat]

NoRound ==
  [feedId |-> NoFeed, deadline |-> 0, settledAt |-> 0, state |-> "NONE",
   nodeSetVersion |-> 0, eligibleCount |-> 0, aggregatedValue |-> 0]

Feed ==
  [registered : BOOLEAN, currentRoundId : 0..MaxRounds,
   lastSettledRoundId : 0..MaxRounds]

-----------------------------------------------------------------------------
(* Internals.  Operators named Mutant... are variants with a bug the code  *)
(* could have had; each is refuted by a property, none is part of Next.    *)

IsLive(state) == state \in {"OPEN", "QUORUM_MET"}

HasQuorum(count, eligible) ==
  /\ count >= minQuorumNodes
  /\ count * BPS >= eligible * quorumBps

-----------------------------------------------------------------------------
(* Permissionless and node functions. *)

OpenRound(f) ==
  LET current == feeds[f].currentRoundId
      deadline == now + roundDuration
  IN /\ ~paused
     /\ feeds[f].registered
     /\ current # 0 => ~IsLive(rounds[current].state)
     /\ Cardinality(active) >= minQuorumNodes
     /\ nextRoundId <= MaxRounds
     /\ deadline < MaxTime     \* bound: the clock can still pass it
     /\ rounds' = [rounds EXCEPT ![nextRoundId] =
          [feedId |-> f, deadline |-> deadline, settledAt |-> 0,
           state |-> "OPEN", nodeSetVersion |-> version,
           eligibleCount |-> Cardinality(active), aggregatedValue |-> 0]]
     /\ snapshot' = [snapshot EXCEPT ![nextRoundId] = active]
     /\ feeds' = [feeds EXCEPT ![f].currentRoundId = nextRoundId]
     /\ nextRoundId' = nextRoundId + 1
     /\ UNCHANGED <<registry, now, answers, parameters, paused>>

(* Eligibility is judged against the live set. *)
MutantSubmitLive(n, r, value, nonce) ==
  LET met == rounds[r].state = "OPEN"
             /\ HasQuorum(Len(roundValues[r]) + 1, rounds[r].eligibleCount)
  IN /\ ~paused
     /\ IsLive(rounds[r].state)
     /\ now <= rounds[r].deadline
     /\ n \in active \ submitted[r]
     /\ nonce = nonces[n]
     /\ nonces' = [nonces EXCEPT ![n] = nonce + 1]
     /\ submitted' = [submitted EXCEPT ![r] = @ \cup {n}]
     /\ roundValues' = [roundValues EXCEPT ![r] = Append(@, value)]
     /\ rounds' = IF met THEN [rounds EXCEPT ![r].state = "QUORUM_MET"]
                  ELSE rounds
     /\ UNCHANGED <<registry, now, nextRoundId, feeds, parameters, paused,
                    snapshot>>

(* Only the deadline closes a round to submissions. *)
MutantSubmitLate(n, r, value, nonce) ==
  /\ ~paused
  /\ rounds[r].state # "NONE"
  /\ now <= rounds[r].deadline
  /\ n \in Registry!EligibleAt(rounds[r].nodeSetVersion) \ submitted[r]
  /\ nonce = nonces[n]
  /\ nonces' = [nonces EXCEPT ![n] = nonce + 1]
  /\ submitted' = [submitted EXCEPT ![r] = @ \cup {n}]
  /\ roundValues' = [roundValues EXCEPT ![r] = Append(@, value)]
  /\ UNCHANGED <<registry, now, nextRoundId, feeds, rounds, parameters,
                 paused, snapshot>>

(* The flag is set and never tested. *)
MutantSubmitTwice(n, r, value, nonce) ==
  /\ ~paused
  /\ IsLive(rounds[r].state)
  /\ now <= rounds[r].deadline
  /\ n \in Registry!EligibleAt(rounds[r].nodeSetVersion)
  /\ nonce = nonces[n]
  /\ nonces' = [nonces EXCEPT ![n] = nonce + 1]
  /\ submitted' = [submitted EXCEPT ![r] = @ \cup {n}]
  /\ roundValues' = [roundValues EXCEPT ![r] = Append(@, value)]
  /\ UNCHANGED <<registry, now, nextRoundId, feeds, rounds, parameters,
                 paused, snapshot>>

(* `nonce` is the argument of the call, signed with the round, its feed,   *)
(* the value and the node; a node signs only what it then sends, so the    *)
(* signature check refuses nothing that reaches it here.                   *)
Submit(n, r, value, nonce) ==
  LET count == Len(roundValues[r]) + 1
      met == rounds[r].state = "OPEN"
             /\ HasQuorum(count, rounds[r].eligibleCount)
  IN /\ ~paused
     /\ IsLive(rounds[r].state)
     /\ now <= rounds[r].deadline
     /\ n \in Registry!EligibleAt(rounds[r].nodeSetVersion)
     /\ n \notin submitted[r]
     /\ Len(roundValues[r]) < MaxSubmissions
     /\ nonce = nonces[n]
     /\ nonces' = [nonces EXCEPT ![n] = nonce + 1]
     /\ submitted' = [submitted EXCEPT ![r] = @ \cup {n}]
     /\ roundValues' = [roundValues EXCEPT ![r] = Append(@, value)]
     /\ \/ met /\ rounds' = [rounds EXCEPT ![r].state = "QUORUM_MET"]
        \/ ~met /\ UNCHANGED rounds
     /\ UNCHANGED <<registry, now, nextRoundId, feeds, parameters, paused,
                    snapshot>>

(* Settlement stops with submissions. *)
MutantSettlePaused(r) ==
  LET quorum == HasQuorum(Len(roundValues[r]), rounds[r].eligibleCount)
  IN /\ ~paused
     /\ IsLive(rounds[r].state)
     /\ quorum \/ now > rounds[r].deadline
     /\ rounds' = [rounds EXCEPT
          ![r].state = IF quorum THEN "SETTLED" ELSE "FAILED",
          ![r].settledAt = now,
          ![r].aggregatedValue = IF quorum THEN Median(roundValues[r]) ELSE 0]
     /\ feeds' = IF quorum
          THEN [feeds EXCEPT ![rounds[r].feedId].lastSettledRoundId = r]
          ELSE feeds
     /\ UNCHANGED <<registry, now, nextRoundId, answers, parameters, paused,
                    snapshot>>

(* A round that was never opened has no quorum and a deadline long past. *)
MutantSettleUnopened(r) ==
  /\ ~HasQuorum(Len(roundValues[r]), rounds[r].eligibleCount)
  /\ now > rounds[r].deadline
  /\ rounds' = [rounds EXCEPT ![r].state = "FAILED", ![r].settledAt = now]
  /\ UNCHANGED <<registry, now, nextRoundId, feeds, answers, parameters,
                 paused, snapshot>>

(* Anyone may close a round, paused or not, and whatever happened to its   *)
(* feed.  Quorum is judged again, with the parameters now in force.        *)
SettleRound(r) ==
  LET quorum == HasQuorum(Len(roundValues[r]), rounds[r].eligibleCount)
      Settles ==
        /\ rounds' = [rounds EXCEPT ![r].state = "SETTLED",
                        ![r].settledAt = now,
                        ![r].aggregatedValue = Median(roundValues[r])]
        /\ feeds' = [feeds EXCEPT ![rounds[r].feedId].lastSettledRoundId = r]
      Fails ==
        /\ now > rounds[r].deadline
        /\ rounds' = [rounds EXCEPT ![r].state = "FAILED",
                                    ![r].settledAt = now]
        /\ UNCHANGED feeds
  IN /\ IsLive(rounds[r].state)
     /\ \/ quorum /\ Settles
        \/ ~quorum /\ Fails
     /\ UNCHANGED <<registry, now, nextRoundId, answers, parameters, paused,
                    snapshot>>

-----------------------------------------------------------------------------
(* ORACLE_MANAGER_ROLE and PAUSER_ROLE. *)

(* Registering again starts from an empty record. *)
MutantRegisterFeed(f) ==
  /\ ~feeds[f].registered
  /\ feeds' = [feeds EXCEPT ![f] =
       [registered |-> TRUE, currentRoundId |-> 0, lastSettledRoundId |-> 0]]
  /\ UNCHANGED <<registry, now, nextRoundId, rounds, answers, parameters,
                 paused, snapshot>>

RegisterFeed(f) ==
  /\ ~feeds[f].registered
  /\ feeds' = [feeds EXCEPT ![f].registered = TRUE]
  /\ UNCHANGED <<registry, now, nextRoundId, rounds, answers, parameters,
                 paused, snapshot>>

DeregisterFeed(f) ==
  /\ feeds[f].registered
  /\ feeds' = [feeds EXCEPT ![f].registered = FALSE]
  /\ UNCHANGED <<registry, now, nextRoundId, rounds, answers, parameters,
                 paused, snapshot>>

SetParameters ==
  /\ \/ \E d \in Durations : roundDuration' = d
        /\ UNCHANGED <<quorumBps, minQuorumNodes>>
     \/ \E q \in QuorumLevels : quorumBps' = q
        /\ UNCHANGED <<roundDuration, minQuorumNodes>>
     \/ \E c \in QuorumCounts : minQuorumNodes' = c
        /\ UNCHANGED <<roundDuration, quorumBps>>
  /\ UNCHANGED <<registry, now, nextRoundId, feeds, rounds, answers, paused,
                 snapshot>>

Pause ==
  /\ ~paused
  /\ paused' = TRUE
  /\ UNCHANGED <<registry, now, nextRoundId, feeds, rounds, answers,
                 parameters, snapshot>>

Unpause ==
  /\ paused
  /\ paused' = FALSE
  /\ UNCHANGED <<registry, now, nextRoundId, feeds, rounds, answers,
                 parameters, snapshot>>

Tick ==
  /\ now < MaxTime
  /\ now' = now + 1
  /\ UNCHANGED <<registry, nextRoundId, feeds, rounds, answers, parameters,
                 paused, snapshot>>

(* Any operation of OracleStaking that changes the set. *)
RegistryStep ==
  /\ Registry!Next
  /\ UNCHANGED <<now, nextRoundId, feeds, rounds, answers, parameters,
                 paused, snapshot>>

-----------------------------------------------------------------------------
(* initialize *)
Init ==
  /\ Registry!Init
  /\ now = 0
  /\ nextRoundId = 1
  /\ feeds = [f \in Feeds |-> [registered |-> FALSE, currentRoundId |-> 0,
                               lastSettledRoundId |-> 0]]
  /\ rounds = [r \in RoundIds |-> NoRound]
  /\ roundValues = [r \in RoundIds |-> <<>>]
  /\ submitted = [r \in RoundIds |-> {}]
  /\ nonces = [n \in Nodes |-> 0]
  /\ roundDuration \in Durations
  /\ quorumBps \in QuorumLevels
  /\ minQuorumNodes \in QuorumCounts
  /\ paused = FALSE
  /\ snapshot = [r \in RoundIds |-> {}]

Next ==
  \/ \E f \in Feeds : OpenRound(f) \/ RegisterFeed(f) \/ DeregisterFeed(f)
  \/ \E n \in Nodes, r \in RoundIds, v \in Values, k \in 0..MaxRounds :
       Submit(n, r, v, k)
  \/ \E r \in RoundIds : SettleRound(r)
  \/ SetParameters
  \/ Pause
  \/ Unpause
  \/ RegistryStep
  \/ Tick

Spec == Init /\ [][Next]_vars

(* Time passes, and whoever wants a round closed can close it: settleRound *)
(* asks for no role and is not paused.                                     *)
Fairness == WF_vars(Tick) /\ \A r \in RoundIds : WF_vars(SettleRound(r))

FairSpec == Spec /\ Fairness

-----------------------------------------------------------------------------
(* Properties. *)

TypeOK ==
  /\ Registry!TypeOK
  /\ now \in 0..MaxTime
  /\ nextRoundId \in 1..(MaxRounds + 1)
  /\ feeds \in [Feeds -> Feed]
  /\ rounds \in [RoundIds -> Round]
  /\ roundValues \in [RoundIds -> Seq(Values)]
  /\ submitted \in [RoundIds -> SUBSET Nodes]
  /\ nonces \in [Nodes -> Nat]
  /\ roundDuration \in Durations
  /\ quorumBps \in QuorumLevels
  /\ minQuorumNodes \in QuorumCounts
  /\ paused \in BOOLEAN
  /\ snapshot \in [RoundIds -> SUBSET Nodes]
  /\ \A r \in RoundIds :
       /\ rounds[r].state = "NONE" <=> r >= nextRoundId
       /\ rounds[r].feedId = NoFeed <=> r >= nextRoundId

(* The numerator of the quorum never leaves the denominator frozen when    *)
(* the round opened: only members of that moment are counted, each once,   *)
(* however nodes leave, rejoin or arrive while the round is live.          *)
CountedOnceFromSnapshot ==
  \A r \in RoundIds :
    /\ submitted[r] \subseteq snapshot[r]
    /\ Len(roundValues[r]) = Cardinality(submitted[r])
    /\ Len(roundValues[r]) <= rounds[r].eligibleCount

(* The limit on submissions, which keeps the settlement sort affordable,   *)
(* never turns away a member who may still answer: the ceiling on the      *)
(* other contract's set is what makes that true.                           *)
RoomForMembers ==
  \A r \in RoundIds, n \in Nodes :
    /\ IsLive(rounds[r].state)
    /\ n \in Registry!EligibleAt(rounds[r].nodeSetVersion) \ submitted[r]
    => Len(roundValues[r]) < MaxSubmissions

(* A feed has at most one live round, the one its record points to, also   *)
(* when the feed is deregistered and registered again meanwhile.           *)
OneLiveRoundPerFeed ==
  \A r \in RoundIds : IsLive(rounds[r].state) =>
    feeds[rounds[r].feedId].currentRoundId = r

(* No more than half of the submissions lie on either side of the settled  *)
(* value, and it is a submission or the mean of two: the order in which    *)
(* they arrived and one wild value do not matter.                          *)
MedianIsCentral ==
  \A r \in RoundIds : rounds[r].state = "SETTLED" =>
    LET m == rounds[r].aggregatedValue
        n == Len(roundValues[r])
        At(i) == roundValues[r][i]
    IN /\ 2 * Cardinality({i \in 1..n : At(i) < m}) <= n
       /\ 2 * Cardinality({i \in 1..n : At(i) > m}) <= n
       /\ \E i, j \in 1..n : m = (At(i) + At(j)) \div 2

(* A nonce is used once: a node's counter is the number of rounds it has   *)
(* answered, over all feeds.                                               *)
NoncesCountSubmissions ==
  \A n \in Nodes :
    nonces[n] = Cardinality({r \in RoundIds : n \in submitted[r]})

(* A closed round is final: its record, its values and its submitters stay.*)
(* A feed's reading moves only forward, to a round of that feed that       *)
(* settled in this step, and never to one that failed.                     *)
ClosedIsFinal ==
  /\ \A r \in RoundIds : rounds[r].state \in {"SETTLED", "FAILED"} =>
       /\ rounds'[r] = rounds[r]
       /\ roundValues'[r] = roundValues[r]
       /\ submitted'[r] = submitted[r]
  /\ \A f \in Feeds :
       LET last == feeds'[f].lastSettledRoundId
       IN last # feeds[f].lastSettledRoundId =>
            /\ last > feeds[f].lastSettledRoundId
            /\ rounds'[last].state = "SETTLED"
            /\ rounds'[last].feedId = f
            /\ rounds'[last].settledAt = now

ClosedRoundsAreFinal == [][ClosedIsFinal]_vars

(* No round stays live: with or without quorum, paused or not, once its    *)
(* deadline passed it can be closed and the feed can open another.         *)
EveryRoundCloses ==
  \A r \in RoundIds : []<>~IsLive(rounds[r].state)
=============================================================================
