----------------------------- MODULE OracleNode -----------------------------
(***************************************************************************)
(* backend/internal/oraclenode and the chain adapters it drives            *)
(* (internal/chain/evm/oracle_node.go, internal/chain/svm/oracle.go):      *)
(* the daemon of one node, for one feed.  It polls for the round of its    *)
(* feed, asks its sources, signs the median and submits it, in calls to    *)
(* the chain that are steps of their own: the round, the contract's        *)
(* parameters, the other nodes and the clock go on between any two.  The   *)
(* chain is OracleRounds, whose guards the Solana program shares.          *)
(***************************************************************************)
EXTENDS Integers, FiniteSets, Sequences, FiniteSetsExt

CONSTANTS
  Nodes, Ceiling, MaxVersion, Feeds, NoFeed, Values, Durations, QuorumLevels,
  QuorumCounts, MaxSubmissions, MaxTime, MaxRounds,      \* of OracleRounds
  Self,            \* this node
  MyFeed,          \* NODE_FEED_NAME
  Vms,             \* kinds of chain: "evm", "svm"
  Sources,         \* NODE_SOURCES
  Faulty,          \* the source that may report anything
  Honest, Wild,    \* what a source may report, Wild by the faulty one only
  Precision,       \* units of a report in one unit of the feed's scale
  MinSources,      \* NODE_MIN_SOURCES
  SubmitBefore,    \* NODE_SUBMIT_BEFORE; a poll interval is one unit of time
  MaxPool,         \* bound on the account's pending transactions
  MaxFaults        \* bound on obstacles: crashes, failed or slow calls, lost
                   \* or slow transactions, pauses, losing its membership

(* Startup refuses a node that could never submit. *)
Startable == Cardinality(Sources) >= MinSources

ASSUME NodeAssumption ==
  /\ Startable
  /\ IsFiniteSet(Nodes) /\ Self \in Nodes
  /\ Ceiling \in Nat /\ MaxVersion \in Nat
  /\ Cardinality(Nodes) <= Ceiling /\ Cardinality(Nodes) <= MaxVersion
  /\ MaxSubmissions \in Nat /\ Ceiling <= MaxSubmissions
  /\ MyFeed \in Feeds /\ NoFeed \notin Feeds
  /\ Values \subseteq Nat \ {0}
  /\ MaxTime \in Nat /\ MaxRounds \in Nat
  /\ MaxPool \in Nat /\ MaxFaults \in Nat
  /\ IsFiniteSet(Sources) /\ Faulty \in Sources
  /\ Vms \subseteq {"evm", "svm"}
  /\ Honest \cup Wild \subseteq Nat
  /\ Precision \in Nat \ {0}
  /\ MinSources \in Nat \ {0}
  /\ SubmitBefore \in Nat
  /\ Durations \subseteq Nat

VARIABLES
  active, activatedAt, version, now, nextRoundId, feeds, rounds, roundValues,
  submitted, nonces, roundDuration, quorumBps, minQuorumNodes, paused,
  snapshot        \* the chain: OracleRounds

VARIABLES
  vm,             \* the chain adapter
  step,           \* where the daemon is in Step
  ticked,         \* the ticker's channel, which holds one tick
  view,           \* RoundView
  price,          \* the price fetched, with what the honest sources said
  nonce,          \* the submission nonce read for the signature
  pool,           \* sent transactions, not yet executed
  mined,          \* the account's transactions executed so far
  awaited,        \* the transaction the Solana adapter waits for
  landed,         \* that transaction was executed
  openedAt,       \* history: when a round opened
  excused,        \* history: the live round met an obstacle that is not the
                  \* daemon's
  faults          \* obstacles so far

chain == <<active, activatedAt, version, now, nextRoundId, feeds, rounds,
           roundValues, submitted, nonces, roundDuration, quorumBps,
           minQuorumNodes, paused, snapshot>>
work == <<step, view, price, nonce>>
sent == <<pool, mined, awaited, landed>>
vars == <<chain, vm, work, ticked, sent, openedAt, excused, faults>>

Rounds == INSTANCE OracleRounds

RoundIds == 1..MaxRounds
Live == {r \in RoundIds : Rounds!IsLive(rounds[r].state)}

NoView == [round |-> 0, deadline |-> 0, version |-> 0]
NoPrice == [value |-> 0, honest |-> {}, at |-> 0]
NoTx == [account |-> 0, round |-> 0, value |-> 0, nonce |-> 0, sentAt |-> 0,
         fetchedAt |-> 0]

-----------------------------------------------------------------------------
(* Fetcher.  A report with more digits than the feed has is truncated.     *)

ParseScaled(report) == report \div Precision

(* One request: the reports a source may answer with. *)
Fetch(s) ==
  {ParseScaled(q) : q \in Honest \cup (IF s = Faulty THEN Wild ELSE {})}

NoAnswer == 0

(* What a source's retries may come to: a price, and nothing when every    *)
(* attempt failed or reported zero, or time ran out.                       *)
FetchWithBackoff(s) == (Fetch(s) \ {0}) \cup {NoAnswer}

Answered(result) == {s \in Sources : result[s] # NoAnswer}

MutantTooFewSources(result) ==
  Cardinality(Answered(result)) + 1 < MinSources

TooFewSources(result) == Cardinality(Answered(result)) < MinSources

(* The median of the values, in some order of arrival. *)
Price(result) ==
  Rounds!ServiceMedian(
    FoldSet(LAMBDA s, seq : Append(seq, result[s]), <<>>, Answered(result)))

-----------------------------------------------------------------------------
(* Node.Step, one action per call to the chain or to the sources. *)

(* Run takes a tick, or the first step of the process. *)
Poll ==
  /\ step = "idle"
  /\ ticked
  /\ ticked' = FALSE
  /\ step' = "polling"
  /\ UNCHANGED <<chain, vm, view, price, nonce, sent, openedAt, excused,
                 faults>>

(* Step returns, with or without an error, which Run only logs. *)
Return ==
  /\ step' = "idle"
  /\ view' = NoView
  /\ price' = NoPrice
  /\ nonce' = 0

ReadCurrentRound ==
  LET id == feeds[MyFeed].currentRoundId
  IN /\ step = "polling"
     /\ \/ id = 0 /\ Return
        \/ /\ id # 0
           /\ step' = "round"
           /\ view' = [NoView EXCEPT !.round = id]
           /\ UNCHANGED <<price, nonce>>
     /\ UNCHANGED <<chain, vm, ticked, sent, openedAt, excused, faults>>

Open(state) == state \in {"OPEN", "QUORUM_MET"}

ReadRound ==
  LET round == rounds[view.round]
  IN /\ step = "round"
     /\ \/ ~Open(round.state) /\ Return
        \/ /\ Open(round.state)
           /\ step' = "standing"
           /\ view' = [view EXCEPT !.deadline = round.deadline,
                                   !.version = round.nodeSetVersion]
           /\ UNCHANGED <<price, nonce>>
     /\ UNCHANGED <<chain, vm, ticked, sent, openedAt, excused, faults>>

(* isEligibleAt, asked of the registry. *)
EligibleOnEvm(v) == Self \in Rounds!Registry!EligibleAt(v)

(* The node's own account, judged by the adapter. *)
EligibleOnSolana(v) == Self \in active /\ activatedAt[Self] <= v

Eligible(v) ==
  \/ vm = "evm" /\ EligibleOnEvm(v)
  \/ vm = "svm" /\ EligibleOnSolana(v)

TooLate(deadline) == deadline - now <= SubmitBefore

ReadStanding ==
  LET skip == \/ Self \in submitted[view.round]
              \/ ~Eligible(view.version)
              \/ TooLate(view.deadline)
  IN /\ step = "standing"
     /\ \/ skip /\ Return
        \/ /\ ~skip
           /\ step' = "fetching"
           /\ UNCHANGED <<view, price, nonce>>
     /\ UNCHANGED <<chain, vm, ticked, sent, openedAt, excused, faults>>

(* The sources answer, or the time set aside for them runs out: see Tick.  *)
FetchPrice ==
  /\ step = "fetching"
  /\ \E result \in [Sources -> UNION {FetchWithBackoff(s) : s \in Sources}] :
       /\ \A s \in Sources : result[s] \in FetchWithBackoff(s)
       /\ \/ /\ TooFewSources(result)
             /\ Return
             /\ excused' = (excused \/ view.round \in Live)
          \/ /\ ~TooFewSources(result)
             /\ step' = "priced"
             /\ price' = [value |-> Price(result),
                          honest |-> {result[s] :
                                      s \in Answered(result) \ {Faulty}},
                          at |-> now]
             /\ UNCHANGED <<view, nonce, excused>>
  /\ UNCHANGED <<chain, vm, ticked, sent, openedAt, faults>>

ReadNonce ==
  /\ step = "priced"
  /\ step' = "signed"
  /\ nonce' = nonces[Self]
  /\ UNCHANGED <<chain, vm, view, price, ticked, sent, openedAt, excused,
                 faults>>

(* What eth_call and simulateTransaction answer: would submit succeed now? *)
Accepts(r, k) ==
  /\ ~paused
  /\ Rounds!IsLive(rounds[r].state)
  /\ now <= rounds[r].deadline
  /\ Self \in Rounds!Registry!EligibleAt(rounds[r].nodeSetVersion)
  /\ Self \notin submitted[r]
  /\ Len(roundValues[r]) < MaxSubmissions
  /\ k = nonces[Self]

(* PendingNonceAt: the first number no pending transaction holds. *)
PendingNonce == CHOOSE a \in mined..(mined + MaxPool) :
  /\ a \notin {tx.account : tx \in pool}
  /\ \A b \in mined..(a - 1) : b \in {tx.account : tx \in pool}

(* The submission goes to whatever round is current by now. *)
MutantTarget == feeds[MyFeed].currentRoundId

(* The submission goes to the round the price was fetched for. *)
Target == view.round

Transaction(account) ==
  [account |-> account, round |-> Target, value |-> price.value,
   nonce |-> nonce, sentAt |-> now, fetchedAt |-> price.at]

(* The adapter waits for a receipt. *)
MutantSendOnEvm ==
  /\ pool' = pool \cup {Transaction(PendingNonce)}
  /\ awaited' = Transaction(PendingNonce)
  /\ landed' = FALSE
  /\ step' = "waiting"
  /\ UNCHANGED <<view, price, nonce>>

(* The Arbitrum adapter returns as soon as the transaction is sent. *)
SendOnEvm ==
  /\ pool' = pool \cup {Transaction(PendingNonce)}
  /\ Return
  /\ UNCHANGED <<awaited, landed>>

(* Client.Send on Solana also waits for the transaction to be confirmed.   *)
SendOnSolana ==
  /\ pool' = pool \cup {Transaction(0)}
  /\ awaited' = Transaction(0)
  /\ landed' = FALSE
  /\ step' = "waiting"
  /\ UNCHANGED <<view, price, nonce>>

Submit ==
  /\ step = "signed"
  /\ \/ /\ ~Accepts(Target, nonce)
        /\ Return
        /\ UNCHANGED <<sent, excused>>
     \/ /\ Accepts(Target, nonce)
        /\ Cardinality(pool) < MaxPool
        /\ \/ vm = "evm" /\ SendOnEvm
           \/ vm = "svm" /\ SendOnSolana
        /\ UNCHANGED <<mined, excused>>
     \/ /\ Accepts(Target, nonce)
        /\ Cardinality(pool) = MaxPool     \* bound: the endpoint refuses it
        /\ Return
        /\ excused' = TRUE
        /\ UNCHANGED sent
  /\ UNCHANGED <<chain, vm, ticked, openedAt, faults>>

(* waitFor asks until the signature is known: neither it nor the context,  *)
(* which is the process's, ends on a transaction that never lands.         *)
WaitFor ==
  /\ step = "waiting"
  /\ landed
  /\ Return
  /\ awaited' = NoTx
  /\ landed' = FALSE
  /\ UNCHANGED <<chain, vm, ticked, pool, mined, openedAt, excused, faults>>

-----------------------------------------------------------------------------
(* What happens around the daemon. *)

(* A transaction executes, or reverts: in the order of the account's       *)
(* numbers on Arbitrum, in any order on Solana.                            *)
Mine(tx) ==
  /\ tx \in pool
  /\ vm = "evm" => tx.account = mined
  /\ \/ Rounds!Submit(Self, tx.round, tx.value, tx.nonce)
     \/ ~Accepts(tx.round, tx.nonce) /\ UNCHANGED chain
  /\ pool' = pool \ {tx}
  /\ mined' = IF vm = "evm" THEN mined + 1 ELSE mined
  /\ landed' = (landed \/ tx = awaited)
  /\ UNCHANGED <<vm, work, ticked, awaited, openedAt, excused, faults>>

MineTransaction == \E tx \in pool : Mine(tx)

Fault ==
  /\ faults < MaxFaults
  /\ faults' = faults + 1
  /\ excused' = TRUE
  /\ UNCHANGED <<chain, vm, openedAt>>

(* A sent transaction never lands: evicted, or its blockhash expired.      *)
DropTransaction ==
  /\ Fault
  /\ \E tx \in pool : pool' = pool \ {tx}
  /\ UNCHANGED <<work, ticked, mined, awaited, landed>>

(* The failed wait is not forgotten. *)
MutantCallFails ==
  /\ Fault
  /\ step \notin {"idle", "fetching"}
  /\ Return
  /\ UNCHANGED <<ticked, sent>>

(* A call to the chain fails; the sources' failures are FetchPrice's.      *)
CallFails ==
  /\ Fault
  /\ step \notin {"idle", "fetching"}
  /\ Return
  /\ awaited' = NoTx
  /\ landed' = FALSE
  /\ UNCHANGED <<ticked, pool, mined>>

(* The process dies and starts again with a step at once. *)
Crash ==
  /\ Fault
  /\ Return
  /\ ticked' = TRUE
  /\ awaited' = NoTx
  /\ landed' = FALSE
  /\ UNCHANGED <<pool, mined>>

daemon == <<vm, work, ticked, sent, faults>>

OpenRound ==
  /\ Rounds!OpenRound(MyFeed)
  /\ openedAt' = [openedAt EXCEPT ![nextRoundId] = now]
  /\ excused' = FALSE
  /\ UNCHANGED daemon

OthersAct ==
  /\ \/ \E n \in Nodes \ {Self}, r \in RoundIds, v \in Values :
          Rounds!Submit(n, r, v, nonces[n])
     \/ \E r \in RoundIds : Rounds!SettleRound(r)
     \/ Rounds!Unpause
     \/ Self \notin active /\ Rounds!RegistryStep /\ Self \in active'
  /\ UNCHANGED <<daemon, openedAt, excused>>

(* A pause, or losing its place in the set, keeps the node out of a round. *)
Disrupted ==
  /\ faults < MaxFaults
  /\ faults' = faults + 1
  /\ \/ Rounds!Pause
     \/ Self \in active /\ Rounds!RegistryStep /\ Self \notin active'
  /\ excused' = TRUE
  /\ UNCHANGED <<vm, work, ticked, sent, openedAt>>

(* Transactions the chain may take now. *)
Minable == {tx \in pool : vm = "evm" => tx.account = mined}

(* Pending longer than the headroom allows for. *)
Overdue == {tx \in pool : now - tx.sentAt >= SubmitBefore}

(* Time goes by where the daemon's own steps or the chain take longer than *)
(* they should: one of the obstacles the bound counts.                     *)
Slow ==
  \/ step \notin {"idle", "fetching", "waiting"}
  \/ step = "idle" /\ ticked
  \/ step = "waiting" /\ landed
  \/ Overdue \cap Minable # {}

(* Time goes by while the daemon is busy with something else: the sources, *)
(* asked for a round that has closed meanwhile, or a transaction that is   *)
(* overdue or lost.                                                        *)
Busy ==
  \/ step = "fetching" /\ view.round \notin Live
  \/ step = "waiting" /\ awaited \notin pool \ Overdue

(* The time of the sources is not limited. *)
MutantOutOfTime == FALSE

(* The sources have until SubmitBefore ahead of the deadline. *)
OutOfTime == step = "fetching" /\ now >= view.deadline - SubmitBefore

(* The clock, and the ticker with it.  A transaction still pending when    *)
(* the headroom is used up met what the headroom cannot help.              *)
Tick ==
  /\ ~OutOfTime
  /\ Rounds!Tick
  /\ ticked' = TRUE
  /\ \/ ~Slow /\ UNCHANGED faults
     \/ Slow /\ faults < MaxFaults /\ faults' = faults + 1
  /\ excused' = (excused \/ Slow \/ Busy
                   \/ \E tx \in Overdue : tx.round \in Live)
  /\ UNCHANGED <<vm, work, sent, openedAt>>

-----------------------------------------------------------------------------
(* The process starts beside a registry its node is already a member of:   *)
(* every node joined, in some order, and the feed is registered.           *)
Init ==
  /\ version = Cardinality(Nodes)
  /\ active = Nodes
  /\ activatedAt = CHOOSE f \in [Nodes -> 1..version] :
                     \A n, m \in Nodes : f[n] = f[m] => n = m
  /\ now = 0
  /\ nextRoundId = 1
  /\ feeds = [f \in Feeds |-> [registered |-> TRUE, currentRoundId |-> 0,
                               lastSettledRoundId |-> 0]]
  /\ rounds = [r \in RoundIds |-> Rounds!NoRound]
  /\ roundValues = [r \in RoundIds |-> <<>>]
  /\ submitted = [r \in RoundIds |-> {}]
  /\ nonces = [n \in Nodes |-> 0]
  /\ roundDuration \in Durations
  /\ quorumBps \in QuorumLevels
  /\ minQuorumNodes \in QuorumCounts
  /\ paused = FALSE
  /\ snapshot = [r \in RoundIds |-> {}]
  /\ vm \in Vms
  /\ step = "idle"
  /\ ticked = TRUE
  /\ view = NoView
  /\ price = NoPrice
  /\ nonce = 0
  /\ pool = {}
  /\ mined = 0
  /\ awaited = NoTx
  /\ landed = FALSE
  /\ openedAt = [r \in RoundIds |-> 0]
  /\ excused = FALSE
  /\ faults = 0

Next ==
  \/ Poll \/ ReadCurrentRound \/ ReadRound \/ ReadStanding
  \/ FetchPrice \/ ReadNonce \/ Submit \/ WaitFor
  \/ MineTransaction \/ DropTransaction \/ CallFails \/ Crash
  \/ OpenRound \/ OthersAct \/ Disrupted \/ Tick

(* The daemon's steps are taken, the sources answer or run out of time,    *)
(* and the chain takes what was sent unless it loses it.                   *)
Fairness ==
  /\ WF_vars(Poll) /\ WF_vars(ReadCurrentRound) /\ WF_vars(ReadRound)
  /\ WF_vars(ReadStanding) /\ WF_vars(FetchPrice) /\ WF_vars(ReadNonce)
  /\ WF_vars(Submit) /\ WF_vars(WaitFor)
  /\ WF_vars(MineTransaction)
  /\ WF_vars(Tick)

Spec == Init /\ [][Next]_vars /\ Fairness

-----------------------------------------------------------------------------
(* Properties. *)

Tx == [account : 0..(mined + MaxPool), round : 0..MaxRounds, value : Nat,
       nonce : 0..MaxRounds, sentAt : 0..MaxTime, fetchedAt : 0..MaxTime]

TypeOK ==
  /\ Rounds!Registry!TypeOK
  /\ step \in {"idle", "polling", "round", "standing", "fetching", "priced",
               "signed", "waiting"}
  /\ ticked \in BOOLEAN
  /\ view \in [round : 0..MaxRounds, deadline : 0..MaxTime,
               version : 0..MaxVersion]
  /\ nonce \in 0..MaxRounds
  /\ pool \subseteq Tx
  /\ awaited \in Tx
  /\ step = "waiting" <=> awaited # NoTx
  /\ landed => awaited # NoTx
  /\ excused \in BOOLEAN
  /\ faults \in 0..MaxFaults

(* One source that reports anything, of the honest sources any that fails: *)
(* the price the node signs lies between two honest reports of the fetch   *)
(* it comes from.                                                          *)
OneSourceCannotMovePrice ==
  price # NoPrice =>
    \E low, high \in price.honest : low <= price.value /\ price.value <= high

(* A price sent to a round was fetched while that round was running and    *)
(* before its headroom, however long the fetch took and whatever round     *)
(* came after: no round gets a price of an earlier one.                    *)
PriceIsOfItsRound ==
  \A tx \in pool :
    /\ openedAt[tx.round] <= tx.fetchedAt
    /\ tx.fetchedAt <= rounds[tx.round].deadline - SubmitBefore

(* A poll fits the round ahead of the headroom, and so does what the       *)
(* Solana adapter may still wait for when it opens.  The duration is the   *)
(* contract's and the headroom the daemon's: no code compares the two.     *)
LongEnough(r) ==
  LET length == rounds[r].deadline - openedAt[r]
  IN /\ length > SubmitBefore + 1
     /\ vm = "svm" => length > 2 * SubmitBefore

(* When the last round has run its full time without meeting an obstacle   *)
(* that is not the daemon's, was long enough for it, and its snapshot      *)
(* holds the node, it has the node's submission: polls, fetches, headroom  *)
(* and wait leave no gap for such a round to fall into.                    *)
HeardUnlessExcused ==
  LET r == nextRoundId - 1
  IN /\ r # 0 /\ Self \in snapshot[r] /\ LongEnough(r)
     /\ now > rounds[r].deadline
     /\ r \in Live \/ rounds[r].settledAt > rounds[r].deadline
     /\ ~excused
     => Self \in submitted[r]

(* The loop always gets back to its ticker. *)
AnotherChance == []<>(step = "idle")

(* On Arbitrum it does so whatever becomes of a transaction. *)
NodeComesBack == (vm = "evm") => AnotherChance
=============================================================================
