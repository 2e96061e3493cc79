--------------------------- MODULE SlashPipeline ---------------------------
(***************************************************************************)
(* From a slash decision to the chain and back: the rows of                *)
(* oracle_slashings, the executor that sends them (backend/internal/       *)
(* oracle/executor.go over chain/evm/slasher.go or chain/svm/slasher.go    *)
(* and db/oracle_execution.go), the guard of `slash` on chain, and the     *)
(* indexer that writes what the chain confirmed back into the same rows    *)
(* (indexer/indexer.go, db/oracle.go).  A SQL statement or transaction is  *)
(* one action, an RPC call is one action, and a process may stop between   *)
(* any two.  The two chains differ in the answer to a transaction that was *)
(* sent: the EVM client returns at once, Solana's waits until it landed.   *)
(***************************************************************************)
EXTENDS Integers, FiniteSets, Sequences

CONSTANTS
  Chains,           \* the chains to look at: "evm", "svm"
  Nodes,            \* node operator addresses
  Rounds,           \* ids of finished rounds
  Workers,          \* executor processes
  Penalty,          \* basis points of each reason the service decides on
  InitialStake,     \* stake on chain when the service starts
  Restakes,         \* stakes an operator may move to
  ManualAmounts,    \* amounts slashed by hand, outside the service
  MaxSlashBps,      \* _maxSlashBps of the contract
  MaxAttempts,      \* ExecutorOptions.MaxAttempts
  MaxFaults,        \* bound on crashes, failed calls and lost answers
  MaxLog            \* bound on the events before others stop acting

BPS == 10000
Manual == "MANUAL"  \* the reason of a slash the service did not decide
Reasons == DOMAIN Penalty

ASSUME PipelineAssumption ==
  /\ Chains \subseteq {"evm", "svm"}
  /\ IsFiniteSet(Nodes)
  /\ Penalty \in [Reasons -> 1..BPS]
  /\ Manual \notin Reasons
  /\ InitialStake \in Nat
  /\ Restakes \subseteq Nat
  /\ ManualAmounts \subseteq Nat \ {0}
  /\ MaxSlashBps \in 1..BPS
  /\ MaxAttempts \in Nat \ {0}
  /\ MaxFaults \in Nat
  /\ MaxLog \in Nat

VARIABLES
  kind,             \* the chain this is: one of Chains
  stake,            \* chain: stake of each node
  slashedInRound,   \* chain: the guard, as the set of flagged <<node, round>>
  log,              \* chain: confirmed NodeSlashed and stake events, in order
  mempool,          \* chain: transactions sent and not yet mined
  reverted,         \* chain: transactions that landed and failed
  rows,             \* db: oracle_slashings, one row per node and round at most
  dbStake,          \* db: oracle_nodes.staked_amount
  dbSlashedTotal,   \* db: oracle_nodes.slashed_total
  lastBlock,           \* db: last block committed; one event per block here
  done,             \* indexer: events of the current batch handled so far
  claimed,          \* executor: what the current batch still holds
  answer,           \* executor: the call made and not yet written down
  faults

chain    == <<kind, stake, slashedInRound, log>>
sent     == <<mempool, reverted>>
indexed  == <<dbStake, dbSlashedTotal, lastBlock, done>>
executor == <<claimed, answer>>
vars == <<chain, sent, rows, indexed, executor, faults>>

Keys == Nodes \X Rounds

(* A transaction, by who sent it and at which attempt. *)
NoTx == <<"none", 0>>
ManualTx == <<Manual, 0>>
TxOf(w, p) == <<w, p.attempts>>

NoRow == [reason |-> "none", amount |-> 0, attempts |-> 0, tx |-> NoTx,
          submitted |-> FALSE, executed |-> FALSE, abandoned |-> FALSE]

NewRow(reason, amount) == [NoRow EXCEPT !.reason = reason, !.amount = amount]

Present(k) == rows[k] # NoRow

Claimable(k) ==
  /\ Present(k)
  /\ ~rows[k].executed
  /\ ~rows[k].submitted
  /\ ~rows[k].abandoned
  /\ rows[k].attempts < MaxAttempts

(* An answer still to be written: what was asked, and what came back.      *)
NoAnswer == [result |-> "none"]

SlashEvent(k, amount, remaining, tx) ==
  [kind |-> "slashed", key |-> k, amount |-> amount, stake |-> remaining,
   tx |-> tx]

StakeEvent(n, remaining) ==
  [kind |-> "stake", node |-> n, stake |-> remaining]

NodeOf(e) == IF e.kind = "slashed" THEN e.key[1] ELSE e.node

-----------------------------------------------------------------------------
(* The chain.  Operators named Mutant... are variants with a bug the code  *)
(* could have had; each is refuted by a property, none is part of Next.    *)

Cap(n) == (stake[n] * MaxSlashBps) \div BPS

MutantRefused(k) == FALSE

(* AlreadySlashedForRound *)
Refused(k) == k \in slashedInRound

(* SlashExceedsCap *)
ExceedsCap(k, amount) == amount > Cap(k[1])

Slash(k, amount, tx) ==
  /\ ~Refused(k)
  /\ ~ExceedsCap(k, amount)
  /\ slashedInRound' = slashedInRound \cup {k}
  /\ stake' = [stake EXCEPT ![k[1]] = @ - amount]
  /\ UNCHANGED kind
  /\ log' = Append(log, SlashEvent(k, amount, stake[k[1]] - amount, tx))

(* A reverted transaction leaves no event behind. *)
Mine(tx) ==
  /\ mempool' = mempool \ {tx}
  /\ \/ Slash(tx.key, tx.amount, tx.id) /\ UNCHANGED reverted
     \/ /\ Refused(tx.key) \/ ExceedsCap(tx.key, tx.amount)
        /\ reverted' = reverted \cup {tx.id}
        /\ UNCHANGED chain
  /\ UNCHANGED <<rows, indexed, executor, faults>>

DropTransaction(tx) ==
  /\ faults < MaxFaults
  /\ faults' = faults + 1
  /\ mempool' = mempool \ {tx}
  /\ UNCHANGED <<chain, reverted, rows, indexed, executor>>

ManualSlash(k, amount) ==
  /\ Len(log) < MaxLog
  /\ Slash(k, amount, ManualTx)
  /\ UNCHANGED <<sent, rows, indexed, executor, faults>>

(* stake and completeUnstake, as far as the services see them. *)
Restake(n, value) ==
  /\ Len(log) < MaxLog
  /\ value # stake[n]
  /\ stake' = [stake EXCEPT ![n] = value]
  /\ log' = Append(log, StakeEvent(n, value))
  /\ UNCHANGED <<kind, slashedInRound, sent, rows, indexed, executor, faults>>

-----------------------------------------------------------------------------
(* decide and RecordSlashDecision: a penalty on the stake as indexed now.  *)
(* A row for the node and round, whatever its reason, keeps the insert out:*)
(* the same reason by the NOT EXISTS, another one by the unique index.     *)
Decide(k, reason) ==
  LET amount == (dbStake[k[1]] * Penalty[reason]) \div BPS
  IN /\ amount # 0
     /\ ~Present(k)
     /\ rows' = [rows EXCEPT ![k] = NewRow(reason, amount)]
     /\ UNCHANGED <<chain, sent, indexed, executor, faults>>

-----------------------------------------------------------------------------
(* Executor.Step, one worker. *)

(* The count is handed on as it stands after the increment. *)
MutantPending(k) ==
  [key |-> k, amount |-> rows[k].amount, attempts |-> rows[k].attempts + 1]

(* What a claim returns: the attempts made before this one. *)
Pending(k) ==
  [key |-> k, amount |-> rows[k].amount, attempts |-> rows[k].attempts]

(* The attempt is counted when it fails, not when it starts. *)
MutantClaim(w) ==
  /\ claimed[w] = {}
  /\ answer[w] = NoAnswer
  /\ \E k \in Keys : Claimable(k)
  /\ claimed' = [claimed EXCEPT ![w] =
                    {Pending(k) : k \in {x \in Keys : Claimable(x)}}]
  /\ UNCHANGED <<chain, sent, rows, indexed, answer, faults>>

(* The batch limit, 10, is above the number of rows here. *)
Claim(w) ==
  LET batch == {k \in Keys : Claimable(k)}
  IN /\ claimed[w] = {}
     /\ answer[w] = NoAnswer
     /\ batch # {}
     /\ claimed' = [claimed EXCEPT ![w] = {Pending(k) : k \in batch}]
     /\ rows' = [k \in Keys |->
          IF k \in batch THEN [rows[k] EXCEPT !.attempts = @ + 1]
          ELSE rows[k]]
     /\ UNCHANGED <<chain, sent, indexed, answer, faults>>

Answer(w, p, result) ==
  /\ answer[w] = NoAnswer
  /\ claimed' = [claimed EXCEPT ![w] = @ \ {p}]
  /\ answer' = [answer EXCEPT ![w] = [result |-> result, pending |-> p]]

Transaction(w, p) ==
  [key |-> p.key, amount |-> p.amount, id |-> TxOf(w, p)]

(* A transaction that left: the client answers, or polls for its status.   *)
Sent == IF kind = "evm" THEN "sent" ELSE "waiting"

(* Slasher.Slash: simulate, then send.  The simulation reads the chain as  *)
(* it is now, the transaction executes on the chain as it will be.         *)
Submit(w, p) ==
  /\ \/ /\ Refused(p.key)
        /\ Answer(w, p, "already slashed")
        /\ UNCHANGED mempool
     \/ /\ ~Refused(p.key) /\ ExceedsCap(p.key, p.amount)
        /\ Answer(w, p, "error")
        /\ UNCHANGED mempool
     \/ /\ ~Refused(p.key) /\ ~ExceedsCap(p.key, p.amount)
        /\ Answer(w, p, Sent)
        /\ mempool' = mempool \cup {Transaction(w, p)}
  /\ UNCHANGED <<chain, reverted, rows, indexed, faults>>

(* The call fails: before the transaction left, or after, when only its    *)
(* answer was lost.                                                        *)
SubmitFails(w, p) ==
  /\ faults < MaxFaults
  /\ faults' = faults + 1
  /\ Answer(w, p, "error")
  /\ \/ UNCHANGED mempool
     \/ /\ ~Refused(p.key) /\ ~ExceedsCap(p.key, p.amount)
        /\ mempool' = mempool \cup {Transaction(w, p)}
  /\ UNCHANGED <<chain, reverted, rows, indexed>>

Waiting(w) == answer[w].result = "waiting"

Landed(id) ==
  \/ id \in reverted
  \/ \E i \in 1..Len(log) : log[i].kind = "slashed" /\ log[i].tx = id

Learn(w, result) ==
  /\ Waiting(w)
  /\ answer' = [answer EXCEPT ![w].result = result]
  /\ UNCHANGED <<chain, sent, rows, indexed, claimed>>

(* waitFor: there is no status before the transaction landed, and none     *)
(* ever for one that never will.                                           *)
SeeStatus(w) ==
  LET id == TxOf(w, answer[w].pending)
  IN /\ Learn(w, IF id \in reverted THEN "error" ELSE "sent")
     /\ Landed(id)
     /\ UNCHANGED faults

WaitFails(w) ==
  /\ faults < MaxFaults
  /\ faults' = faults + 1
  /\ Learn(w, "error")

(* What the answer does to the row.  The updates are guarded on their own  *)
(* column only, so they also land on a row the indexer closed meanwhile.   *)
Marked(row, result, attempts, tx) ==
  CASE result = "sent" ->
         IF row.submitted THEN row
         ELSE [row EXCEPT !.submitted = TRUE, !.tx = tx]
    [] result = "already slashed" -> [row EXCEPT !.abandoned = TRUE]
    [] result = "error" ->
         [row EXCEPT !.abandoned = @ \/ attempts + 1 >= MaxAttempts]

Mark(w) ==
  LET p == answer[w].pending
  IN /\ answer[w] # NoAnswer /\ ~Waiting(w)
     /\ rows' = [rows EXCEPT ![p.key] =
                   Marked(@, answer[w].result, p.attempts, TxOf(w, p))]
     /\ answer' = [answer EXCEPT ![w] = NoAnswer]
     /\ UNCHANGED <<chain, sent, indexed, claimed, faults>>

(* The update fails: the row stays as it is, the batch goes on. *)
MarkFails(w) ==
  /\ faults < MaxFaults
  /\ faults' = faults + 1
  /\ answer[w] # NoAnswer /\ ~Waiting(w)
  /\ answer' = [answer EXCEPT ![w] = NoAnswer]
  /\ UNCHANGED <<chain, sent, rows, indexed, claimed>>

WorkerCrash(w) ==
  /\ faults < MaxFaults
  /\ faults' = faults + 1
  /\ claimed[w] # {} \/ answer[w] # NoAnswer
  /\ claimed' = [claimed EXCEPT ![w] = {}]
  /\ answer' = [answer EXCEPT ![w] = NoAnswer]
  /\ UNCHANGED <<chain, sent, rows, indexed>>

-----------------------------------------------------------------------------
(* Indexer.Step: handle the events after the cursor, then move the cursor. *)

(* A slash nobody decided is taken for noise. *)
MutantReconciled(e) ==
  IF Present(e.key)
  THEN [rows EXCEPT ![e.key].executed = TRUE, ![e.key].amount = e.amount,
                    ![e.key].tx = e.tx]
  ELSE rows

(* RecordOracleSlash: the decision's row if it is open, else a row of its  *)
(* own, else nothing.  The decided reason stays, the amount is the event's.*)
Reconciled(e) ==
  LET row == IF Present(e.key) THEN rows[e.key] ELSE NewRow(Manual, e.amount)
  IN IF row.executed THEN rows
     ELSE [rows EXCEPT ![e.key] = [row EXCEPT !.executed = TRUE, !.tx = e.tx,
                                              !.amount = e.amount]]

(* The insert of an event that was recorded before is taken for a replay   *)
(* by its transaction; if the row names another one, it runs into the      *)
(* index of one row per node and round.                                    *)
Collides(e) ==
  /\ e.kind = "slashed"
  /\ rows[e.key].executed
  /\ rows[e.key].tx # e.tx

StakeAfter(e) == e.stake

IndexEvent ==
  LET e == log[lastBlock + done + 1]
      n == NodeOf(e)
  IN /\ lastBlock + done < Len(log)
     /\ ~Collides(e)
     /\ done' = done + 1
     /\ dbStake' = [dbStake EXCEPT ![n] = StakeAfter(e)]
     /\ \/ /\ e.kind = "slashed"
           /\ rows' = Reconciled(e)
           /\ dbSlashedTotal' = [dbSlashedTotal EXCEPT ![n] = @ + e.amount]
        \/ /\ e.kind = "stake"
           /\ UNCHANGED <<rows, dbSlashedTotal>>
     /\ UNCHANGED <<chain, sent, lastBlock, executor, faults>>

(* The error ends the batch, which is handled again from its start. *)
IndexFails ==
  /\ lastBlock + done < Len(log)
  /\ Collides(log[lastBlock + done + 1])
  /\ done > 0
  /\ done' = 0
  /\ UNCHANGED <<chain, sent, rows, dbStake, dbSlashedTotal, lastBlock,
                 executor, faults>>

CommitCursor ==
  /\ done > 0
  /\ lastBlock' = lastBlock + done
  /\ done' = 0
  /\ UNCHANGED <<chain, sent, rows, dbStake, dbSlashedTotal, executor,
                 faults>>

(* The process, or one handler, fails: the batch is handled again. *)
IndexerCrash ==
  /\ faults < MaxFaults
  /\ faults' = faults + 1
  /\ done > 0
  /\ done' = 0
  /\ UNCHANGED <<chain, sent, rows, dbStake, dbSlashedTotal, lastBlock,
                 executor>>

-----------------------------------------------------------------------------
Init ==
  /\ kind \in Chains
  /\ stake = [n \in Nodes |-> InitialStake]
  /\ slashedInRound = {}
  /\ log = <<>>
  /\ mempool = {}
  /\ reverted = {}
  /\ rows = [k \in Keys |-> NoRow]
  /\ dbStake = [n \in Nodes |-> InitialStake]
  /\ dbSlashedTotal = [n \in Nodes |-> 0]
  /\ lastBlock = 0
  /\ done = 0
  /\ claimed = [w \in Workers |-> {}]
  /\ answer = [w \in Workers |-> NoAnswer]
  /\ faults = 0

WorkerStep(w) ==
  \/ Claim(w)
  \/ \E p \in claimed[w] : Submit(w, p)
  \/ SeeStatus(w)
  \/ Mark(w)

WorkerFault(w) ==
  \/ \E p \in claimed[w] : SubmitFails(w, p)
  \/ WaitFails(w)
  \/ MarkFails(w)
  \/ WorkerCrash(w)

Next ==
  \/ \E k \in Keys, reason \in Reasons : Decide(k, reason)
  \/ \E k \in Keys, a \in ManualAmounts : ManualSlash(k, a)
  \/ \E n \in Nodes, s \in Restakes : Restake(n, s)
  \/ \E tx \in mempool : Mine(tx) \/ DropTransaction(tx)
  \/ \E w \in Workers : WorkerStep(w) \/ WorkerFault(w)
  \/ IndexEvent
  \/ IndexFails
  \/ CommitCursor
  \/ IndexerCrash

Spec == Init /\ [][Next]_vars

Settle == \E tx \in mempool : Mine(tx) \/ DropTransaction(tx)

(* The executor's loop and the indexer's run for ever; a transaction that  *)
(* was sent lands or is lost in the end.                                   *)
Fairness ==
  /\ WF_vars(Settle)
  /\ \A w \in Workers : WF_vars(WorkerStep(w))
  /\ WF_vars(IndexEvent \/ IndexFails \/ CommitCursor)

FairSpec == Spec /\ Fairness

-----------------------------------------------------------------------------
(* Properties. *)

Row == [reason : Reasons \cup {Manual, "none"}, amount : Nat,
        tx : {NoTx, ManualTx} \cup (Workers \X (0..MaxAttempts - 1)),
        attempts : 0..MaxAttempts, submitted : BOOLEAN, executed : BOOLEAN,
        abandoned : BOOLEAN]

PendingSlash == [key : Keys, amount : Nat, attempts : 0..MaxAttempts - 1]

TypeOK ==
  /\ kind \in Chains
  /\ stake \in [Nodes -> Nat]
  /\ slashedInRound \subseteq Keys
  /\ Len(log) <= MaxLog + Cardinality(slashedInRound)
  /\ reverted \subseteq Workers \X (0..MaxAttempts - 1)
  /\ rows \in [Keys -> Row]
  /\ dbStake \in [Nodes -> Nat]
  /\ dbSlashedTotal \in [Nodes -> Nat]
  /\ lastBlock + done \in 0..Len(log)
  /\ claimed \in [Workers -> SUBSET PendingSlash]
  /\ \A w \in Workers : answer[w] # NoAnswer =>
       answer[w].pending \in PendingSlash
  /\ faults \in 0..MaxFaults

Slashes == {i \in 1..Len(log) : log[i].kind = "slashed"}

(* However often a decision is sent, by one worker or two, with answers    *)
(* lost and slashes made by hand, a node loses stake once for a round.     *)
OnePenaltyPerRound ==
  \A i, j \in Slashes : log[i].key = log[j].key => i = j

(* The audit trail is what the chain confirmed: every slash the indexer    *)
(* has been over, also twice, is one executed row with the amount that     *)
(* moved, and no row is executed without a slash.                          *)
AuditMatchesChain ==
  /\ \A i \in Slashes : i <= lastBlock + done =>
       LET row == rows[log[i].key]
       IN row.executed /\ row.amount = log[i].amount
  /\ \A k \in Keys : rows[k].executed => \E i \in Slashes : log[i].key = k

(* A decision is given up only when its attempts are used up or the node   *)
(* has paid for the round.                                                 *)
AbandonedForCause ==
  \A k \in Keys : rows[k].abandoned =>
    rows[k].attempts = MaxAttempts \/ k \in slashedInRound

(* The transaction is gone and the worker waits for its status.            *)
Hangs(w) ==
  LET id == TxOf(w, answer[w].pending)
  IN /\ Waiting(w)
     /\ ~Landed(id)
     /\ \A tx \in mempool : tx.id # id

(* No decision is retried for ever and none is left lying: it leaves the   *)
(* queue, by being sent, executed or given up, or by using its attempts    *)
(* up, unless every executor waits for a transaction that was lost, which  *)
(* only a restart ends (svm/tx.go:253-283).                                *)
DecisionsLeaveQueue ==
  \A k \in Keys :
    Claimable(k) ~> ~Claimable(k) \/ \A w \in Workers : Hangs(w)

(* "A crash before this point replays the batch, which the idempotent      *)
(* handlers absorb" (indexer.go:150-151): a replay never stops the         *)
(* indexer, every confirmed event is committed in the end.                 *)
EveryEventCommitted ==
  \A i \in 1..MaxLog : i <= Len(log) ~> i <= lastBlock
=============================================================================
