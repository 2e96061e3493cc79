---------------------------- MODULE ChainMirror ----------------------------
(***************************************************************************)
(* The indexer: it follows a chain block by block and keeps Postgres a     *)
(* mirror of the contracts' storage.  A batch of final blocks is read, the *)
(* statements of every event are carried out one at a time, each committed *)
(* on its own, and only then is the cursor saved.  The process may stop    *)
(* between any two of those; the next one resumes from the saved cursor    *)
(* and repeats what the last one did beyond it.                            *)
(***************************************************************************)
EXTENDS IndexedContracts, MirrorTables, MirrorHandlers, ChainReader

CONSTANTS
    BatchSize,    \* blocks read at once
    SvmKinds,     \* the contracts that are followed on Solana
    LateKinds,    \* the contracts an indexer may start to follow late
    MaxFailures   \* bound, by kind: crashes and lost statements

(* cmd/indexer: which handlers there are for each chain. *)
EvmHandlers == {"vault", "rounds", "staking", "governor", "zk"}
SolanaHandlers == {"vault", "rounds", "staking", "receiver"}

ASSUME MirrorAssumption ==
    /\ SvmKinds \subseteq SolanaHandlers
    /\ Kinds \ SvmKinds \subseteq EvmHandlers
    /\ BatchSize \in Nat \ {0}
    /\ LateKinds \subseteq {"rounds", "staking"}
    /\ MaxFailures \in [Kinds -> Nat]

NotSaved == -1

VARIABLES
    db,        \* the tables
    saved,     \* indexer_cursors.last_block, or NotSaved
    up,        \* whether a process runs
    cursor,    \* its cursor
    to,        \* the last block of the batch it works on; 0 between batches
    events,    \* the events of the batch not yet handled
    work,      \* the statements left of the event being handled
    known,     \* the metadata this process remembers to have written
    late,      \* cursor saves of dead processes, which may still land
    written,   \* the last block an event of which was written (history)
    failures   \* faults so far

processVars == <<up, cursor, to, events, work, known>>
mirrorVars  == <<db, saved, processVars, late, written, failures>>
indexerVars == <<chainVars, mirrorVars>>

Idle == up /\ to = 0

(* What a contract may have done before the indexer's start block, as one  *)
(* transaction: a feed registered, and a round of it open; a node joined.  *)
EarlierFeed ==
    [slot |-> 1, ok |-> TRUE, events |-> <<[name |-> "FeedRegistered", id |-> 0]>>,
     post |-> [Deployed("rounds") EXCEPT !.feed = "active"]]

EarlierRound ==
    [EarlierFeed EXCEPT !.events = Append(@, [name |-> "RoundStarted", id |-> 1]),
                        !.post.round[1].state = "open"]

EarlierNode(n) ==
    [slot |-> 1, ok |-> TRUE,
     events |-> <<[name |-> "NodeReactivated", id |-> 1, who |-> n],
                  [name |-> "NodeRegistered", id |-> 0, who |-> n, stake |-> MinStake],
                  [name |-> "NodeStaked", id |-> 0, who |-> n, stake |-> MinStake]>>,
     post |-> [Deployed("staking") EXCEPT !.version = 1,
                 !.node[n] = [registered |-> TRUE, stake |-> MinStake,
                              pending |-> 0, active |-> TRUE],
                 !.spans = With(@, <<n, 1>>, [closed |-> 0])]]

Earlier(kind) ==
    IF kind = "rounds" THEN {EarlierFeed} \union (IF 1 \in Ids THEN {EarlierRound} ELSE {})
                       ELSE {EarlierNode(n) : n \in Stakers}

MirrorInit ==
    /\ contract \in Kinds
    /\ \/ start = 0 /\ ledger = <<>>
       \/ contract \in LateKinds /\ start = 1 /\ \E past \in Earlier(contract) : ledger = <<past>>
    /\ head = start
    /\ final = start
    /\ db = EmptyTables
    /\ saved = NotSaved
    /\ up = FALSE
    /\ cursor = 0 /\ to = 0 /\ events = <<>> /\ work = <<>> /\ known = {}
    /\ late = {}
    /\ written = start
    /\ failures = 0

---------------------------------------------------------------------------
(* The process. *)

MutantSaveCursor(block) == block

(* A save never moves the cursor back. *)
SaveCursor(block) == IF saved < block THEN block ELSE saved

(* The process starts: the configured block counts only the first time. *)
RestoreCursor ==
    /\ ~up
    /\ up' = TRUE
    /\ IF saved = NotSaved
         THEN cursor' = start /\ saved' = SaveCursor(start)
         ELSE cursor' = saved /\ UNCHANGED saved
    /\ UNCHANGED <<chainVars, db, to, events, work, known, late, written, failures>>

MutantSafeHead == head

(* Solana's head is the finalized one and needs no further confirmation. *)
SafeHead ==
    IF contract \in SvmKinds THEN final
    ELSE IF head < Confirms THEN 0 ELSE head - Confirms

LogsInRange(first, last) ==
    IF contract \in SvmKinds THEN SvmLogsInRange(ledger, first, last, Filters(contract))
                              ELSE EvmLogsInRange(ledger, first, last, Filters(contract))

(* The last block of the next batch. *)
Upto == Min({cursor + BatchSize, SafeHead})

(* The cursor is saved before the events it covers. *)
MutantFetchBatch ==
    /\ Idle
    /\ SafeHead > cursor
    /\ to' = Upto
    /\ events' = LogsInRange(cursor + 1, Upto)
    /\ saved' = SaveCursor(to')
    /\ UNCHANGED <<chainVars, db, up, cursor, work, known, late, written, failures>>

(* Step, up to its first write. *)
FetchBatch ==
    /\ Idle
    /\ SafeHead > cursor
    /\ to' = Upto
    /\ events' = LogsInRange(cursor + 1, Upto)
    /\ UNCHANGED <<chainVars, db, saved, up, cursor, work, known, late, written, failures>>

(* The event at hand, and the statements it still needs. *)
StatementsLeft(e) == IF work # <<>> THEN work ELSE Dispatch(contract, e.ev, known)

EventRow(e) ==
    [c \in {"at"} \union DOMAIN e.ev |-> IF c = "at" THEN e.at ELSE e.ev[c]]

(* Step gives up: nothing is rolled back, the batch is read again. *)
StepFails == to' = 0 /\ events' = <<>> /\ work' = <<>>

(* One statement of one event.  A refused statement ends the step. *)
WriteStatement ==
    /\ up /\ events # <<>>
    /\ LET e    == Head(events)
           todo == StatementsLeft(e)
           op   == Head(todo)
       IN  /\ todo # <<>>
           /\ IF StatementRefused(contract, db, op, EventRow(e))
                THEN StepFails /\ UNCHANGED <<db, known, written>>
                ELSE /\ db' = Exec(contract, db, op, EventRow(e))
                     /\ known' = known \union ({op} \intersect
                                   {"UpsertAsset", "UpsertVault", "UpsertGovernor", "UpsertZkGate"})
                     /\ written' = Max({written, e.block})
                     /\ work' = Tail(todo)
                     /\ events' = IF Tail(todo) = <<>> THEN Tail(events) ELSE events
                     /\ UNCHANGED to
    /\ UNCHANGED <<chainVars, saved, up, cursor, late, failures>>

(* The cursor is saved once every event of the batch is durable. *)
CommitBatch ==
    /\ up /\ to # 0 /\ events = <<>>
    /\ saved' = SaveCursor(to)
    /\ cursor' = to
    /\ to' = 0
    /\ UNCHANGED <<chainVars, db, up, events, work, known, late, written, failures>>

---------------------------------------------------------------------------
(* Faults. *)

(* A read or a statement fails: the connection is lost. *)
LoseStep ==
    /\ up /\ to # 0
    /\ failures < MaxFailures[contract]
    /\ failures' = failures + 1
    /\ StepFails
    /\ UNCHANGED <<chainVars, db, saved, up, cursor, known, late, written>>

(* The process dies; a cursor save it had under way may still land later,  *)
(* which counts as a fault of its own.  (Between batches there is only     *)
(* memory to lose, as there is in the next batch.)                         *)
Crash ==
    /\ up /\ to # 0
    /\ up' = FALSE
    /\ cursor' = 0 /\ known' = {}
    /\ StepFails
    /\ \/ failures' = failures + 1 /\ UNCHANGED late
       \/ /\ events = <<>>
          /\ failures' = failures + 2
          /\ late' = late \union {to}
    /\ failures' <= MaxFailures[contract]
    /\ UNCHANGED <<chainVars, db, saved, written>>

(* Landing again changes nothing: the cursor does not move back.           *)
LateSave ==
    /\ \E block \in late : saved' = SaveCursor(block)
    /\ UNCHANGED <<chainVars, db, processVars, late, written, failures>>

---------------------------------------------------------------------------
Process == RestoreCursor \/ FetchBatch \/ WriteStatement \/ CommitBatch

(* Between reading a batch and looking for the next one the process does   *)
(* not look at the chain, so the chain moves only while it is idle.        *)
MirrorNext ==
    \/ Idle /\ ChainNext /\ UNCHANGED mirrorVars
    \/ Process \/ LoseStep \/ Crash \/ LateSave

(* The service is restarted when it dies and keeps polling; the chain owes *)
(* it nothing.                                                             *)
MirrorSpec == MirrorInit /\ [][MirrorNext]_indexerVars /\ WF_indexerVars(Process)

---------------------------------------------------------------------------
(* What the tables should hold: the storage, as the API shows it. *)

ProposalRow(s, p) == [state |-> s.state[p], for |-> Tally(s, p, "for"),
                      against |-> Tally(s, p, "against")]

Live(states, dead) == {k \in DOMAIN states : states[k] # dead}

(* The tables that mirror the storage s. *)
MirrorOf(s) ==
    CASE contract = "governor" ->
           [proposals |-> [p \in Live(s.state, "none") |-> ProposalRow(s, p)],
            votes     |-> [c \in DOMAIN s.cast |->
                              [support |-> s.cast[c], weight |-> Weight[c[2]]]]]
      [] contract = "receiver" ->
           [remote |-> [m \in Live(s.status, "none") |-> [status |-> s.status[m]]]]
      [] contract = "vault" ->
           [positions |-> [u \in Accounts |-> [shares |-> s.shares[u]]],
            tvl       |-> [t \in {"tvl"} |->
                              [amount |-> MapThenSumSet(LAMBDA u : s.shares[u], Accounts)]]]
      [] contract = "rounds" ->
           LET known_ == {r \in Ids : s.round[r].state # "none"}
           IN [feeds  |-> [f \in IF s.feed = "none" THEN {} ELSE {"feed"} |->
                              [name |-> "registered", active |-> s.feed = "active"]],
               rounds |-> [r \in known_ |-> [state |-> s.round[r].state,
                              count |-> s.round[r].met, value |-> s.round[r].value]],
               submissions |-> [k \in {rn \in known_ \X Accounts :
                                          rn[2] \in DOMAIN s.round[rn[1]].votes} |->
                                  [value |-> s.round[k[1]].votes[k[2]]]]]
      [] contract = "staking" ->
           [nodes |-> [n \in {m \in Stakers : s.node[m].registered} |->
                         [stake |-> s.node[n].stake, pending |-> s.node[n].pending,
                          active |-> s.node[n].active]],
            intervals |-> s.spans,
            slashings |-> s.slashed]
      [] contract = "zk" ->
           [leaves  |-> [i \in 0..(Len(s.leaves) - 1) |-> [commitment |-> s.leaves[i + 1]]],
            actions |-> [a \in Live(s.action, "none") |-> [registered |-> s.action[a] = "on"]],
            spent   |-> s.spent]

(* What a reader gets from the tables. *)
Served ==
    CASE contract = "vault" ->
           [positions |-> [u \in Accounts |-> [shares |-> VaultPosition(db, u)]],
            tvl       |-> [t \in {"tvl"} |-> [amount |-> VaultTVL(db)]]]
      [] OTHER -> [t \in DOMAIN MirrorOf(Deployed(contract)) |-> db[t]]

(* Tables as a set of cells: <<table, key, column, value>>. *)
Cells(tables) ==
    UNION {UNION {{<<t, k, c, tables[t][k][c]>> : c \in DOMAIN tables[t][k] \ {"at"}} :
                  k \in DOMAIN tables[t]} : t \in DOMAIN tables}

(* The block the next write follows. *)
Resumed == IF up THEN cursor ELSE Max({saved, start})

(* Every storage the mirror may be showing some of: the one at that block, *)
(* and those up to the last block written.                                 *)
Window ==
    {Cells(MirrorOf(StorageAt(Resumed)))} \union
    {Cells(MirrorOf(ledger[i].post)) :
        i \in {j \in DOMAIN ledger : ledger[j].slot > Resumed
                                     /\ ledger[j].slot <= written}}

(* What an indexer that started late never saw. *)
BeforeStart(cell) ==
    /\ start # 0
    /\ \E c \in Cells(MirrorOf(ledger[1].post)) : c[1] = cell[1] /\ c[2] = cell[2]

---------------------------------------------------------------------------
(* Type invariant: the process works on nothing beyond the final blocks,   *)
(* and statements are left only for an event of the batch.                 *)
MirrorTypeOK ==
    /\ contract \in Kinds
    /\ head \in 0..(Len(ledger) + MaxEmpty) /\ final \in 0..head
    /\ \A i \in DOMAIN ledger :
          /\ ledger[i].slot \in 1..head
          /\ i > 1 => ledger[i - 1].slot <= ledger[i].slot
    /\ saved \in {NotSaved} \union 0..final
    /\ cursor \in 0..final /\ to \in 0..final
    /\ up \in BOOLEAN
    /\ ~up => to = 0 /\ known = {}
    /\ to # 0 => cursor < to
    /\ to = 0 => events = <<>>
    /\ events = <<>> => work = <<>>
    /\ late \subseteq 1..final
    /\ written \in 0..final

(* Inside a slot of Solana the transactions are handled newest first: the  *)
(* claim is not about the time while a slot with several is being written. *)
SlotsApart ==
    contract \in SvmKinds =>
        \A i, j \in DOMAIN ledger :
            ledger[i].slot = ledger[j].slot /\ ledger[i].slot > Resumed
                /\ ledger[i].slot <= written => i = j

(* Rows of feeds, nodes and actions are set by whatever statement is last, *)
(* in the tables' own order of time: the claim is not about them once a    *)
(* process has died with a save under way, which may land over a replay.   *)
Unguarded == {"feeds", "nodes", "actions"}

Excepted(cell) ==
    \/ BeforeStart(cell)
    \/ ~SlotsApart
    \/ cell[1] \in Unguarded /\ late # {}

(* Every value the tables serve is one the contract's storage had, at the  *)
(* cursor's block or between it and the last block written; and what stayed *)
(* the same through all of those is served.  So when nothing beyond the    *)
(* cursor has been written the tables equal the storage at the cursor's    *)
(* block, whatever was retried, replayed or reorganised before: "idempotent *)
(* handlers absorb" a replayed batch (indexer.go:150-151).  Excepted names *)
(* what that is not true of.                                               *)
MirrorAgrees ==
    LET served == Cells(Served)
        window == Window
    IN  /\ \A cell \in served :
              (\E w \in window : cell \in w) \/ Excepted(cell)
        /\ \A w \in window : \A cell \in w :
              (\A x \in window : cell \in x) => cell \in served \/ Excepted(cell)

(* No statement ever changes or removes a row that is final: a settled or  *)
(* failed round, an executed, dispatched or cancelled proposal, a closed   *)
(* message, a vote, a submission, a flow of the vault, a leaf, a spent     *)
(* nullifier.  The guards in governance.go:52-80, governance_remote.go:39  *)
(* and oracle.go:42-59 are there for replayed and out-of-order batches.    *)
FinalRows ==
    [proposals |-> {p \in DOMAIN db.proposals :
                       db.proposals[p].state \in {"executed", "dispatched", "cancelled"}},
     remote |-> {m \in DOMAIN db.remote : db.remote[m].status # "pending"},
     rounds |-> {r \in DOMAIN db.rounds : db.rounds[r].state \in {"settled", "failed"}},
     intervals |-> {k \in DOMAIN db.intervals : db.intervals[k].closed # 0},
     votes |-> DOMAIN db.votes, submissions |-> DOMAIN db.submissions,
     deposits |-> DOMAIN db.deposits, withdrawals |-> DOMAIN db.withdrawals,
     slashings |-> DOMAIN db.slashings, leaves |-> DOMAIN db.leaves, spent |-> DOMAIN db.spent]

FinalRowsStay ==
    [][\A t \in DOMAIN FinalRows : \A k \in FinalRows[t] :
          k \in DOMAIN db'[t] /\ db'[t][k] = db[t][k]]_indexerVars

(* The saved cursor never moves back, also when a save of a process that   *)
(* is gone lands after its successor's (cursor.go:41-42).                  *)
CursorNeverRewinds == [][saved' >= saved]_indexerVars

(* Events whose statement no turn accepts, because the row it needs is     *)
(* never written: a slash of a node that joined, or an answer to a round   *)
(* that opened, before the indexer's start block; and the cancellation of  *)
(* a message received in the same slot, which is handled first.            *)
RefusedForGood ==
    \E i \in DOMAIN ledger : ledger[i].slot <= SafeHead /\
        \E j \in DOMAIN ledger[i].events :
            LET e == ledger[i].events[j]
            IN  \/ e.name = "NodeSlashed" /\ start # 0 /\ ledger[1].post.node[e.who].registered
                \/ e.name = "SubmissionReceived" /\ start # 0
                     /\ ledger[1].post.round[e.id].state # "none"
                \/ e.name = "MessageCancelled" /\ ledger[i].ok
                     /\ \E k \in DOMAIN ledger \ {i} :
                           ledger[k].slot = ledger[i].slot /\ ledger[k].events[1].id = e.id
                             /\ ledger[k].events[1].name = "MessageReceived"

(* Again and again the mirror has caught up with the confirmed chain: a    *)
(* fault costs time only (indexer.go:83-115), and apart from those three   *)
(* no event the contracts emit is one a handler refuses for ever.          *)
CatchesUp == []<>(saved >= SafeHead \/ RefusedForGood)

(* "The received row must already exist: both events come from the same    *)
(* program, in order" (governance_remote.go:56-57): whenever the closing   *)
(* of a message is at hand, the message has its row.                       *)
ReceivedBeforeClosed ==
    up /\ events # <<>> =>
        (Head(events).ev.name \in {"MessageExecuted", "MessageCancelled"} =>
            Head(events).ev.id \in DOMAIN db.remote)
============================================================================
