---------------------------- MODULE ChainReader ----------------------------
(***************************************************************************)
(* LogsInRange, as the two chain clients read it.  The EVM client asks the *)
(* node for the logs of a block range, in order.  The Solana client pages  *)
(* backwards through the signatures that name a program, newest first,     *)
(* keeps the finalized successful ones of the range, and turns them round. *)
(* An event is given its position, the (transaction, log index) its row    *)
(* will be idempotent on.                                                  *)
(***************************************************************************)
EXTENDS Integers, Sequences, SequencesExt

CONSTANT PageLimit   \* signatures in one page
ASSUME ReaderAssumption == PageLimit \in Nat \ {0}

(* The members of the sequence s that are in the set S, in their order. *)
Picked(s, S) ==
    LET picked[n \in 0..Len(s)] ==
            IF n = 0 THEN <<>>
            ELSE IF s[n] \in S THEN Append(picked[n - 1], s[n]) ELSE picked[n - 1]
    IN  picked[Len(s)]

(* The transactions of these blocks that did not fail. *)
InRange(ledger, from, to) ==
    {i \in DOMAIN ledger : ledger[i].ok /\ ledger[i].slot \in from..to}

(* What is handed on of the j-th event of transaction i.  The position     *)
(* counts every event of the transaction, wanted or not.                   *)
Decode(ledger, i, j) ==
    [at |-> <<i, j>>, block |-> ledger[i].slot, ev |-> ledger[i].events[j]]

(* The events of transaction i that have one of these names. *)
TransactionEvents(ledger, i, names) ==
    LET emitted == ledger[i].events
        chosen  == Picked([j \in DOMAIN emitted |-> j],
                          {j \in DOMAIN emitted : emitted[j].name \in names})
    IN  [n \in DOMAIN chosen |-> Decode(ledger, i, chosen[n])]

(* The events of a list of transactions, one after the other. *)
EventsOf(ledger, names) ==
    [txs \in Seq(DOMAIN ledger) |->
        FlattenSeq([k \in DOMAIN txs |-> TransactionEvents(ledger, txs[k], names)])]

---------------------------------------------------------------------------
(* evm/client.go: a reverted transaction leaves no logs. *)

FilterLogs(ledger, from, to) ==
    Picked([i \in DOMAIN ledger |-> i], InRange(ledger, from, to))

EvmLogsInRange(ledger, from, to, names) ==
    EventsOf(ledger, names)[FilterLogs(ledger, from, to)]

---------------------------------------------------------------------------
(* svm/client.go *)

(* The page of signatures before transaction `before', newest first. *)
Page(before) ==
    [k \in 1..(IF before - 1 < PageLimit THEN before - 1 ELSE PageLimit) |-> before - k]

(* The pages are followed until one reaches back beyond the range, or is   *)
(* short.                                                                  *)
SignaturesInRange(ledger, from, to) ==
    LET wanted == InRange(ledger, from, to)
        collected[before \in 0..(Len(ledger) + 1)] ==
            LET page == Page(before)
                done == \/ Len(page) < PageLimit
                        \/ \E k \in DOMAIN page : ledger[page[k]].slot < from
            IN  IF done THEN Picked(page, wanted)
                ELSE Picked(page, wanted) \o collected[before - PageLimit]
    IN  collected[Len(ledger) + 1]

(* A stable sort by slot: transactions of one slot stay as the node listed *)
(* them, newest first.                                                     *)
OldestSlotFirst(ledger, from, to) ==
    [signatures \in Seq(DOMAIN ledger) |->
        FlattenSeq([k \in 1..(to - from + 1) |->
            Picked(signatures, {i \in DOMAIN ledger : ledger[i].slot = from + k - 1})])]

SvmLogsInRange(ledger, from, to, names) ==
    EventsOf(ledger, names)[OldestSlotFirst(ledger, from, to)[SignaturesInRange(ledger, from, to)]]
============================================================================
