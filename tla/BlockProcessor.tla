--------------------------- MODULE BlockProcessor ---------------------------
(***************************************************************************)
(* What a queue worker does with one delivered block between the decoding  *)
(* and the ack (solanaWorker in queue.go), and the goroutines that         *)
(* ProcessTransaction leaves behind (txHandler.go).  QueueHandler takes    *)
(* this for one step, Process.                                             *)
(*                                                                         *)
(*   feeder     sends the transactions to txChan and closes it             *)
(*   tx workers range over txChan and send their swaps to swapsChan        *)
(*   closer     closes swapsChan when wg says all tx workers are done      *)
(*   collector  the queue worker: ranges over swapsChan, inserts, acks     *)
(*   writers    one goroutine per processed transaction, which nobody      *)
(*              waits for, writes tokens and supplies                      *)
(*                                                                         *)
(* The processor may die at any point.  A block that is not acknowledged   *)
(* is then delivered again.                                                *)
(***************************************************************************)
EXTENDS Lists, Sequences, FiniteSets, SequencesExt

CONSTANTS Block,      \* blockData.Transactions: a sequence of records
          TxWorkers,  \* the tx workers (txWorkers = 10)
          Tokens,     \* token addresses
          NoTx,       \* no transaction
          MaxDeaths,  \* bound: deaths of the processor
          MaxErrors   \* bound: statements of the database that fail

Txs == 1..Len(Block)

Changes == [token : Tokens, amount : Nat]

(* What ParseTransaction, GetLogs and HandleSwaps make of a transaction:   *)
(* how many swaps, PumpFun tokens, initialized mints, burns and mints.     *)
ASSUME BlockAssumption ==
    /\ Block \in Seq([swaps : Nat, launched : Seq(Tokens), created : Seq(Tokens),
                      burns : Seq(Changes), mints : Seq(Changes)])
    /\ NoTx \notin Txs
    /\ IsFiniteSet(TxWorkers) /\ TxWorkers # {}
    /\ MaxDeaths \in Nat /\ MaxErrors \in Nat

VARIABLES fed,        \* feeder: transactions sent so far
          txChan,     \* buffered channel with room for the whole block
          txClosed,   \* "open" or "closed"
          worker,     \* tx workers: what they do, and with which transaction
          wg,         \* tx workers that have not returned
          swapsChan,  \* unbuffered; "open" or "closed"
          batch,      \* collector: results received, by transaction
          pc,         \* collector
          stored,     \* swap_log: transactions whose swaps are rows
          writer,     \* writers: statements still to be executed
          rows,       \* token table: the kind of row of each token
          supply,     \* token table
          deaths, errors,
          cut,        \* history: writers that died after the ack
          failed      \* history: tokens whose insert failed

channelVars == <<fed, txChan, txClosed, worker, wg, swapsChan, batch, pc>>
tableVars   == <<rows, supply>>
vars == <<channelVars, stored, writer, tableVars, deaths, errors, cut, failed>>

Waiting == [pc |-> "range", tx |-> NoTx]

TypeOK == /\ fed \in 0..Len(Block)
          /\ txChan \in Seq(Txs) /\ Len(txChan) <= Len(Block)
          /\ txClosed \in {"open", "closed"}
          /\ worker \in [TxWorkers -> [pc : {"range", "process", "send", "done"},
                                       tx : Txs \union {NoTx}]]
          /\ wg \in 0..Cardinality(TxWorkers)
          /\ swapsChan \in {"open", "closed"}
          /\ batch \in [Txs -> Nat]
          /\ pc \in {"collect", "insert", "ack", "acked", "returned"}
          /\ stored \subseteq Txs
          /\ rows \in [Tokens -> {"absent", "launched", "created"}]
          /\ supply \in [Tokens -> Int]
          /\ deaths \in 0..MaxDeaths /\ errors \in 0..MaxErrors
          /\ cut \subseteq Txs /\ failed \subseteq Tokens

Init == /\ fed = 0
        /\ txChan = <<>>
        /\ txClosed = "open"
        /\ worker = [w \in TxWorkers |-> Waiting]
        /\ wg = Cardinality(TxWorkers)
        /\ swapsChan = "open"
        /\ batch = [t \in Txs |-> 0]
        /\ pc = "collect"
        /\ stored = {}
        /\ writer = [t \in Txs |-> <<>>]
        /\ rows = [k \in Tokens |-> "absent"]
        /\ supply = [k \in Tokens |-> 0]
        /\ deaths = 0 /\ errors = 0
        /\ cut = {} /\ failed = {}

-----------------------------------------------------------------------------
(* Fan-out and fan-in.                                                     *)

Feed == /\ fed < Len(Block)
        /\ fed' = fed + 1
        /\ txChan' = Append(txChan, fed + 1)
        /\ UNCHANGED <<txClosed, worker, wg, swapsChan, batch, pc, stored, writer, tableVars,
                       deaths, errors, cut, failed>>

(* Mutant: txChan is not closed.                                           *)
CloseTxForgotten == txClosed = "open" /\ UNCHANGED vars

CloseTx == /\ fed = Len(Block)
           /\ txClosed = "open"
           /\ txClosed' = "closed"
           /\ UNCHANGED <<fed, txChan, worker, wg, swapsChan, batch, pc, stored, writer, tableVars,
                          deaths, errors, cut, failed>>

TakeTx(w) == /\ worker[w].pc = "range"
             /\ txChan # <<>>
             /\ worker' = [worker EXCEPT ![w] = [pc |-> "process", tx |-> Head(txChan)]]
             /\ txChan' = Tail(txChan)
             /\ UNCHANGED <<fed, txClosed, wg, swapsChan, batch, pc, stored, writer, tableVars,
                            deaths, errors, cut, failed>>

(* Mutant: wg.Done twice, as the queue workers do.                         *)
WorkerDoneTwice(w) == /\ worker[w].pc = "range"
                      /\ txChan = <<>> /\ txClosed = "closed"
                      /\ worker' = [worker EXCEPT ![w].pc = "done"]
                      /\ wg' = wg - 2
                      /\ UNCHANGED <<fed, txChan, txClosed, swapsChan, batch, pc, stored, writer,
                                     tableVars, deaths, errors, cut, failed>>

WorkerDone(w) == /\ worker[w].pc = "range"
                 /\ txChan = <<>> /\ txClosed = "closed"
                 /\ worker' = [worker EXCEPT ![w].pc = "done"]
                 /\ wg' = wg - 1
                 /\ UNCHANGED <<fed, txChan, txClosed, swapsChan, batch, pc, stored, writer,
                                tableVars, deaths, errors, cut, failed>>

Statement(op, k, n) == [op |-> op, token |-> k, amount |-> n]
Statements(op, seq) == [j \in 1..Len(seq) |-> Statement(op, seq[j].token, seq[j].amount)]

(* InsertToken of each PumpFun token; then of each initialized mint, where *)
(* the loop passes over those that were one of them.                       *)
Launches(x)  == [j \in 1..Len(x.launched) |-> Statement("launched", x.launched[j], 0)]
Creations(x) == [j \in 1..Len(x.created) |->
                    Statement(IF x.created[j] \in ToSet(x.launched) THEN "skip" ELSE "created",
                              x.created[j], 0)]

(* Mutant: mints are counted before their tokens are inserted.             *)
JobMintsFirst(x) == Statements("mint", x.mints) \o Launches(x) \o Creations(x)
                      \o Statements("burn", x.burns)

(* The loops of the writer: PumpFun tokens, initialized mints, burns, then *)
(* mints.                                                                  *)
Job(x) == (Launches(x) \o Creations(x)) \o (Statements("burn", x.burns) \o Statements("mint", x.mints))

ProcessTransaction(w) ==
    /\ worker[w].pc = "process"
    /\ worker' = [worker EXCEPT ![w].pc = "send"]
    /\ writer' = [writer EXCEPT ![worker[w].tx] = Job(Block[worker[w].tx])]
    /\ UNCHANGED <<fed, txChan, txClosed, wg, swapsChan, batch, pc, stored, tableVars,
                   deaths, errors, cut, failed>>

(* swapsChan <- processedSwaps meets the collector.                        *)
Collect(w) == /\ worker[w].pc = "send"
              /\ pc = "collect" /\ swapsChan = "open"
              /\ batch' = [batch EXCEPT ![worker[w].tx] = @ + 1]
              /\ worker' = [worker EXCEPT ![w] = Waiting]
              /\ UNCHANGED <<fed, txChan, txClosed, wg, swapsChan, pc, stored, writer, tableVars,
                             deaths, errors, cut, failed>>

CloseSwaps == /\ wg = 0
              /\ swapsChan = "open"
              /\ swapsChan' = "closed"
              /\ UNCHANGED <<fed, txChan, txClosed, worker, wg, batch, pc, stored, writer,
                             tableVars, deaths, errors, cut, failed>>

-----------------------------------------------------------------------------
(* The collector.                                                          *)

Goto(label) == /\ pc' = label
               /\ UNCHANGED <<fed, txChan, txClosed, worker, wg, swapsChan, batch>>

HasSwaps == {t \in Txs : Block[t].swaps > 0 /\ batch[t] > 0}

Collected == /\ pc = "collect"
             /\ swapsChan = "closed"
             /\ Goto(IF HasSwaps # {} THEN "insert" ELSE "ack")
             /\ UNCHANGED <<stored, writer, tableVars, deaths, errors, cut, failed>>

InsertBatch == /\ pc = "insert"
               /\ stored' = stored \union HasSwaps
               /\ Goto("ack")
               /\ UNCHANGED <<writer, tableVars, deaths, errors, cut, failed>>

Error == errors < MaxErrors /\ errors' = errors + 1

(* Every attempt failed: the worker returns without an ack.  The delivery  *)
(* is handed out again when the process has ended.                         *)
InsertFails == /\ pc = "insert"
               /\ Error
               /\ Goto("returned")
               /\ UNCHANGED <<stored, writer, tableVars, deaths, cut, failed>>

Ack == /\ pc = "ack"
       /\ Goto("acked")
       /\ UNCHANGED <<stored, writer, tableVars, deaths, errors, cut, failed>>

-----------------------------------------------------------------------------
(* The writers.                                                            *)

Finish(t) == writer' = [writer EXCEPT ![t] = Tail(@)]

NextIs(t, op) == writer[t] # <<>> /\ Head(writer[t]).op \in op

(* Mutant: return after a refused insert.                                  *)
InsertTokenReturns(t) ==
    /\ NextIs(t, {"launched", "created"})
    /\ LET s == Head(writer[t])
       IN  /\ rows' = [rows EXCEPT ![s.token] = IF @ = "absent" THEN s.op ELSE @]
           /\ IF rows[s.token] = "absent" THEN Finish(t) ELSE writer' = [writer EXCEPT ![t] = <<>>]
    /\ UNCHANGED <<channelVars, stored, supply, deaths, errors, cut, failed>>

(* A second insert of an address is refused, and logged.                   *)
InsertToken(t) ==
    /\ NextIs(t, {"launched", "created"})
    /\ LET s == Head(writer[t])
       IN  rows' = [rows EXCEPT ![s.token] = IF @ = "absent" THEN s.op ELSE @]
    /\ Finish(t)
    /\ UNCHANGED <<channelVars, stored, supply, deaths, errors, cut, failed>>

SkipToken(t) == /\ NextIs(t, {"skip"})
                /\ Finish(t)
                /\ UNCHANGED <<channelVars, stored, tableVars, deaths, errors, cut, failed>>

(* The statement changes the row if there is one.                          *)
UpdateTokenSupply(t) ==
    /\ NextIs(t, {"burn", "mint"})
    /\ LET s == Head(writer[t])
           change == IF s.op = "mint" THEN s.amount ELSE -s.amount
       IN  supply' = [supply EXCEPT ![s.token] = IF rows[s.token] = "absent" THEN @ ELSE @ + change]
    /\ Finish(t)
    /\ UNCHANGED <<channelVars, stored, rows, deaths, errors, cut, failed>>

(* An error is logged, or not even that, and the goroutine goes on.        *)
WriteFails(t) ==
    /\ NextIs(t, {"launched", "created", "burn", "mint"})
    /\ Error
    /\ failed' = failed \union {Head(writer[t]).token}
    /\ Finish(t)
    /\ UNCHANGED <<channelVars, stored, tableVars, deaths, cut>>

Write(t) == InsertToken(t) \/ SkipToken(t) \/ UpdateTokenSupply(t) \/ WriteFails(t)

-----------------------------------------------------------------------------
(* The processor dies, and the next one gets the block unless it was       *)
(* acknowledged.                                                           *)
Die == /\ deaths < MaxDeaths
       /\ deaths' = deaths + 1
       /\ writer' = [t \in Txs |-> <<>>]
       /\ IF pc = "acked"
          THEN /\ cut' = cut \union {t \in Txs : writer[t] # <<>>}
               /\ UNCHANGED channelVars
          ELSE /\ fed' = 0
               /\ txChan' = <<>>
               /\ txClosed' = "open"
               /\ worker' = [w \in TxWorkers |-> Waiting]
               /\ wg' = Cardinality(TxWorkers)
               /\ swapsChan' = "open"
               /\ batch' = [t \in Txs |-> 0]
               /\ pc' = "collect"
               /\ UNCHANGED cut
       /\ UNCHANGED <<stored, tableVars, errors, failed>>

TxWorker(w) == TakeTx(w) \/ WorkerDone(w) \/ ProcessTransaction(w) \/ Collect(w)
Feeder      == Feed \/ CloseTx
Collector   == Collected \/ InsertBatch \/ InsertFails \/ Ack

Next == \/ Feeder \/ CloseSwaps \/ Collector \/ Die
        \/ \E w \in TxWorkers : TxWorker(w)
        \/ \E t \in Txs : Write(t)

Spec == Init /\ [][Next]_vars

(* Goroutines that can go on are scheduled.  Deaths and errors owe nothing. *)
Fairness == /\ WF_vars(Feeder) /\ WF_vars(CloseSwaps) /\ WF_vars(Collector)
            /\ \A w \in TxWorkers : WF_vars(TxWorker(w))
            /\ \A t \in Txs : WF_vars(Write(t))

FairSpec == Spec /\ Fairness

-----------------------------------------------------------------------------
(* Properties.                                                             *)

(* When the collector's range over swapsChan ends, it has the result of    *)
(* each transaction of the block exactly once, whatever the order in which *)
(* feeder, tx workers and closer ran; and what is acknowledged is stored.  *)
BatchIsComplete ==
    /\ pc \in {"insert", "ack", "acked"} => \A t \in Txs : batch[t] = 1
    /\ pc = "acked" => \A t \in Txs : Block[t].swaps > 0 => t \in stored

(* No tx worker can send on a closed swapsChan, which would be a panic:    *)
(* wg reaches zero only after the last of them has left its range.         *)
NeverSendsOnClosed ==
    swapsChan = "closed" => \A w \in TxWorkers : worker[w].pc = "done"

(* solanaWorker's channels and WaitGroup hand over a whole block.          *)
HandOverSafe == TypeOK /\ BatchIsComplete /\ NeverSendsOnClosed

Creates(t) == ToSet(Block[t].launched) \union ToSet(Block[t].created)

(* Nobody waits for the writers, and InsertToken is never repeated.  The   *)
(* row of a token that an acknowledged block creates is missing only       *)
(* while its writer is running, or because a writer was cut short by a     *)
(* death after the ack, or because the insert itself failed.               *)
RowsAfterAck ==
    pc = "acked" =>
        \A t \in Txs : \A k \in Creates(t) :
            \/ rows[k] # "absent"
            \/ \E j \in DOMAIN writer[t] : writer[t][j].token = k
            \/ t \in cut
            \/ k \in failed

(* PumpFun's name, symbol and deployer are not replaced or preceded by the *)
(* bare mint of the same transaction, on any number of deliveries.         *)
LaunchedStayLaunched ==
    \A t \in Txs : \A k \in ToSet(Block[t].launched) :
        (\A s \in Txs \ {t} : k \notin Creates(s)) => rows[k] # "created"

(* The token rows that the writers of ProcessTransaction leave.            *)
TokenRowsTrue == RowsAfterAck /\ LaunchedStayLaunched

(* The amounts of token k in a list of mints or burns, and in all lists of *)
(* the block.                                                              *)
SumOf(seq, k) ==
    Total([j \in 1..Len(seq) |-> IF seq[j].token = k THEN seq[j].amount ELSE 0], Len(seq))

Mints(k) == Total([t \in Txs |-> SumOf(Block[t].mints, k)], Len(Block))
Burns(k) == Total([t \in Txs |-> SumOf(Block[t].burns, k)], Len(Block))

(* Supplies are changed in place, so a block that is delivered again       *)
(* counts again: the supply stays within the mints and burns of the block  *)
(* times its deliveries.                                                   *)
SupplyWithinDeliveries ==
    \A k \in Tokens :
        /\ supply[k] <= (deaths + 1) * Mints(k)
        /\ supply[k] >= -((deaths + 1) * Burns(k))

(* The mints of the transaction that creates a token are counted, because  *)
(* its writer inserts first; those of other transactions of the block may  *)
(* come too early and be lost.                                             *)
OwnMintsCount ==
    pc = "acked" =>
        \A t \in Txs : \A k \in Creates(t) \ failed :
            writer[t] = <<>> /\ t \notin cut =>
                supply[k] >= SumOf(Block[t].mints, k) - (deaths + 1) * Burns(k)

(* The supplies that the writers of ProcessTransaction leave.              *)
SuppliesBounded == SupplyWithinDeliveries /\ OwnMintsCount

(* The block is acknowledged in the end, unless its batch could not be     *)
(* stored: no goroutine of solanaWorker waits for another for ever.        *)
AckedOrReturned == <>[](pc \in {"acked", "returned"})

=============================================================================
