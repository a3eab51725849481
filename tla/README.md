# Verification of blocsy

blocsy indexes Solana trades. Four processes share a RabbitMQ queue and a
TimescaleDB: a *listener* streams transactions from a Geyser node and publishes
them; a *backfill* fetches missing blocks and publishes them; a *tx processor*
consumes the queue, turns transactions into rows of `swap_log` and broadcasts
them; an *API* answers questions about the rows. This directory holds TLA+
models of these parts, TLC configurations that check them on small instances and
TLAPS proofs of the main results for every instance.

## 1. Inventory

| component | state | operations | talks to | properties that make it correct |
|---|---|---|---|---|
| queue consumer, `internal/solana/queue.go`, `cmd/txProcessor` | `rabbitChan`, `workerWg`, connection, unacked deliveries | forwarder, 200 workers: decode, `ProcessTransaction`, `insertBatch` with three attempts, ack or nack; `reconnect` | broker, database, swap handler | acknowledged means stored; nothing is forgotten without a reason; one holder per delivery; the pool does not wedge; a lost channel is recovered from |
| publisher, `queue.go` | connection, channel | `AddToSolanaQueue` with one silent reconnect | broker; called by listener and backfill | how many messages a fault can lose |
| backfill, `backfill.go`, `cmd/backfill` | `blocks` table, snapshot of ranges, loop position | find gaps, fetch, mark, publish | node, database, publisher | gaps are found exactly, all are filled in the end, loss per fault is bounded |
| node client, `node.go` | request body | `GetBlockMessage`, `sendRequestWithRetry` | HTTP | what cannot be fetched or decoded |
| wire format, `internal/types/*_easyjson.go` | none (pure) | decode a node's answer; encode and decode the messages of the queue | node, broker | the worker gets the block that was sent, on both ways |
| block listener, `newBlocks.go`, `cmd/listener` | subscription, `blockTime`, pingers | subscribe, receive, date, publish, reconnect | Geyser stream, publisher | transactions are dated near their block; the stream is reopened and pinged |
| transaction parser, `txParser.go`, `tokenProgram.go`, `systemProgram.go`, `metaplexProgram.go`, `utils.go` | none (pure) | instructions to transfers, mints, burns, tokens; parent program, user, pair | swap handler | each movement is listed once, with its mint, amount and wallets; which exchange instruction it is taken to belong to |
| log parser, `GetLogs`, `HandlePumpFunNewToken` | stack of programs | log lines to the data each program logged | tx handler | data is attributed to the program that logged it |
| swap handler and exchange handlers, `swapHandler.go`, `dex/*` | none (pure) | pair transfers into swaps, balance the rest, build rows | finders, repository | every exchange instruction becomes one row; nothing is invented |
| tx handler, `txHandler.go` | goroutines nobody waits for | insert created tokens, count mints and burns, broadcast | repository, WebSocket server | the whole block is handed over; which rows and supplies can be missing or counted twice |
| token finder and pair service, `tokenFind.go`, `pairFind.go` | `seen`, bounded queue, 10 workers each | `AddToQueue`, `FindToken`, `FindPair` | cache, repository, node | each item is looked up once at a time and released |
| cache, `internal/cache` | entries for 60 s | put, get | finders | holds complete tokens |
| repository, `timescale_repo.go` | the tables | inserts, updates, queries | all | repeated inserts change nothing |
| WebSocket server, `cmd/api/websocket` | `clients` under one mutex, two unbuffered channels | register, ping, broadcast, remove | tx handler | registered clients get what they asked for; a dead client is removed |
| price tracker, `trackers` | price map, `RWMutex` | `GetUSDPrice`, `Run` | exchange API, PnL | a round leaves no old price; the cache gets current |
| profit and loss, `pnl.go`, `pnl_utils.go`, `token-pnl.go`, `holdingsLookup.go` | totals, `mu`, `sem`, `wg` | goroutine per token, first in first out lots, pages, holdings | repository, price tracker | totals add up, lots are first in first out, requests end |
| other routes, bundle check | none | one query each | repository, finders | — |

What is hard in this code: deliveries that must be acknowledged by the channel
they came on, while workers retry and return; a `WaitGroup` that is decremented
twice; publishes without confirmation on connections that die unnoticed; a block
that is marked before it is published; transactions that carry no time; trades
that are recognised by the position of their transfers; lookups that read, ask
and write in separate steps from two processes; unguarded counters and maps; a
mutex held over network writes; goroutines nobody waits for; calls and logs that
arrive flat and have to be nested again; repetition of everything after a crash.
`PROJECT.json` lists the hazards line by line with
the properties that cover them.

## 2. Modules

| module | models | built on |
|---|---|---|
| `MessageLedger` | what the queue promises: a message is waiting, held, stored, acknowledged, rejected or lost | — |
| `QueueHandler` | consumer, broker, database, supervisor | implements `MessageLedger` |
| `BlockProcessor` | what a queue worker does with one block: feeder, tx workers, closer, collector, and the writers of `ProcessTransaction` (one step, `Process`, of `QueueHandler`) | extends `Lists` |
| `Publisher` | `AddToSolanaQueue` and the connection under it | — |
| `Backfill` | backfill process, `blocks` table, node | extends `Publisher` |
| `BlockListener` | listener, stream, chain head | extends `Publisher` |
| `WireFormat` | the generated JSON code: per type a table of what is read under each key and when each key is written, and the one shape all the functions share | — |
| `TxParser` | `ParseTransaction` and everything under it, as operators | — |
| `LogParser` | `GetLogs`, `HandlePumpFunNewToken`, as operators | — |
| `Transactions` | the way of a transaction: node or stream, codec, queue, codec, parsers | extends `WireFormat`, `TxParser`, `LogParser` |
| `Lists` | sums, and the elements of a sequence that are in a set, as recursive functions | — |
| `SwapHandler` | `HandleSwaps`, exchange handlers, `InsertSwaps` | extends `Lists` |
| `TokenFinder` | both lookup queues, `FindToken`, `FindPair`, cache, token table, the writing goroutine of `ProcessTransaction` | — |
| `WebSocketServer` | connections, pingers, the hub, the broadcasting goroutines | — |
| `PriceTracker` | `GetUSDPrice` and `Run` over one map | — |
| `Pnl` | the wallet requests of the API | extends `Lists` |
| `ListTheorems` | induction, functions defined by recursion, lemmas about `Lists` | extends `Lists` |
| `QueueHandlerProofs`, `BackfillProofs`, `BlockListenerProofs`, `TokenFinderProofs`, `WebSocketServerProofs` | inductive invariants and theorems | the module they are named after |
| `BlockProcessorProofs` | the same, about `BlockProcessor` and about `SwapHandler`, which it calls per transaction | extends both, `ListTheorems` |
| `PnlProofs` | the same, about `Pnl` and about `PriceTracker`, which gives its prices | extends both, `ListTheorems` |
| `MC*` | instances for TLC | the module they are named after |

`SwapHandler` and `PriceTracker` are extended together with another module by a proof
module, so their specifications have names of their own (`SwapSpec`, `PriceSpec`).

Correspondence to the code (the lines are in `PROJECT.json`, "map"):

* **QueueHandler.** `ready`, `unacked`, `acked`, `rejected`, `lost` are the
  broker's; `inbox` is the Go channel `msgs`; `fwd` and `fwdMsg` the forwarder;
  `rabbitChan`, `workerWg` and `pc[w]` are the code's. `link` is the state of the
  one channel a process consumes on, because `reconnect` never calls `Consume`
  again. A worker's actions follow `solanaWorker`: `Receive`, `Nack` (malformed
  body), `Process`, `InsertSucceeds`, `InsertFails` (up to three attempts, an
  insert may also commit and report an error), `Ack`, `Leave`, `WorkerReturns`
  (two `Done` calls for one `Add`).
* **BlockProcessor.** One actor per goroutine. `txChan` is buffered for the whole
  block, `swapsChan` is unbuffered, so `Collect` is a step of a tx worker and the
  collector together; `wg` is the `WaitGroup` of the tx workers. A writer is the
  list of statements that its goroutine has yet to execute: PumpFun tokens, mint
  accounts (with a step for each that the loop passes over, because it was one of the
  PumpFun tokens), burns, mints. A death before the ack brings the block back, with
  `stored`, `rows` and `supply` as they are.
* **Publisher.** A call reaches the broker, is refused (closed channel, queue
  declaration fails, the message is dropped), or is swallowed by a connection
  that is dead without the client knowing.
* **Backfill.** `Start`, `FindMissing`, `NextRange`, the requests,
  `MarkBlockProcessed`, `PublishBlock` are the steps of the loop in `main` and
  `HandleBackFill`. The request body is a reader that the first response uses up.
  `Undecodable` blocks are those `Transactions` finds (`OnlyTheseStop`).
* **BlockListener.** `Listen` connects, subscribes, receives; a metadata update
  sets `blockTime`; a transaction update is published with `TimeOfTx`. Slot *s*
  has block time *s*.
* **WireFormat.** A JSON value is a record whose only field says what it is; a Go
  slice or pointer is a set of at most one value, so that nil and empty differ, which
  is what `omitempty` is about. `Fits` says whether the lexer accepts a value for a
  type; `Decode` leaves a field at its zero value when the key is missing or null.
* **TxParser.** An instruction's bytes are a record of their length, tag, amount
  and what they deserialise to (`Payload`). `processInstruction` is split by program
  (`TokenTransfer`, `NativeTransfer`); every index the code takes unchecked and
  every `log.Fatalf` is in `Dies`, and ends the process.
* **LogParser.** A line is known by the word `GetLogs` acts on. The fold `Read`
  carries the code's `details`, `current` and `stack`.
* **Transactions.** What happened on the chain is given with facts the program does
  not see: the depth of each call, the owner and mint of each account. `NodeBlock`
  and `StreamTx` are the two descriptions of it that the program gets;
  `GetBlockMessage`, `HandleBackFill`, `GrpcSubscribe`, `Receive` and `Process` take
  it to the parsed result, and the properties compare that with what happened.
* **SwapHandler.** A transaction is a sequence of transfers, each with the program
  that caused it. The loop over transfers is one action per way through its body;
  `Build` computes rows and drops the wallets whose sheet is zero; `InsertSwaps`
  applies the conflict key. Amounts are multiples of a step that is fine enough for both
  decimals and floats; `Rounded` is the float64 nearest to a number, applied to every
  difference and sum of a sheet, and `Written` what `big.Float.String` leaves of an
  amount of an event.
* **TokenFinder.** One actor per goroutine: callers of `AddToQueue`, workers, API
  handlers, writers. Each database or node call is a step of its own.
* **WebSocketServer.** `ws.mu` is held across steps by the hub only. A write to a
  peer that stalls blocks; a write while the pinger writes is a collision: the
  frames mix, or gorilla panics and the process ends.
* **PriceTracker.** An access to the map that takes time is two steps, and Go may
  end the process when two of them overlap. A price is the number of times it has
  changed.
* **Pnl.** One actor per token plus the handler. The counting loop goes row by row;
  `totalBuys++` is a load and a store. `Rank` is the order of the token addresses, by
  which `TokenPnlHandler` sorts before it cuts its page. `CalculateTokenPnL`
  goes over the rows in any order that `sort.Slice` may give to rows of the same
  second; its loops are recursive functions (`Tally` over rows, `SellLots` over lots).
  `Units` is the reference account, in which every unit has the time of its purchase.
  Integers have the width of `int64`: `Wrap` is what a sum or a product becomes,
  `Duration` the conversion of a float that may be too large, and `LastPage` the last page
  whose bounds are computed without overflow. `LatestAssumption` says that no trade of
  `swap_log` has an amount of 0: `ParseTransaction` drops such transfers
  (`txParser.go:101,145`) and `HandlePumpFunSwapData` such events
  (`dex/pumpfun.go:67-75`), so that `MostRecentPrice` never divides by 0.

## 3. Runs

Bounds are constants of the modules or of the `MC` modules, named where they are
declared; each is large enough for the cases named below to happen.

| run | question | bounds and why |
|---|---|---|
| `queue` | Are acknowledged messages stored, is everything accounted for, is the pool safe (one holder per delivery, room for the forwarder, one orphan per return); does it implement `MessageLedger`; is everything handled unless it is abandoned, the window is used up or a poisonous block is queued; does consuming resume? | 4 workers and prefetch 2 (the code's ratio 200 : 100): one worker can leave its delivery behind while the others go on, a second one uses up the window when the counter is 0, a third return panics; 3 messages out of a malformed, two ordinary and a poisonous one; 2 attempts, which may fail any number of times; 1 fault (link, broker, crash or signal), besides the deaths by panic and poison, which are free; blocks without swaps, which skip the insert, are left to the theorems of section 4 |
| `block` | Is a whole block handed over; which rows and supplies can be missing or wrong after the ack; does the worker come to an end? | 3 transactions (launch with mints, trade with a mint and a burn of its tokens, one without swaps), 2 tx workers (one may lag), 1 death and 1 failing statement anywhere |
| `backfill` | Are the gaps exact, is the snapshot fresh, is loss bounded, is every gap filled in the end? | all 256 tables of blocks 0–7 (several gaps, single-block gaps, row 0), one block without data and one that does not decode, 2 faults, 3 attempts |
| `listener` | How wrong can a time be; what can a fault lose; is the subscription kept up and pinged? | 3 slots of 2 transactions, 3 faults: enough for a reconnect in the middle of a slot and one after it |
| `transactions` | What survives the wire; what ends a process; do transfers, users, mints, created tokens and log messages agree with what happened; which trade is a transfer taken for? | some 3,000 transactions: up to three trades in a row, routed, direct and nested (transfers behind a nested trade); every sequence of up to three operations on accounts that are opened, used and closed; mints with metadata in any place; plain and checked mints and burns; failed transactions, missing logs, loaded addresses; logs of calls two deep, whole and cut anywhere |
| `swaps` | Of the rows that are returned, is each trade one, once; are movements conserved and reduced to net movers; what does rounding change; which rows does the key drop; is the insert idempotent? | all transactions of up to three parts out of twenty-nine: 17 exchange instructions (each program, both orders of legs, a fee in front of the legs and one or two behind them, a sheet of 0, ignored wallets and tokens, an event of 0) and 12 movements (chains, a split, a mint, a burn); floats of 4 binary digits, in which 0.1, 0.2 and 0.3 are rounded and 0.5, 1 and 2 are not |
| `finder_queues` | Do `seen` and the work under way agree; is everything released? | 2 tokens, 2 pairs, 2 callers, queues of 1 (so that they overflow), 2 + 1 workers, 1 crash |
| `finder_table` | How often is a supply filled in; are names kept? | 1 token, 2 workers, 1 API handler, 1 writer with 3 transactions, 1 crash |
| `broadcast` | Do the hub and the handlers agree on the clients; does a round reach everyone with what they asked for; does only a stalled peer block; is a gone peer forgotten? | 2 connections (one stalls while the other leaves), 2 kinds of requests, 1 transaction with swaps and a token, 1 death |
| `prices` | Is the cache sound, does it get current? | 2 handlers (who overlap with each other and with `Run`), 2 known symbols and an unknown one, 1 change of a price, 1 death |
| `pnl` | Is the answer complete (wins and pairs of all tokens, every token on one page, pages in order); are its figures true (lots first in first out, sums complete, counters that only lose); do requests end? | every history of one token of up to 3 rows in 2 seconds (lots split, used up exactly, sold before they were bought), and wallets of 2 and 3 tokens; 2 goroutines at a time (so that the third token waits), pages of 1, asked for far past the last one; an `int64` up to 7 and a second of 4 ns, so that a `Duration` holds one unit for a second, but not two, of one lot or of two |
| `pnl_holdings` (violated) | Are holdings complete? | the same wallets of up to 2 rows |

A property that is a conjunction (`PoolSafe`, `AnswerComplete`, `ResultTrue`, ...)
has its parts defined, each with its comment, right above it.

`CHECK_DEADLOCK FALSE` is used where the system may stop: a processor that was
told to, a chain that has reached the bound, a block or a request that is
finished, connections that have all ended, an API that was shut down.

The violated run is a disagreement between the code and its own text
(`PROJECT.json`, "findings", quotes both sides): holdings ignore receipts and
transfers.

What the properties say exactly, where one might have expected more:

* `workerWg` gets two `Done` calls per worker: `Wait` returns, and "Stopped
  listening" is logged, while half of the pool works; the next return panics. That
  panic is also the only way back after a lost channel (`ConsumerRecovers`).
* A block is marked before it is published, so a fault loses up to two blocks that no
  later round finds (`LossBound`). A block that does not decode stops the backfill
  for good (`Filled`), and the blocks that do not decode are those with a
  transaction whose error is a bare word, such as `"AccountInUse"` (`OnlyTheseStop`).
* The second and third attempt of `sendRequestWithRetry` send a request whose body
  has been read, so one bad answer ends the backfill process and only its restart
  makes progress.
* A transaction without log messages hides its loaded addresses from the parser, which
  then indexes past the end; and a failed transaction with a refused instruction,
  which only the backfill delivers, may end in `log.Fatalf`: the block comes back each
  time (`OnlyTheseStop`). Failed transactions that the backfill delivers are otherwise
  parsed as if they had happened.
* A transfer belongs to the nearest exchange instruction before it in the flat list:
  `AttributionKnown` says that it is the right one for the legs of a swap, and that
  what is wrongly taken in follows a swap of that program.
* The mint of an unchecked transfer to an account that the transaction closes is not
  found, and its amount comes out ten times too large (`TransfersTrue`).
* Of a log that is cut off, the messages of the calls that are still open, except the
  innermost, are dropped (`LogsTrue`).
* A worker whose insert failed three times returns without an ack or a nack
  (`queue.go:297-300`). Its message stays unacked, and no other worker gets it, until
  the link breaks; the other workers may go on consuming meanwhile
  (`HandledOrAbandoned`).
* MintToChecked and BurnChecked are decoded (`tokenProgram.go:109`) and then dropped
  (`txParser.go:284-306`), and the lamports that an account gets when it is opened and
  gives back when it is closed are not listed (`TransfersTrue`). So supplies miss checked
  mints and burns; `SuppliesBounded` counts those that the parser lists.
* The conflict key of `swap_log` leaves out wallet and token: equal transfers
  of one transaction are one row (`RowsLostToTwins`).
* `HandlePumpFunSwaps` skips the PumpFun transfer after the one in hand:
  a sale behind another PumpFun trade is lost (`TradesRecorded`).
* The last loop of `HandleSwaps` also drops trades (`LeftOut` of `TradesRecorded`): of an
  ignored wallet, in a liquid staking token, and those of a wallet whose sheet of the token
  is 0, for which one trade of 1 SOL for 1 token is enough, since the sheet subtracts an
  amount of the one from an amount of the other.
* Legs are paired by position, two by two. Behind a trade with a fee after its legs, as
  `pumpfun_amm` buys have, those of the next trade of the same program are shifted: the fee
  of the one is taken for a leg of the other (`Shifted`). Such rows name the pool of one of
  the trades, and the trade itself may be missing.
* The sheets are sums of `float64` and are compared with 0 (`swapHandler.go:137-148`):
  0.3 - 0.1 - 0.2 is not 0, and a wallet that passes 0.3 on in two parts keeps its rows.
  `MovementsRecorded` therefore holds of the tokens whose sums are not rounded;
  `RoundingHarmless` is what holds whatever the rounding: a wallet that only gets or only pays
  has its rows, and one that passes on the very amount it got has none.
* Nobody waits for the writers of `ProcessTransaction`: after an ack, token rows can be
  missing, mints can be lost or counted once per delivery (`TokenRowsTrue`,
  `SuppliesBounded`).
* A pair refused by a full queue stays in `seen` (the struct is deleted, not the
  address); `Released` and `QueuesInOrder` say exactly which pairs that are.
* "Group swaps by pair" (`token-pnl.go:72`) groups by token, and the group is priced by
  the pair of its oldest row, which may have none. The realized PnL charges the cost of
  what is still held (`pnl_utils.go:79`).
* The held time is a `time.Duration` multiplied with the amount (`pnl_utils.go:59,67`):
  2^63 nanoseconds are a million tokens held for 2.6 hours, and beyond that the figure is not
  a time. `LotsAreFifo` compares the held time only where it fits, the sold amount always.
* No lookup of a price has a timeout (`trackers/main.go:87` is `http.Get`), and
  `TokenPnlHandler` makes it with `mu` locked (`token-pnl.go:105`). One that is never
  answered keeps `Run` from refreshing any symbol, and keeps the request, with all of its
  goroutines, for ever (hypotheses of `EventuallyCurrent` and `RequestEnds`).

### Fairness

Under `FairSpec` the following happen, because Go's scheduler, the broker, the
supervisor or a timeout makes them happen: enabled steps of goroutines (a worker, the
forwarder, the loop of `HandleBackFill` with the node client's timeout of 120 s, a lookup
of a finder's worker with its timeout of 30 s, the hub, a
handler, a pinger with its ticker, the local steps of `Run`); delivery by the broker while
the window has room; detection of a dead connection by heartbeat; the end of a read
on a connection that is gone; a new
process after the old one died (`restart: unless-stopped` in `docker-compose.yml`).
Nothing is assumed of producers, clients, signals or faults; faults and deaths are
bounded, so liveness says what happens once they have ceased; only the inserts of the queue's
workers may fail for ever. That a WebSocket peer
reads in the end is a hypothesis of `OnlyStallsBlock` and `GoneAreForgotten`
(`NoLastingStall`), not an assumption: without it the broadcasts may block for ever. Nor is an
answer of the price source assumed: that no request of `Run` waits for ever is a hypothesis of
`EventuallyCurrent`, which does not need it of the handlers, and that no lookup of the request
does is one of `RequestEnds`.

## 4. Proofs

TLAPS proves the following for every value of the constants: any messages, workers,
blocks, connections, tokens and wallets, and any number of faults, deaths and errors.
Each proof rests on an inductive invariant that TLC has checked first on the instance
of the run; each module has one lemma per action, and frame lemmas for what most
actions leave alone.

| theorem (module `...Proofs`) | property of a run | inductive invariant |
|---|---|---|
| `AckAfterStore`, `NothingForgotten`, `PoolStaysSafe`, `Refinement` (`QueueHandler`) | `AckedAreStored`, `Accounted`, `PoolSafe`, `ImplementsLedger` | `QueueInv` |
| `WideWindowNeverWedges` (`QueueHandler`) | — | `QueueInv` |
| `BackfillTyping`, `SnapshotStaysFresh`, `LossesAreBounded` (`Backfill`) | —, `WorkIsMissing`, `LossBound` | `BackfillInv` |
| `FindMissingBlocksExact`, `RangesStayGaps` (`Backfill`) | `RangesAreGaps` | none: a fact about every table |
| `AlwaysDatedWithinOneBlock`, `ListenerLossBounded`, `SubscriptionStaysPinged` (`BlockListener`) | `DatedWithinOneBlock`, `ListenerLossBound`, safety part of `StaysSubscribed` | `ListenerInv`, `LossInv` |
| `HandOverStaysSafe`, `TokenRowsStayTrue`, `SuppliesStayBounded` (`BlockProcessor`) | `HandOverSafe`, `TokenRowsTrue`, `SuppliesBounded` | `HandOverInv`, `TableInv`, `SupplyInv` |
| `InsertStaysIdempotent`, `RowsStayLostToTwins` (`BlockProcessor`, about `SwapHandler`) | `InsertIdempotent`, `RowsLostToTwins` | `SwapInv` |
| `MovementsStayRecorded` (`BlockProcessor`, about `SwapHandler`) | `MovementsRecorded` | `SwapInv`, `MoveInv` |
| `QueuesStayInOrder`, `SeedsStayBounded`, `NamesStayKept` (`TokenFinder`) | `QueuesInOrder`, `SeedBound`, `NamesKept` | `IInv` |
| `ServiceStaysAgreed`, `RoundsStayExact` (`WebSocketServer`) | `ServiceAgrees`, `RoundsExact` | `IInv` |
| `PagesPartition`, `AnswersStayComplete` (`Pnl`) | `AnswerComplete` | `PnlInv` |
| `LotsMatchUnits`, `FiguresStayTrue` (`Pnl`) | `FiguresTrue` | `PnlInv`, `FigureInv` |
| `CacheStaysSound` (`Pnl`, about `PriceTracker`) | `CacheSound` | `CacheInv` |

The arguments, and why the properties are not inductive by themselves:

* **Queue.** An ack is safe only because a worker that is about to ack has stored its
  message (a fact about program counters), the forwarder finds room only because the
  deliveries in the buffer are a subset of the unacked ones of an open channel, and
  the number of returned workers equals the number of orphans only because both change
  in the same step and the counter of the `WaitGroup` is tied to the number of running
  workers. `Refinement`: each step of the pool is a step of `MessageLedger` or leaves
  it unchanged. `WideWindowNeverWedges` says what would repair the wedge: a prefetch
  above half of the pool; the code's 100 of 200 is just not. Assumptions: finite sets of
  messages and workers, `0 < Prefetch <= |Workers|`.
* **Backfill.** What the ranges and the loop still hold is disjoint and unmarked
  except for the block in hand, and each lost block is charged to a fault through
  the state of the connection. The window query is dealt with by least and greatest
  elements: a missing block between the first and the last row has a greatest row
  below it and a least row above it, which are neighbours and give its range.
* **Listener.** The dates follow from what a stream in progress can still hold: while
  `blockTime` is unknown, every transaction of it is of the first slot of the
  subscription, and once it is known, it is that of the slot in progress or of the one
  before. The loss bound charges each lost transaction to a fault, and keeps as `Debt`
  what a connection that is dead without the client knowing can still swallow.
* **Block.** Every transaction is in exactly one place: with the feeder, on `txChan`,
  with one tx worker, or in the batch; a closed channel says that everyone before it is
  done. For the rows: the insert of each token that a processed transaction creates has
  been executed or tried, is still in its writer, or was cut off. The assumption on
  tx workers (finite, at least one) is the code's constant 10.
* **Supplies.** What a token's supply has counted and what is still due, in writers that
  run and transactions that are not yet processed, together stay within the mints of the
  block times its deliveries (and the burns likewise); each statement moves its amount
  from what is due to what is counted, and a death adds one delivery. For the token's own
  mints: they follow its insert in the same writer, so they are still due or counted.
* **Rows of a transaction.** What a delivery makes of a transaction is a function of its
  transfers: the loop of `HandleSwaps` has appended what, together with what it will
  append from its place on (`Rest`), is the whole (`AllSwaps`). Hence the rows of the second
  delivery are those of the first, and the table holds either nothing of them or all that
  the first insert left, in which every row is covered by one with the same key. The inputs
  are assumed to be finite sequences of transfers.
* **Movements.** `MoveInv` keeps account during the loop: what its swaps add to the sheet of
  a wallet for a token without part in an exchange (`Gain`) is what the transfers before `at`
  bring to it (`Brought`); a transfer that a round skips is of an exchange and brings nothing
  of it. Where there are receipts and payments only, their gains add up to 0 over all
  wallets. The rows have these sums (`KeepTotal`), and dropping the rows of the wallets with
  balance 0 drops 0, whatever the order of the rows (`SettledGroups`). Assumed of the
  transfers is what `ParseTransaction` gives: no amount is 0, native ones are of SOL, and a
  quote or ignored token has an address. `Rounded` and `Written` are any functions that leave 0
  alone and positive amounts positive. `BalanceExact` and `SheetsExact` turn a sheet into the
  sum of its differences where none of them, and no sum on the way, is rounded; that is the
  hypothesis of the property (`NothingRounded`).
* **Finder.** An item that is pending is in exactly one of the places a lookup passes
  through, any other in none; callers and handlers are not workers. The bound on
  supplies counts who is *armed*, that is, has read a supply of 0 and not yet written:
  while the supply is not 0, fills and armed actors together stay below the bound.
* **WebSocket.** The hub's round is tied to `ws.mu`: while it lasts, nobody else changes
  the clients, so that those written to and those still to come are all of them; and what
  is registered was asked for by a message of the same connection.
* **Prices.** A symbol that the round has passed is at least as current as the beginning
  of the round, because the price in the hand of `Run` is, and because no handler is
  about to store one for a symbol that was in the map before any of them looked.
* **Profit and loss.** `sem` and `wg` are the numbers of goroutines in the parts of the
  code they guard; who adds holds `mu` and has read the current totals; hence the wins
  and the pairs are those of exactly the tokens that have got through, and when `wg` is
  0 these are all that were traded and have a price. Results are appended once per token
  and sorting only permutes them. `PagesPartition` is the arithmetic of the pages, in `int64`:
  each of n results is on exactly one of the pages up to `LastPage`, and the pages behind the
  results are empty, for n + PageSize <= MaxInt64. The
  addresses are assumed to be ordered (`Rank` is one to one) and not empty, since `""` stands
  for the free mutex; `TokenPnlHandler` itself leaves out an empty address.
* **Figures.** `LotsMatchUnits` compares two loops over the same rows: after every row the
  open lots, laid end to end, are the units not yet sold (`Match`), and a sale that has
  gone through some lots has sold the units up to the end of the last of them or its
  amount, whichever comes first (`SoldUpTo`). Rows in order of time make every part of a held
  time non-negative, so that no part of one that fits overflows (`WrapFits`); sums that wrap
  on the way are the sum that wraps at the end (`WrapAdds`). The sums follow the totals,
  one token more for
  each `AddTotals`. A counter stays below the number of trades that the goroutines have
  passed (`Passed`): a store raises it at most by one above what was loaded, and one that
  overwrites another's still leaves it above 0. The goroutines' groups are parts of the rows of
  the wallet, place by place (`KeepPlaces`), so that no trade is passed twice.
* **Lists.** The provers cannot use the library's induction theorems, which take a predicate as
  a parameter. `ListTheorems` states induction with a set in its place (`Induction`, from
  the well-foundedness of `<`), derives that functions defined by recursion exist
  (`RecursionExists`), and gives what sums and parts of sequences are from that.

Only model-checked:

* liveness, which needs fairness and `ENABLED`: `HandledOrAbandoned`, `ConsumerRecovers`,
  `Filled`, `AckedOrReturned`, `Released`, `OnlyStallsBlock`, `GoneAreForgotten`,
  `EventuallyCurrent`, `RequestEnds` and that a subscription is reopened
  (`StaysSubscribed`);
* `TradesRecorded` of `SwapHandler`, which speaks about the transfers of exchange
  instructions: it is false for a sequence of transfers that no instruction makes;
* `RoundingHarmless` of `SwapHandler`;
* everything about `WireFormat`, `LogParser` and `Transactions` (`OnlyTheseStop`,
  `DeliveredIntact`, `ResultTrue`, `AttributionKnown`, `LogsTrue`), whose
  codec and log tree are recursive operators, which the provers cannot use.

## 5. Not modelled

HTTP routes that are one query, the bundle check (one query and one request per row),
the SQL behind them, constructors and configuration; the generated code of types
that neither a block nor a transaction contains; base58, borsh and the bytes of
instructions; the account data `GetMetadata` decodes; and the handlers no transaction
reaches (`fluxbeam`, `lifinity`, `phoenix`, `tokenProgram` in `dex/`, `lookupPair` and
`identifyPair`). Rounding is modelled where a comparison depends on it, in the sheets of
`SwapHandler`, as a constant operator of which the proofs assume next to nothing. In `Pnl`
amounts and prices are whole numbers and their sums exact; the width of `int64` is modelled,
the rounding of its `float64` and `big.Float` sums is not. `PutPair` and `InsertPair`
have no caller, so the pair table is taken to be empty and `FindPair` to fail.

## 6. Plan

1. Done: `MessageLedger`, `QueueHandler` and its proofs, `BlockProcessor`; `Publisher`,
   `Backfill` and its proofs; `BlockListener`; `WireFormat`, `TxParser`, `LogParser`,
   `Transactions`; `SwapHandler`; `TokenFinder`; `WebSocketServer`; `PriceTracker`; `Pnl`.
2. Done: the safety properties of the concurrent modules, for every instance
   (section 4).
3. Further: the composition of listener, backfill and processor over one table, for
   what the different times of the two producers do to the rows; the bundle check on
   top of `LogParser`.
