---------------------------- MODULE Transactions ----------------------------
(***************************************************************************)
(* The way of a transaction from the chain to the tables: a block comes as *)
(* JSON from a node (backfill) or a transaction as a protobuf message from *)
(* a stream (listener), goes through the queue as JSON, and the tx         *)
(* processor parses its instructions and its log.                          *)
(*                                                                         *)
(* What happened on the chain is given: Blocks are sequences of records    *)
(*                                                                         *)
(*   keys, writable, readonly   the account keys and the loaded ones       *)
(*   lookups                    the tables they are loaded from            *)
(*   outer, inner               instructions; inner ones by groups         *)
(*   post, pre                  token balances                             *)
(*   logs                       {} when the node has not kept them         *)
(*   err                        "none", "instruction" or another word      *)
(*                                                                         *)
(* An instruction knows its depth in the tree of calls (stackHeight) and   *)
(* what it does, an account its owner and mint.  The program does not read *)
(* any of these; the properties compare what it works out with them.       *)
(***************************************************************************)
EXTENDS WireFormat, TxParser, LogParser, FiniteSets

CONSTANTS Blocks,      \* blocks the chain may hold
          Owner,       \* the owner of each token account
          Payer,       \* who paid for its creation
          MintOf,      \* its mint
          DecimalsOf   \* the decimals of each mint

VARIABLES pc,        \* where the block is
          origin,    \* "node" or "stream"
          block,     \* the block under way
          fetched,   \* what GetBlockMessage decoded
          queue,     \* the JSON in the queue
          received,  \* what the worker decoded
          parsed     \* what ProcessTransaction makes of each transaction

vars == <<pc, origin, block, fetched, queue, received, parsed>>

-----------------------------------------------------------------------------
(* The node (external): a response to getBlock. *)

JStr(s) == [str |-> s]
JNum(n) == [num |-> n]
JArr(s, J(_)) == [arr |-> [i \in 1..Len(s) |-> J(s[i])]]

NodeInstruction(i) ==
    [obj |-> [programIdIndex |-> JNum(i.program), accounts |-> JArr(i.accounts, JNum),
              data |-> JStr(i.data), stackHeight |-> JNum(i.depth)]]

NodeInner(g) ==
    [obj |-> [index |-> JNum(g.index), instructions |-> JArr(g.instructions, NodeInstruction)]]

(* uiAmount is null when the amount is zero. *)
NodeBalance(b) ==
    [obj |-> [accountIndex |-> JNum(b.account), mint |-> JStr(b.mint), owner |-> JStr(b.owner),
              programId |-> JStr(TOKEN_PROGRAM),
              uiTokenAmount |-> [obj |->
                [amount |-> JStr("1"), decimals |-> JNum(DecimalsOf[b.mint]),
                 uiAmount |-> IF b.empty THEN Null ELSE JNum(1),
                 uiAmountString |-> JStr("1")]]]]

(* Most errors of a transaction are objects; some are a bare word. *)
NodeErr(err) ==
    CASE err = "none"        -> Null
      [] err = "instruction" -> [obj |-> [InstructionError |-> [arr |-> <<JNum(0), JStr("Custom")>>]]]
      [] err = "rent"        -> [obj |-> [InsufficientFundsForRent |-> [obj |-> [account_index |-> JNum(1)]]]]
      [] OTHER               -> JStr(err)

NodeLookup(l) ==
    [obj |-> [accountKey |-> JStr(l.table), readonlyIndexes |-> JArr(l.readonly, JNum),
              writableIndexes |-> JArr(l.writable, JNum)]]

(* A legacy message has no addressTableLookups. *)
NodeMessage(t) ==
    LET legacy == [accountKeys |-> JArr(t.keys, JStr), recentBlockhash |-> JStr("hash"),
                   instructions |-> JArr(t.outer, NodeInstruction)]
    IN  [obj |-> IF t.lookups = <<>> THEN legacy
                 ELSE [k \in DOMAIN legacy \cup {"addressTableLookups"} |->
                         IF k \in DOMAIN legacy THEN legacy[k] ELSE JArr(t.lookups, NodeLookup)]]

NodeTx(t) ==
    [obj |->
      [meta |-> [obj |->
         [err |-> NodeErr(t.err), fee |-> JNum(5000), computeUnitsConsumed |-> JNum(1),
          innerInstructions |-> JArr(t.inner, NodeInner),
          logMessages |-> IF t.logs = {} THEN Null ELSE JArr(Items(t.logs), JStr),
          postBalances |-> JArr(<<1>>, JNum), preBalances |-> JArr(<<1>>, JNum),
          postTokenBalances |-> JArr(t.post, NodeBalance),
          preTokenBalances |-> JArr(t.pre, NodeBalance),
          loadedAddresses |-> [obj |-> [readonly |-> JArr(t.readonly, JStr),
                                        writable |-> JArr(t.writable, JStr)]]]],
       transaction |-> [obj |->
         [message |-> NodeMessage(t), signatures |-> JArr(<<"signature">>, JStr)]]]]

NodeBlock(txs) ==
    [obj |-> [result |-> [obj |-> [blockTime |-> JNum(7), parentSlot |-> JNum(1),
                                   transactions |-> JArr(txs, NodeTx)]]]]

(* A slot without a block is an error, one not confirmed yet a null. *)
NodeError == [obj |-> [error |-> [obj |-> [code |-> JNum(-32009), message |-> JStr("skipped")]]]]
NodeNull  == [obj |-> [result |-> Null]]

-----------------------------------------------------------------------------
(* The stream: grpcSubscribe translates a protobuf message, in which a     *)
(* repeated field that is empty is nil.  Failed transactions are filtered. *)

Repeated(s) == IF s = <<>> THEN {} ELSE {s}

convertToInstructions(ixs) ==
    {[i \in 1..Len(ixs) |-> [programIdIndex |-> ixs[i].program, data |-> ixs[i].data,
                             accounts |-> {ixs[i].accounts}]]}

convertToTokenBalanceSlice(bs) ==
    {[i \in 1..Len(bs) |->
        [accountIndex |-> bs[i].account, mint |-> bs[i].mint, owner |-> bs[i].owner,
         programId |-> TOKEN_PROGRAM,
         uiTokenAmount |-> [amount |-> "1", decimals |-> DecimalsOf[bs[i].mint],
                            uiAmount |-> IF bs[i].empty THEN 0 ELSE 1,
                            uiAmountString |-> "1"]]]}

StreamLookups(t) ==
    [i \in 1..Len(t.lookups) |-> [accountKey |-> t.lookups[i].table,
                                  writableIndexes |-> {t.lookups[i].writable},
                                  readonlyIndexes |-> {t.lookups[i].readonly}]]

StreamLoaded(t) == [readonly |-> {t.readonly}, writable |-> {t.writable}]

StreamTx(t) ==
    [meta |-> [err |-> {[InstructionError |-> <<Null, Null>>]}, fee |-> 5000,
               innerInstructions |-> {[g \in 1..Len(t.inner) |->
                   [index |-> t.inner[g].index,
                    instructions |-> convertToInstructions(t.inner[g].instructions)]]},
               logMessages |-> Repeated(Items(t.logs)),
               postBalances |-> {<<1>>}, preBalances |-> {<<1>>},
               postTokenBalances |-> convertToTokenBalanceSlice(t.post),
               preTokenBalances |-> convertToTokenBalanceSlice(t.pre),
               loadedAddresses |-> StreamLoaded(t)],
     transaction |-> [message |-> [accountKeys |-> Repeated(t.keys),
                                   addressTableLookups |-> Repeated(StreamLookups(t)),
                                   recentBlockhash |-> "hash",
                                   instructions |-> convertToInstructions(t.outer)],
                      signatures |-> {<<"signature">>}]]

-----------------------------------------------------------------------------
Init == /\ pc = "idle" /\ origin = "node" /\ block = <<>>
        /\ fetched = {} /\ queue = {} /\ received = {} /\ parsed = <<>>

(* GetBlockMessage: a response that does not decode is an error, and       *)
(* HandleBackFill then ends the process.                                   *)
Respond(j, txs) ==
    /\ pc = "idle"
    /\ origin' = "node" /\ block' = txs
    /\ IF Fits(Struct("HTTPBlockMessage"), j)
       THEN pc' = "fetched"   /\ fetched' = {Decode(Struct("HTTPBlockMessage"), j)}
       ELSE pc' = "undecoded" /\ fetched' = {}
    /\ UNCHANGED <<queue, received, parsed>>

GetBlockMessage ==
    \/ \E txs \in Blocks : Respond(NodeBlock(txs), txs)
    \/ Respond(NodeError, <<>>)
    \/ Respond(NodeNull, <<>>)

AddToSolanaQueue(data) == queue' = {Encode(Struct("BlockData"), data)}

(* HandleBackFill, once the block is fetched and marked: an error skips    *)
(* it, and without error and result the process ends.                      *)
HandleBackFill ==
    /\ pc = "fetched"
    /\ \E m \in fetched :
        \/ m.error # {} /\ pc' = "skipped" /\ UNCHANGED queue
        \/ m.error = {} /\ m.result = {} /\ pc' = "dead" /\ UNCHANGED queue
        \/ /\ m.error = {}
           /\ \E r \in m.result :
                AddToSolanaQueue([transactions |-> r.transactions, block |-> 1,
                                  blockTime |-> r.blockTime, ignoreWS |-> TRUE])
           /\ pc' = "queued"
    /\ UNCHANGED <<origin, block, fetched, received, parsed>>

(* grpcSubscribe and HandleTransaction: a message is one transaction. *)
GrpcSubscribe ==
    /\ pc = "idle"
    /\ \E txs \in Blocks : \E i \in 1..Len(txs) :
        /\ txs[i].err = "none"
        /\ block' = <<txs[i]>>
        /\ AddToSolanaQueue([transactions |-> {<<StreamTx(txs[i])>>}, block |-> 1,
                             blockTime |-> 7, ignoreWS |-> FALSE])
    /\ origin' = "stream" /\ pc' = "queued"
    /\ UNCHANGED <<fetched, received, parsed>>

(* solanaWorker: what does not decode is dropped (nack without requeue). *)
Receive ==
    /\ pc = "queued"
    /\ \E j \in queue :
        IF Fits(Struct("BlockData"), j)
        THEN pc' = "received" /\ received' = {Decode(Struct("BlockData"), j)}
        ELSE pc' = "nacked" /\ UNCHANGED received
    /\ queue' = {}
    /\ UNCHANGED <<origin, block, fetched, parsed>>

Txs(data) == Items(data.transactions)

ProcessTransaction(tx) ==
    LET logs == GetLogs(Items(tx.meta.logMessages))
    IN  [parse |-> ParseTransaction(tx), logs |-> logs,
         launched |-> HandlePumpFunNewToken(logs, PUMPFUN)]

Process ==
    /\ pc = "received"
    /\ \E b \in received :
         parsed' = [i \in 1..Len(Txs(b)) |-> ProcessTransaction(Txs(b)[i])]
    /\ pc' = IF \E i \in 1..Len(parsed') : parsed'[i].parse.outcome = "dies"
             THEN "dead" ELSE "processed"
    /\ UNCHANGED <<origin, block, fetched, queue, received>>

(* The next block; a process that has ended is started again. *)
Again ==
    /\ pc \in {"undecoded", "skipped", "dead", "nacked", "processed"}
    /\ pc' = "idle" /\ origin' = "node" /\ block' = <<>>
    /\ fetched' = {} /\ queue' = {} /\ received' = {} /\ parsed' = <<>>

Next == GetBlockMessage \/ HandleBackFill \/ GrpcSubscribe \/ Receive \/ Process \/ Again

Spec == Init /\ [][Next]_vars

-----------------------------------------------------------------------------
(* What the properties are about: a transaction that was processed, as it  *)
(* happened (t) and as it was parsed (r).                                  *)

Done == pc \in {"processed", "dead"} /\ parsed # <<>>

Indices == IF Done THEN 1..Len(parsed) ELSE {}

AllKeys(t) == t.keys \o t.writable \o t.readonly

(* The worker has all account keys that the instructions refer to. *)
AllVisible(t) == Items(t.logs) # <<>> \/ t.writable \o t.readonly = <<>>

-----------------------------------------------------------------------------
(* The wire. *)

(* HandleBackFill ends the process on a response it cannot decode, and     *)
(* starts with the same block again: the only blocks that can stop it are  *)
(* those with a transaction whose error is a bare word.                    *)
UndecodedOnlyForErr ==
    pc = "undecoded" =>
        \E i \in 1..Len(block) : block[i].err \notin {"none", "instruction", "rent"}

OmitEmpty == {"innerInstructions", "logMessages", "postTokenBalances", "preTokenBalances"}

SameTx(sent, got) ==
    /\ got.transaction = sent.transaction
    /\ \A k \in DOMAIN sent.meta :
        IF k \in OmitEmpty THEN Items(got.meta[k]) = Items(sent.meta[k])
        ELSE got.meta[k] = sent.meta[k]

Sent == IF origin = "stream" THEN <<StreamTx(block[1])>>
        ELSE Items((CHOOSE r \in (CHOOSE m \in fetched : TRUE).result : TRUE).transactions)

(* What the worker decodes (UnmarshalJSON of BlockData) is what was put    *)
(* into the queue (MarshalJSON), field by field, except that an empty list *)
(* may come out as nil: nothing in between is lost, mixed up or refused.   *)
QueueKeepsBlock ==
    /\ pc # "nacked"
    /\ \A b \in received : /\ Len(Txs(b)) = Len(Sent)
                           /\ \A i \in 1..Len(Sent) : SameTx(Sent[i], Txs(b)[i])

OverTheWire(tx) == Decode(Struct("SolanaTx"), Encode(Struct("SolanaTx"), tx))

(* The listener and the backfill give the worker the same transaction: a   *)
(* transaction that succeeded is parsed to the same transfers, tokens and  *)
(* logs on both ways.                                                      *)
PathsAgree ==
    \A i \in Indices :
        origin = "stream" =>
            parsed[i] = ProcessTransaction(
                          OverTheWire(Decode(Struct("SolanaTx"), NodeTx(block[i]))))

(* A transaction that ends the process (an index out of range, log.Fatalf  *)
(* in the decoders) comes back with its block: it is either one that the   *)
(* chain refused, or one whose loaded addresses the parser does not see    *)
(* because there is no log (getAllAccountKeys).                            *)
Survives ==
    \A i \in Indices :
        parsed[i].parse.outcome = "dies" => block[i].err # "none" \/ ~AllVisible(block[i])

(* A block reaches the worker as it was sent, on both ways through         *)
(* AddToSolanaQueue.                                                       *)
DeliveredIntact == QueueKeepsBlock /\ PathsAgree

(* Which blocks end the backfill or the tx processor, again and again.     *)
OnlyTheseStop == UndecodedOnlyForErr /\ Survives

-----------------------------------------------------------------------------
(* The transfers. *)

TrueProgram(t, ix) == AllKeys(t)[ix.program + 1]

(* What moves tokens or lamports on the chain: transfers, mints and burns; *)
(* mints and burns by MintToChecked and BurnChecked; and the opening and   *)
(* closing of accounts, with the lamports in them.                         *)
Moving == {"move", "checked", "create", "close"}

(* What processInstruction has no case for, although the decoders know it. *)
(* So ParseTransaction does not see tokens that are minted or burned by    *)
(* MintToChecked and BurnChecked.                                          *)
NotHandled == {"checked", "create", "close"}

(* The instructions that do one of these things, by where they are.        *)
Doing(t, kinds) ==
    {[outer |-> o, group |-> 0, ix |-> 0] : o \in {o \in 1..Len(t.outer) : t.outer[o].what \in kinds}}
      \cup UNION {{[outer |-> t.inner[g].index + 1, group |-> g, ix |-> k] :
                     k \in {k \in 1..Len(t.inner[g].instructions) :
                              t.inner[g].instructions[k].what \in kinds}} :
                  g \in 1..Len(t.inner)}

TrueMoves(t) == Doing(t, Moving)

Earlier(p, q) == p.outer < q.outer \/ (p.outer = q.outer /\ p.ix < q.ix)

(* Every move of a transaction whose keys are visible is a transfer of the *)
(* result exactly once, in the order of execution, except exactly those    *)
(* that processInstruction does not handle; and nothing else is.           *)
EveryMoveOnce ==
    \A i \in Indices :
        LET t  == block[i]
            tr == parsed[i].parse.transfers
        IN  (AllVisible(t) /\ parsed[i].parse.outcome = "parsed") =>
              /\ {tr[n].at : n \in 1..Len(tr)} = TrueMoves(t) \ Doing(t, NotHandled)
              /\ \A n \in 2..Len(tr) : Earlier(tr[n - 1].at, tr[n].at)

(* A call is under way at an inner instruction when everything in between  *)
(* is deeper.  0 is the outer instruction.                                 *)
DepthAt(t, p, j) == IF j = 0 THEN 1 ELSE t.inner[p.group].instructions[j].depth

UnderWay(t, p, j) == \A m \in (j + 1)..p.ix : DepthAt(t, p, m) > DepthAt(t, p, j)

IxAt(t, p, j) == IF j = 0 THEN t.outer[p.outer] ELSE t.inner[p.group].instructions[j]

(* The swaps before a transfer, and those of them that make it. *)
SwapsBefore(t, p) == {j \in 0..(p.ix - 1) : IxAt(t, p, j).what = "swap"}
SwapsOf(t, p)     == {j \in SwapsBefore(t, p) : UnderWay(t, p, j)}

Highest(S) == CHOOSE j \in S : \A k \in S : k <= j

(* A transfer made by a swap is attributed to it (findParentProgram), with *)
(* its accounts, unless another swap ran inside that one before.           *)
ExchangeNamed ==
    \A i \in Indices : \A n \in 1..Len(parsed[i].parse.transfers) :
        LET t   == block[i]
            tr  == parsed[i].parse.transfers[n]
            own == SwapsOf(t, tr.at)
        IN  (AllVisible(t) /\ own # {} /\ Highest(own) = Highest(SwapsBefore(t, tr.at))) =>
              /\ tr.parent.program = TrueProgram(t, IxAt(t, tr.at, Highest(own)))
              /\ tr.parent.accounts = {IxAt(t, tr.at, Highest(own)).accounts}

(* A transfer that no swap makes is attributed to an exchange only when a  *)
(* swap of the same outer instruction is over: a fee or a refund that a    *)
(* router pays after the swap counts as the swap's.                        *)
StraysFollowASwap ==
    \A i \in Indices : \A n \in 1..Len(parsed[i].parse.transfers) :
        LET t  == block[i]
            tr == parsed[i].parse.transfers[n]
        IN  (SwapsOf(t, tr.at) = {} /\ tr.parent.program # "") => SwapsBefore(t, tr.at) # {}

(* The event by which HandlePumpFunSwaps reads a trade is that of the      *)
(* trade the transfer belongs to, however many trades a transaction makes. *)
EventOfOwnTrade ==
    \A i \in Indices : \A n \in 1..Len(parsed[i].parse.transfers) :
        LET t   == block[i]
            tr  == parsed[i].parse.transfers[n]
            own == SwapsOf(t, tr.at)
            c   == Highest(own)
            all == t.inner[tr.at.group].instructions
            events == {e \in 1..Len(all) :
                         /\ all[e].what = "event" /\ all[e].depth = DepthAt(t, tr.at, c) + 1
                         /\ UnderWay(t, [tr.at EXCEPT !.ix = e], c)}
        IN  (/\ AllVisible(t) /\ own # {} /\ tr.at.ix # 0
             /\ TrueProgram(t, IxAt(t, tr.at, c)) = PUMPFUN) =>
                \E e \in events : tr.event = all[e].data

(* Which trade findParentProgram and findPumpFunSwapEvent take a transfer  *)
(* to be a leg of.                                                         *)
AttributionKnown == ExchangeNamed /\ StraysFollowASwap /\ EventOfOwnTrade

-----------------------------------------------------------------------------
(* The accounts of a transfer. *)

HasBalance(t, account) == \E n \in 1..Len(t.post) : AllKeys(t)[t.post[n].account + 1] = account

MintsSeen(t) == {b.mint : b \in ToSet(t.post) \cup ToSet(t.pre)}

TokenTransfers(i) ==
    {tr \in ToSet(parsed[i].parse.transfers) : tr.type # "native"}

(* The mint of a transfer is the mint of its accounts, or is not known; it *)
(* is known when the destination still has a balance.                      *)
MintsTrue ==
    \A i \in Indices : \A tr \in TokenTransfers(i) :
        LET mints == {MintOf[a] : a \in {tr.fromAccount, tr.toAccount} \ {""}}
        IN  /\ tr.mint \in mints \cup {""}
            /\ (AllVisible(block[i]) /\ HasBalance(block[i], tr.toAccount)) => tr.mint # ""

(* The user of an account that has a balance after the transaction is its  *)
(* owner.  Of one that is closed it may be whoever paid for the account.   *)
UsersTrue ==
    \A i \in Indices : \A tr \in TokenTransfers(i) :
        \A e \in {<<tr.fromAccount, tr.from>>, <<tr.toAccount, tr.to>>} :
            e[1] # "" =>
                /\ e[2] \in {Owner[e[1]], Payer[e[1]], ""}
                /\ AllVisible(block[i]) /\ HasBalance(block[i], e[1]) => e[2] = Owner[e[1]]

(* The amount is scaled by the decimals of the mint whenever the mint is   *)
(* known and any balance mentions it.  (When it is not known, the amount   *)
(* is that of no decimals, or, after a lookup, ten times that.)            *)
DecimalsTrue ==
    \A i \in Indices : \A tr \in TokenTransfers(i) :
        IF tr.mint = "" THEN tr.decimals \in {0, -1}
        ELSE tr.mint \in MintsSeen(block[i]) => tr.decimals = DecimalsOf[tr.mint]

(* What ParseTransaction says of a transfer: that it was, of which mint,   *)
(* between whom and how much.  Checked mints and burns are left out.       *)
TransfersTrue == EveryMoveOnce /\ MintsTrue /\ UsersTrue /\ DecimalsTrue

(* A token initialized in the transaction is stored under the name of its  *)
(* own metadata, wherever these are, and without one if there are none.    *)
CreatedNamed ==
    \A i \in Indices :
        LET t   == block[i]
            all == ToSet(t.outer) \cup UNION {ToSet(g.instructions) : g \in ToSet(t.inner)}
            Names(mint) == {Payload[ix.data].name :
                              ix \in {ix \in all : /\ ix.what = "metadata"
                                                   /\ AllKeys(t)[ix.accounts[2] + 1] = mint}}
        IN  \A c \in ToSet(parsed[i].parse.created) :
                IF Names(c.address) \ {""} = {} THEN c.name = ""
                ELSE c.name \in Names(c.address) \ {""}

(* What ParseTransaction returns for a transaction is true of it: its      *)
(* transfers, and the tokens it created.                                   *)
ResultTrue == TransfersTrue /\ CreatedNamed

-----------------------------------------------------------------------------
(* The log. *)

Messages(log) == {k \in 1..Len(log) : LogLine[log[k]].says \in {"log", "data"}}

(* The depth of calls after a line, and the least depth from there on. *)
LogDepth(log, k) ==
    Cardinality({m \in 1..k : LogLine[log[m]].says = "invoke"})
      - Cardinality({m \in 1..k : LogLine[log[m]].says = "success"})
Lowest(log, k) ==
    CHOOSE d \in 0..Len(log) :
        /\ \E m \in k..Len(log) : LogDepth(log, m) = d
        /\ \A m \in k..Len(log) : LogDepth(log, m) >= d

(* The messages GetLogs can keep: all of a log that is complete; of one    *)
(* that is cut off or ends in a failure, those of finished outer calls and *)
(* of the innermost call.                                                  *)
Kept(log) == {k \in Messages(log) : Lowest(log, k) \in {0, LogDepth(log, Len(log))}}

(* No message of a program contains the word "invoke". *)
Plain(log) == \A k \in 1..Len(log) : LogLine[log[k]].says = "invoke" => LogLine[log[k]].by = ""

(* GetLogs lists every message it keeps once, under the program that       *)
(* logged it.                                                              *)
LogsAttributed ==
    \A i \in Indices :
        LET log   == Items(block[i].logs)
            found == checkLogs(parsed[i].logs)
        IN  Plain(log) =>
              /\ \A m \in ToSet(found) : m.program = LogLine[m.line].by
              /\ \A l \in ToSet(log) :
                   Cardinality({n \in 1..Len(found) : found[n].line = l})
                     = Cardinality({k \in Kept(log) : log[k] = l})

(* The tokens reported as launched by PumpFun are those that PumpFun       *)
(* itself logged, and all of them when the log is complete.                *)
LaunchesFound ==
    \A i \in Indices :
        LET log  == Items(block[i].logs)
            By(K) == {LogLine[log[k]].launch : k \in {k \in K : LogLine[log[k]].by = PUMPFUN}}
        IN  Plain(log) => ToSet(parsed[i].launched) = By(Kept(log)) \ {""}

(* What GetLogs and HandlePumpFunNewToken say of the log.                  *)
LogsTrue == LogsAttributed /\ LaunchesFound
=============================================================================
