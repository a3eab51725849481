------------------------ MODULE BlockProcessorProofs ------------------------
(***************************************************************************)
(* Proofs about BlockProcessor: for every block, every number of tx        *)
(* workers, every number of deaths and errors.                             *)
(***************************************************************************)
EXTENDS BlockProcessor, SwapHandler, ListTheorems, FiniteSetTheorems, SequenceTheorems, TLAPS

WorkerType == [pc : {"range", "process", "send", "done"}, tx : Txs \union {NoTx}]

(* The types that do not depend on the others; TypeOK follows.             *)
Types == /\ fed \in 0..Len(Block)
         /\ txChan \in Seq(Txs)
         /\ txClosed \in {"open", "closed"}
         /\ worker \in [TxWorkers -> WorkerType]
         /\ swapsChan \in {"open", "closed"}
         /\ batch \in [Txs -> 0..1]
         /\ pc \in {"collect", "insert", "ack", "acked", "returned"}
         /\ stored \subseteq Txs
         /\ deaths \in 0..MaxDeaths /\ errors \in 0..MaxErrors

(* txChan holds the last of what was fed; the ones before it are taken.    *)
Taken == fed - Len(txChan)

Holds(w) == worker[w].pc \in {"process", "send"}

(* Every transaction is in one place: with the feeder, on txChan, with one *)
(* tx worker or in the batch.                                              *)
OnePlace == /\ Taken >= 0
            /\ \A i \in 1..Len(txChan) : txChan[i] = Taken + i
            /\ \A w \in TxWorkers : Holds(w) => /\ worker[w].tx \in 1..Taken
                                                /\ batch[worker[w].tx] = 0
            /\ \A w, v \in TxWorkers : Holds(w) /\ Holds(v) /\ worker[w].tx = worker[v].tx => w = v
            /\ \A t \in Txs : t > Taken => batch[t] = 0
            /\ \A t \in 1..Taken : batch[t] = 1 \/ \E w \in TxWorkers : Holds(w) /\ worker[w].tx = t

Running == {w \in TxWorkers : worker[w].pc # "done"}

(* What the closing of a channel says about those before it.               *)
Closed == /\ txClosed = "closed" => fed = Len(Block)
          /\ \A w \in TxWorkers : worker[w].pc = "done" => txClosed = "closed" /\ txChan = <<>>
          /\ wg = Cardinality(Running)
          /\ swapsChan = "closed" => Running = {}
          /\ pc # "collect" => swapsChan = "closed"

Stored == pc \in {"ack", "acked"} => \A t \in Txs : Block[t].swaps > 0 => t \in stored

HandOverInv == Types /\ OnePlace /\ Closed /\ Stored

(* The transactions a tx worker has run ProcessTransaction for.            *)
Processed(t) == batch[t] = 1 \/ \E w \in TxWorkers : worker[w].pc = "send" /\ worker[w].tx = t

StatementType == [op : {"launched", "created", "skip", "burn", "mint"}, token : Tokens, amount : Nat]

TableTypes == /\ rows \in [Tokens -> {"absent", "launched", "created"}]
              /\ supply \in [Tokens -> Int]
              /\ cut \subseteq Txs /\ failed \subseteq Tokens
              /\ writer \in [Txs -> Seq(StatementType)]

Bare(t) == ToSet(Block[t].created) \ ToSet(Block[t].launched)

(* The insert of every token a processed transaction creates was executed  *)
(* or tried, or is still to come, or its writer died after the ack.        *)
RowsKnown ==
    \A t \in Txs : Processed(t) =>
        \A k \in Creates(t) :
            \/ rows[k] # "absent"
            \/ \E j \in 1..Len(writer[t]) : /\ writer[t][j].token = k
                                            /\ writer[t][j].op \in {"launched", "created"}
            \/ pc = "acked" /\ t \in cut
            \/ k \in failed

(* Bare mints come only from transactions that do not launch them.         *)
BareOnly == /\ \A t \in Txs : \A j \in 1..Len(writer[t]) :
                  writer[t][j].op = "created" => writer[t][j].token \in Bare(t)
            /\ \A k \in Tokens : rows[k] = "created" => \E t \in Txs : k \in Bare(t)

TableInv == TableTypes /\ RowsKnown /\ BareOnly

IInv == HandOverInv /\ TableInv

-----------------------------------------------------------------------------
(* The initial state.                                                      *)
LEMMA HandOverInit == Init => HandOverInv
<1> SUFFICES ASSUME Init PROVE HandOverInv
  OBVIOUS
<1> USE BlockAssumption DEF Init
<1>0. Len(Block) \in Nat
  OBVIOUS
<1>1. \A w \in TxWorkers : worker[w] = Waiting /\ worker[w].pc = "range"
  BY DEF Waiting
<1>2. Types
  BY <1>0 DEF Types, WorkerType, Waiting
<1>3. Running = TxWorkers
  BY <1>1 DEF Running
<1>4. Closed
  BY <1>1, <1>3 DEF Closed
<1>5. OnePlace
  BY <1>1 DEF OnePlace, Taken, Holds
<1> QED BY <1>2, <1>4, <1>5 DEF HandOverInv, Stored

(* A whole block has been handed over once swapsChan is closed.            *)
LEMMA ClosedIsWhole ==
  ASSUME HandOverInv, swapsChan = "closed"
  PROVE  \A t \in Txs : batch[t] = 1
<1> USE DEF HandOverInv
<1>1. PICK w \in TxWorkers : TRUE
  BY BlockAssumption
<1>2. \A v \in TxWorkers : worker[v].pc = "done"
  BY DEF Closed, Running
<1>3. txChan = <<>> /\ fed = Len(Block)
  BY <1>1, <1>2 DEF Closed
<1>4. Taken = Len(Block) /\ Len(Block) \in Nat
  BY <1>3, BlockAssumption DEF Taken
<1> QED BY <1>2, <1>4 DEF OnePlace, Holds, Txs

(* The invariant says what the run checks of the hand-over.                *)
LEMMA HandOverImplies == HandOverInv /\ TableInv => HandOverSafe
<1> SUFFICES ASSUME HandOverInv, TableInv PROVE HandOverSafe
  OBVIOUS
<1> USE DEF HandOverInv
<1>1. NeverSendsOnClosed
  BY DEF NeverSendsOnClosed, Closed, Running
<1>2. BatchIsComplete
  BY ClosedIsWhole DEF BatchIsComplete, Closed, Stored
<1>3. wg \in 0..Cardinality(TxWorkers)
  <2>1. Running \subseteq TxWorkers
    BY DEF Running
  <2>2. IsFiniteSet(Running) /\ Cardinality(Running) <= Cardinality(TxWorkers)
    BY <2>1, BlockAssumption, FS_Subset
  <2>3. Cardinality(Running) \in Nat /\ Cardinality(TxWorkers) \in Nat
    BY <2>2, BlockAssumption, FS_CardinalityType
  <2> QED BY <2>2, <2>3 DEF Closed
<1>4. Len(txChan) <= Len(Block) /\ batch \in [Txs -> Nat]
  <2>1. Len(txChan) \in Nat /\ Len(Block) \in Nat
    BY BlockAssumption DEF Types
  <2> QED BY <2>1 DEF OnePlace, Taken, Types
<1>5. TypeOK
  BY <1>3, <1>4 DEF TypeOK, Types, WorkerType, TableInv, TableTypes
<1> QED BY <1>1, <1>2, <1>5 DEF HandOverSafe

(* A step that leaves the channels and their goroutines alone.             *)
LEMMA HandOverFrame ==
  ASSUME HandOverInv, UNCHANGED <<fed, txChan, txClosed, worker, wg, swapsChan, batch>>,
         stored \subseteq stored', stored' \subseteq Txs,
         deaths' \in 0..MaxDeaths, errors' \in 0..MaxErrors,
         pc' \in {"collect", "insert", "ack", "acked", "returned"},
         pc' # "collect" => swapsChan = "closed",
         Stored'
  PROVE  HandOverInv'
<1> USE DEF HandOverInv
<1>1. Types'
  BY DEF Types
<1>2. OnePlace'
  BY DEF OnePlace, Taken, Holds
<1>3. Closed'
  BY DEF Closed, Running
<1> QED BY <1>1, <1>2, <1>3

(* The feeder keeps it.                                                    *)
LEMMA FeederStep == ASSUME HandOverInv, Feeder PROVE HandOverInv'
<1> USE DEF HandOverInv
<1>0. Len(Block) \in Nat /\ Len(txChan) \in Nat /\ fed \in Nat
  BY BlockAssumption DEF Types
<1>1. CASE Feed
  <2>1. /\ fed < Len(Block) /\ fed' = fed + 1 /\ txChan' = Append(txChan, fed + 1)
        /\ UNCHANGED <<txClosed, worker, wg, swapsChan, batch, pc, stored, deaths, errors>>
    BY <1>1 DEF Feed
  <2>2. fed + 1 \in Txs
    BY <1>0, <2>1 DEF Txs
  <2>3. /\ txChan' \in Seq(Txs) /\ Len(txChan') = Len(txChan) + 1
        /\ txChan'[Len(txChan) + 1] = fed + 1
        /\ \A i \in 1..Len(txChan) : txChan'[i] = txChan[i]
    BY <2>1, <2>2, AppendProperties DEF Types
  <2>4. Taken' = Taken /\ Taken \in Int
    BY <1>0, <2>1, <2>3 DEF Taken
  <2>5. Types'
    BY <1>0, <2>1, <2>3 DEF Types
  <2>6. OnePlace'
    <3>1. \A i \in 1..Len(txChan') : txChan'[i] = Taken' + i
      <4>1. \A i \in 1..Len(txChan') : i \in 1..Len(txChan) \/ i = Len(txChan) + 1
        BY <1>0, <2>3
      <4>2. fed + 1 = Taken + (Len(txChan) + 1)
        BY <1>0 DEF Taken
      <4> QED BY <2>3, <2>4, <4>1, <4>2 DEF OnePlace
    <3> HIDE DEF Taken
    <3> QED BY <2>1, <2>4, <3>1 DEF OnePlace, Holds
  <2>7. Closed'
    <3>1. txClosed = "open"
      BY <1>0, <2>1 DEF Closed, Types
    <3> QED BY <2>1, <3>1 DEF Closed, Running
  <2> QED BY <2>1, <2>5, <2>6, <2>7 DEF Stored
<1>2. CASE CloseTx
  <2>1. /\ fed = Len(Block) /\ txClosed' = "closed"
        /\ UNCHANGED <<fed, txChan, worker, wg, swapsChan, batch, pc, stored, deaths, errors>>
    BY <1>2 DEF CloseTx
  <2>2. Types'
    BY <2>1 DEF Types
  <2>3. OnePlace'
    BY <2>1 DEF OnePlace, Taken, Holds
  <2>4. Closed' /\ Stored'
    BY <2>1 DEF Closed, Running, Stored
  <2> QED BY <2>2, <2>3, <2>4
<1> QED BY <1>1, <1>2 DEF Feeder

(* A tx worker takes a transaction off txChan.                             *)
LEMMA TakeStep == ASSUME HandOverInv, NEW w \in TxWorkers, TakeTx(w) PROVE HandOverInv'
<1> USE DEF HandOverInv
<1> DEFINE t == Head(txChan)
<1>1. /\ worker[w].pc = "range" /\ txChan # <<>> /\ txChan' = Tail(txChan)
      /\ worker' = [worker EXCEPT ![w] = [pc |-> "process", tx |-> t]]
      /\ UNCHANGED <<fed, txClosed, wg, swapsChan, batch, pc, stored, deaths, errors>>
  BY DEF TakeTx
<1>2. /\ Len(txChan) \in Nat /\ Len(txChan) >= 1 /\ fed \in Nat /\ Len(Block) \in Nat
      /\ txChan' \in Seq(Txs) /\ Len(txChan') = Len(txChan) - 1
      /\ t = txChan[1] /\ t \in Txs
  BY <1>1, BlockAssumption DEF Types
<1>3. \A i \in 1..Len(txChan') : i + 1 \in 1..Len(txChan) /\ txChan'[i] = txChan[i + 1]
  BY <1>1, <1>2 DEF Types
<1>4. Taken' = Taken + 1 /\ Taken \in Int /\ t = Taken + 1 /\ Taken \in Nat
  <2>1. Taken' = Taken + 1 /\ Taken \in Int
    BY <1>1, <1>2 DEF Taken
  <2>2. 1 \in 1..Len(txChan)
    BY <1>2
  <2> QED BY <1>2, <2>1, <2>2 DEF OnePlace
<1> HIDE DEF t
<1>5. /\ worker'[w].pc = "process" /\ worker'[w].tx = t
      /\ \A v \in TxWorkers : v # w => worker'[v] = worker[v]
      /\ worker' \in [TxWorkers -> WorkerType]
  <2>1. [pc |-> "process", tx |-> t] \in WorkerType
    BY <1>2 DEF WorkerType
  <2> QED BY <1>1, <2>1 DEF Types
<1>6. Types'
  BY <1>1, <1>2, <1>5 DEF Types
<1>7. \A v \in TxWorkers : Holds(v)' <=> v = w \/ Holds(v)
  BY <1>5 DEF Holds
<1>8. OnePlace'
  <2>1. \A i \in 1..Len(txChan') : txChan'[i] = Taken' + i
    <3> SUFFICES ASSUME NEW i \in 1..Len(txChan') PROVE txChan'[i] = Taken' + i
      OBVIOUS
    <3>1. txChan[i + 1] = Taken + (i + 1)
      BY <1>3 DEF OnePlace
    <3> QED BY <1>2, <1>3, <1>4, <3>1
  <2>2. \A v \in TxWorkers : Holds(v)' => worker'[v].tx \in 1..Taken' /\ batch'[worker'[v].tx] = 0
    <3>1. batch[t] = 0 /\ t \in 1..Taken'
      BY <1>2, <1>4 DEF OnePlace
    <3>2. \A v \in TxWorkers : v # w /\ Holds(v)' => worker[v].tx \in 1..Taken' /\ batch[worker[v].tx] = 0
      BY <1>4, <1>7 DEF OnePlace
    <3> QED BY <1>1, <1>5, <3>1, <3>2
  <2>3. \A u, v \in TxWorkers : Holds(u)' /\ Holds(v)' /\ worker'[u].tx = worker'[v].tx => u = v
    <3>1. \A v \in TxWorkers : Holds(v) => worker[v].tx # t
      BY <1>4 DEF OnePlace
    <3> QED BY <1>5, <1>7, <3>1 DEF OnePlace
  <2>4. \A x \in Txs : x > Taken' => batch'[x] = 0
    <3>1. \A x \in Txs : x \in Int
      BY DEF Txs
    <3> QED BY <1>1, <1>4, <3>1 DEF OnePlace
  <2>5. \A x \in 1..Taken' : batch'[x] = 1 \/ \E v \in TxWorkers : Holds(v)' /\ worker'[v].tx = x
    <3> SUFFICES ASSUME NEW x \in 1..Taken', batch[x] # 1
                 PROVE  \E v \in TxWorkers : Holds(v)' /\ worker'[v].tx = x
      BY <1>1
    <3>1. CASE x = t
      BY <1>5, <1>7, <3>1
    <3>2. CASE x # t
      <4>1. x \in 1..Taken
        BY <1>4, <3>2
      <4>2. PICK v \in TxWorkers : Holds(v) /\ worker[v].tx = x
        BY <4>1 DEF OnePlace
      <4>3. v # w
        BY <1>1, <4>2 DEF Holds
      <4> QED BY <1>5, <1>7, <4>2, <4>3
    <3> QED BY <3>1, <3>2
  <2>6. Taken' >= 0
    BY <1>4
  <2> QED BY <2>1, <2>2, <2>3, <2>4, <2>5, <2>6 DEF OnePlace
<1>9. Closed'
  <2>1. Running' = Running
    BY <1>1, <1>5 DEF Running
  <2>2. \A v \in TxWorkers : worker[v].pc # "done"
    BY <1>1 DEF Closed
  <2>3. \A v \in TxWorkers : worker'[v].pc # "done"
    BY <1>5, <2>2
  <2> QED BY <1>1, <2>1, <2>3 DEF Closed
<1> QED BY <1>1, <1>6, <1>8, <1>9 DEF Stored

(* A tx worker leaves its range, or is ready to send.                      *)
LEMMA WorkerStep ==
  ASSUME HandOverInv, NEW w \in TxWorkers, WorkerDone(w) \/ ProcessTransaction(w)
  PROVE  HandOverInv'
<1> USE DEF HandOverInv
<1>1. CASE WorkerDone(w)
  <2>1. /\ worker[w].pc = "range" /\ txChan = <<>> /\ txClosed = "closed"
        /\ worker' = [worker EXCEPT ![w].pc = "done"] /\ wg' = wg - 1
        /\ UNCHANGED <<fed, txChan, txClosed, swapsChan, batch, pc, stored, deaths, errors>>
    BY <1>1 DEF WorkerDone
  <2>2. worker' \in [TxWorkers -> WorkerType]
    BY <2>1 DEF Types, WorkerType
  <2>3. /\ worker'[w].pc = "done" /\ worker'[w].tx = worker[w].tx
        /\ \A v \in TxWorkers : v # w => worker'[v] = worker[v]
    BY <2>1 DEF Types, WorkerType
  <2>4. \A v \in TxWorkers : /\ Holds(v)' <=> Holds(v)
                             /\ Holds(v) => worker'[v] = worker[v]
    BY <2>1, <2>3 DEF Holds
  <2>5. OnePlace'
    <3>1. Taken' = Taken
      BY <2>1 DEF Taken
    <3> HIDE DEF Taken
    <3> QED BY <2>1, <2>4, <3>1 DEF OnePlace
  <2>6. Closed'
    <3>1. Running' = Running \ {w} /\ w \in Running
      BY <2>1, <2>3 DEF Running
    <3>2. IsFiniteSet(Running)
      BY BlockAssumption, FS_Subset DEF Running
    <3>3. Cardinality(Running') = Cardinality(Running) - 1
      BY <3>1, <3>2, FS_RemoveElement
    <3>4. swapsChan # "closed"
      BY <3>1 DEF Closed
    <3> QED BY <2>1, <2>3, <3>3, <3>4 DEF Closed
  <2>7. Types' /\ Stored'
    BY <2>1, <2>2 DEF Types, Stored
  <2> QED BY <2>5, <2>6, <2>7
<1>2. CASE ProcessTransaction(w)
  <2>1. /\ worker[w].pc = "process" /\ worker' = [worker EXCEPT ![w].pc = "send"]
        /\ UNCHANGED <<fed, txChan, txClosed, wg, swapsChan, batch, pc, stored, deaths, errors>>
    BY <1>2 DEF ProcessTransaction
  <2>2. worker' \in [TxWorkers -> WorkerType]
    BY <2>1 DEF Types, WorkerType
  <2>3. /\ worker'[w].pc = "send" /\ worker'[w].tx = worker[w].tx
        /\ \A v \in TxWorkers : v # w => worker'[v] = worker[v]
    BY <2>1 DEF Types, WorkerType
  <2>4. \A v \in TxWorkers : (Holds(v)' <=> Holds(v)) /\ worker'[v].tx = worker[v].tx
    BY <2>1, <2>3 DEF Holds
  <2>5. OnePlace'
    <3>1. Taken' = Taken
      BY <2>1 DEF Taken
    <3> HIDE DEF Taken
    <3> QED BY <2>1, <2>4, <3>1 DEF OnePlace
  <2>6. Closed'
    <3>1. Running' = Running
      BY <2>1, <2>3 DEF Running
    <3> QED BY <2>1, <2>3, <3>1 DEF Closed
  <2>7. Types' /\ Stored'
    BY <2>1, <2>2 DEF Types, Stored
  <2> QED BY <2>5, <2>6, <2>7
<1> QED BY <1>1, <1>2

(* The collector receives from a tx worker.                                *)
LEMMA CollectStep == ASSUME HandOverInv, NEW w \in TxWorkers, Collect(w) PROVE HandOverInv'
<1> USE DEF HandOverInv
<1> DEFINE t == worker[w].tx
<1>1. /\ worker[w].pc = "send" /\ swapsChan = "open"
      /\ batch' = [batch EXCEPT ![t] = @ + 1]
      /\ worker' = [worker EXCEPT ![w] = Waiting]
      /\ UNCHANGED <<fed, txChan, txClosed, wg, swapsChan, pc, stored, deaths, errors>>
  BY DEF Collect
<1>2. t \in 1..Taken /\ batch[t] = 0 /\ t \in Txs /\ Holds(w)
  <2>1. Holds(w)
    BY <1>1 DEF Holds
  <2>2. Len(Block) \in Nat /\ fed \in Nat /\ Len(txChan) \in Nat
    BY BlockAssumption DEF Types
  <2>3. Taken <= Len(Block) /\ Taken \in Int
    BY <2>2 DEF Taken, Types
  <2> QED BY <2>1, <2>2, <2>3 DEF OnePlace, Txs
<1>3. batch' \in [Txs -> 0..1] /\ batch'[t] = 1 /\ \A x \in Txs : x # t => batch'[x] = batch[x]
  BY <1>1, <1>2 DEF Types
<1>4. Waiting \in WorkerType /\ Waiting.pc = "range"
  BY DEF Waiting, WorkerType
<1>5. /\ worker' \in [TxWorkers -> WorkerType] /\ worker'[w].pc = "range"
      /\ \A v \in TxWorkers : v # w => worker'[v] = worker[v]
  BY <1>1, <1>4 DEF Types
<1>6. \A v \in TxWorkers : Holds(v)' <=> v # w /\ Holds(v)
  BY <1>5 DEF Holds
<1>7. OnePlace'
  <2>1. Taken' = Taken /\ 1..Taken \subseteq Txs /\ Taken \in Int
    <3>1. Len(Block) \in Nat /\ fed \in Nat /\ Len(txChan) \in Nat
      BY BlockAssumption DEF Types
    <3> QED BY <1>1, <3>1 DEF Taken, Types, Txs
  <2> HIDE DEF Taken, t
  <2>2. \A v \in TxWorkers : v # w /\ Holds(v) => worker[v].tx # t
    BY <1>2 DEF OnePlace, t
  <2>3. \A v \in TxWorkers : Holds(v)' => worker'[v].tx \in 1..Taken' /\ batch'[worker'[v].tx] = 0
    BY <1>3, <1>5, <1>6, <2>1, <2>2 DEF OnePlace
  <2>4. \A u, v \in TxWorkers : Holds(u)' /\ Holds(v)' /\ worker'[u].tx = worker'[v].tx => u = v
    BY <1>5, <1>6 DEF OnePlace
  <2>5. \A x \in Txs : x > Taken' => batch'[x] = 0
    <3>1. ~ (t > Taken)
      BY <1>2, <2>1
    <3> QED BY <1>3, <2>1, <3>1 DEF OnePlace
  <2>6. \A x \in 1..Taken' : batch'[x] = 1 \/ \E v \in TxWorkers : Holds(v)' /\ worker'[v].tx = x
    <3> SUFFICES ASSUME NEW x \in 1..Taken, x # t, batch[x] # 1
                 PROVE  \E v \in TxWorkers : Holds(v)' /\ worker'[v].tx = x
      BY <1>3, <2>1
    <3>1. PICK v \in TxWorkers : Holds(v) /\ worker[v].tx = x
      BY DEF OnePlace
    <3>2. v # w
      BY <3>1 DEF t
    <3> QED BY <1>5, <1>6, <3>1, <3>2
  <2> QED BY <1>1, <2>1, <2>3, <2>4, <2>5, <2>6 DEF OnePlace
<1>8. Closed'
  <2>1. Running' = Running
    BY <1>1, <1>5 DEF Running
  <2> QED BY <1>1, <1>5, <2>1 DEF Closed
<1> QED BY <1>1, <1>3, <1>5, <1>7, <1>8 DEF Types, Stored

(* The closer and the collector keep it.                                   *)
LEMMA CollectorStep == ASSUME HandOverInv, CloseSwaps \/ Collector PROVE HandOverInv'
<1> USE DEF HandOverInv
<1>1. CASE CloseSwaps
  <2>1. /\ wg = 0 /\ swapsChan' = "closed"
        /\ UNCHANGED <<fed, txChan, txClosed, worker, wg, batch, pc, stored, deaths, errors>>
    BY <1>1 DEF CloseSwaps
  <2>2. Running = {}
    <3>1. IsFiniteSet(Running)
      BY BlockAssumption, FS_Subset DEF Running
    <3> QED BY <2>1, <3>1, FS_EmptySet DEF Closed
  <2>3. Closed'
    BY <2>1, <2>2 DEF Closed, Running
  <2>4. OnePlace'
    BY <2>1 DEF OnePlace, Taken, Holds
  <2> QED BY <2>1, <2>3, <2>4 DEF Types, Stored
<1>2. CASE Collected
  <2>1. /\ pc = "collect" /\ swapsChan = "closed" /\ pc' \in {"insert", "ack"}
        /\ pc' = "ack" => HasSwaps = {}
        /\ UNCHANGED <<fed, txChan, txClosed, worker, wg, swapsChan, batch, stored, deaths, errors>>
    BY <1>2 DEF Collected, Goto
  <2>2. \A t \in Txs : batch[t] = 1
    BY <2>1, ClosedIsWhole
  <2>3. Stored'
    BY <2>1, <2>2 DEF Stored, HasSwaps
  <2> QED BY <2>1, <2>3, HandOverFrame DEF Types
<1>3. CASE InsertBatch
  <2>1. /\ pc = "insert" /\ stored' = stored \union HasSwaps /\ pc' = "ack"
        /\ UNCHANGED <<fed, txChan, txClosed, worker, wg, swapsChan, batch, deaths, errors>>
    BY <1>3 DEF InsertBatch, Goto
  <2>2. swapsChan = "closed"
    BY <2>1 DEF Closed
  <2>3. \A t \in Txs : batch[t] = 1
    BY <2>2, ClosedIsWhole
  <2>4. Stored' /\ stored' \subseteq Txs
    BY <2>1, <2>3 DEF Stored, HasSwaps, Types
  <2> QED BY <2>1, <2>2, <2>4, HandOverFrame DEF Types
<1>4. CASE InsertFails
  <2>1. /\ pc = "insert" /\ errors' = errors + 1 /\ errors < MaxErrors /\ pc' = "returned"
        /\ UNCHANGED <<fed, txChan, txClosed, worker, wg, swapsChan, batch, stored, deaths>>
    BY <1>4 DEF InsertFails, Goto, Error
  <2>2. errors' \in 0..MaxErrors
    BY <2>1, BlockAssumption DEF Types
  <2> QED BY <2>1, <2>2, HandOverFrame DEF Types, Closed, Stored
<1>5. CASE Ack
  <2>1. /\ pc = "ack" /\ pc' = "acked"
        /\ UNCHANGED <<fed, txChan, txClosed, worker, wg, swapsChan, batch, stored, deaths, errors>>
    BY <1>5 DEF Ack, Goto
  <2> QED BY <2>1, HandOverFrame DEF Types, Closed, Stored
<1> QED BY <1>1, <1>2, <1>3, <1>4, <1>5 DEF Collector

(* The writers and a death keep it.                                        *)
LEMMA HandOverOthers ==
  ASSUME HandOverInv, Die \/ (\E t \in Txs : Write(t)) \/ UNCHANGED vars
  PROVE  HandOverInv'
<1> USE DEF HandOverInv
<1>1. CASE \E t \in Txs : Write(t)
  <2>1. PICK t \in Txs : Write(t)
    BY <1>1
  <2>2. UNCHANGED <<channelVars, stored, deaths>> /\ (errors' = errors \/ Error)
    BY <2>1 DEF Write, InsertToken, SkipToken, UpdateTokenSupply, WriteFails
  <2>3. errors' \in 0..MaxErrors
    BY <2>2, BlockAssumption DEF Error, Types
  <2> QED BY <2>2, <2>3, HandOverFrame DEF channelVars, Types, Closed, Stored
<1>2. CASE UNCHANGED vars
  BY <1>2, HandOverFrame DEF vars, channelVars, Types, Closed, Stored
<1>3. CASE Die /\ pc = "acked"
  <2>1. UNCHANGED <<channelVars, stored, errors>> /\ deaths' \in 0..MaxDeaths
    BY <1>3, BlockAssumption DEF Die, Types
  <2> QED BY <2>1, HandOverFrame DEF channelVars, Types, Closed, Stored
<1>4. CASE Die /\ pc # "acked"
  <2>1. /\ fed' = 0 /\ txChan' = <<>> /\ txClosed' = "open"
        /\ worker' = [w \in TxWorkers |-> Waiting]
        /\ wg' = Cardinality(TxWorkers) /\ swapsChan' = "open"
        /\ batch' = [t \in Txs |-> 0] /\ pc' = "collect"
        /\ UNCHANGED <<stored, errors>> /\ deaths' \in 0..MaxDeaths
    BY <1>4, BlockAssumption DEF Die, Types
  <2>2. Waiting \in WorkerType /\ Waiting.pc = "range" /\ Len(Block) \in Nat
    BY BlockAssumption DEF Waiting, WorkerType
  <2>3. \A w \in TxWorkers : worker'[w].pc = "range"
    BY <2>1, <2>2
  <2>4. Types'
    BY <2>1, <2>2 DEF Types
  <2>5. OnePlace'
    BY <2>1, <2>3 DEF OnePlace, Taken, Holds
  <2>6. Closed'
    <3>1. Running' = TxWorkers
      BY <2>3 DEF Running
    <3> QED BY <2>1, <2>3, <3>1 DEF Closed
  <2> QED BY <2>1, <2>4, <2>5, <2>6 DEF Stored
<1> QED BY <1>1, <1>2, <1>3, <1>4

(* Every step keeps the invariant of the hand-over.                        *)
LEMMA HandOverStep == HandOverInv /\ [Next]_vars => HandOverInv'
<1> SUFFICES ASSUME HandOverInv, [Next]_vars PROVE HandOverInv'
  OBVIOUS
<1> QED BY FeederStep, TakeStep, WorkerStep, CollectStep, CollectorStep, HandOverOthers
        DEF Next, TxWorker

(* The parts of a transaction.                                             *)
LEMMA BlockFacts ==
  ASSUME NEW t \in Txs
  PROVE  /\ Block[t].launched \in Seq(Tokens) /\ Block[t].created \in Seq(Tokens)
         /\ Block[t].burns \in Seq(Changes) /\ Block[t].mints \in Seq(Changes)
<1> DEFINE R == [swaps : Nat, launched : Seq(Tokens), created : Seq(Tokens),
                 burns : Seq(Changes), mints : Seq(Changes)]
<1>1. Block \in Seq(R)
  BY BlockAssumption
<1> HIDE DEF R
<1>2. Block[t] \in R
  BY <1>1 DEF Txs
<1> QED BY <1>2 DEF R

(* What a transaction creates are tokens.                                  *)
LEMMA CreatesTokens == \A t \in Txs : Creates(t) \subseteq Tokens
  BY BlockFacts DEF Creates, ToSet

(* The four loops of a writer.                                             *)
LEMMA JobParts ==
  ASSUME NEW t \in Txs, NEW x, x = Block[t]
  PROVE  /\ Launches(x) \in Seq(StatementType) /\ Len(Launches(x)) = Len(x.launched)
         /\ \A j \in 1..Len(x.launched) :
               Launches(x)[j].op = "launched" /\ Launches(x)[j].token = x.launched[j]
         /\ Creations(x) \in Seq(StatementType) /\ Len(Creations(x)) = Len(x.created)
         /\ \A j \in 1..Len(x.created) :
               /\ Creations(x)[j].token = x.created[j]
               /\ Creations(x)[j].op = IF x.created[j] \in ToSet(x.launched) THEN "skip" ELSE "created"
         /\ Statements("burn", x.burns) \in Seq(StatementType)
         /\ \A j \in 1..Len(Statements("burn", x.burns)) : Statements("burn", x.burns)[j].op = "burn"
         /\ Statements("mint", x.mints) \in Seq(StatementType)
         /\ \A j \in 1..Len(Statements("mint", x.mints)) : Statements("mint", x.mints)[j].op = "mint"
<1>1. /\ x.launched \in Seq(Tokens) /\ x.created \in Seq(Tokens)
      /\ x.burns \in Seq(Changes) /\ x.mints \in Seq(Changes)
  BY BlockFacts
<1>2. \A op \in {"launched", "created", "skip", "burn", "mint"}, k \in Tokens, n \in Nat :
          /\ Statement(op, k, n) \in StatementType
          /\ Statement(op, k, n).op = op /\ Statement(op, k, n).token = k
  BY DEF Statement, StatementType
<1>3. /\ Launches(x) \in Seq(StatementType) /\ Len(Launches(x)) = Len(x.launched)
      /\ \A j \in 1..Len(x.launched) :
            Launches(x)[j].op = "launched" /\ Launches(x)[j].token = x.launched[j]
  <2>1. \A j \in 1..Len(x.launched) : x.launched[j] \in Tokens
    BY <1>1
  <2> QED BY <1>1, <1>2, <2>1 DEF Launches
<1>4. /\ Creations(x) \in Seq(StatementType) /\ Len(Creations(x)) = Len(x.created)
      /\ \A j \in 1..Len(x.created) :
            /\ Creations(x)[j].token = x.created[j]
            /\ Creations(x)[j].op = IF x.created[j] \in ToSet(x.launched) THEN "skip" ELSE "created"
  <2>1. \A j \in 1..Len(x.created) : x.created[j] \in Tokens
    BY <1>1
  <2> QED BY <1>1, <1>2, <2>1 DEF Creations
<1>5. ASSUME NEW op \in {"burn", "mint"}, NEW s \in Seq(Changes)
      PROVE  /\ Statements(op, s) \in Seq(StatementType)
             /\ \A j \in 1..Len(Statements(op, s)) : Statements(op, s)[j].op = op
  <2>1. \A j \in 1..Len(s) : s[j] \in Changes
    OBVIOUS
  <2>2. \A c \in Changes : c.token \in Tokens /\ c.amount \in Nat
    BY DEF Changes
  <2> QED BY <1>2, <2>1, <2>2 DEF Statements
<1> QED BY <1>1, <1>3, <1>4, <1>5

(* The statements of a writer: an insert for every token its transaction   *)
(* creates, and a bare one only for tokens it does not launch.             *)
LEMMA JobFacts ==
  ASSUME NEW t \in Txs
  PROVE  /\ Job(Block[t]) \in Seq(StatementType)
         /\ \A k \in Creates(t) :
               \E j \in 1..Len(Job(Block[t])) : /\ Job(Block[t])[j].token = k
                                                /\ Job(Block[t])[j].op \in {"launched", "created"}
         /\ \A j \in 1..Len(Job(Block[t])) :
               Job(Block[t])[j].op = "created" => Job(Block[t])[j].token \in Bare(t)
<1> DEFINE x == Block[t]
           A == Launches(x)
           B == Creations(x)
           C == Statements("burn", x.burns)
           D == Statements("mint", x.mints)
<1>1. /\ x.launched \in Seq(Tokens) /\ x.created \in Seq(Tokens)
      /\ x.burns \in Seq(Changes) /\ x.mints \in Seq(Changes)
  BY BlockFacts
<1>2. /\ A \in Seq(StatementType) /\ Len(A) = Len(x.launched)
      /\ \A j \in 1..Len(x.launched) : A[j].op = "launched" /\ A[j].token = x.launched[j]
      /\ B \in Seq(StatementType) /\ Len(B) = Len(x.created)
      /\ \A j \in 1..Len(x.created) :
            /\ B[j].token = x.created[j]
            /\ B[j].op = IF x.created[j] \in ToSet(x.launched) THEN "skip" ELSE "created"
      /\ C \in Seq(StatementType) /\ \A j \in 1..Len(C) : C[j].op = "burn"
      /\ D \in Seq(StatementType) /\ \A j \in 1..Len(D) : D[j].op = "mint"
  <2>1. x = Block[t]
    OBVIOUS
  <2> HIDE DEF x
  <2> QED BY <2>1, JobParts
<1> HIDE DEF x, A, B, C, D
<1>3. /\ A \in Seq(StatementType) /\ Len(A) = Len(x.launched)
      /\ \A j \in 1..Len(x.launched) : A[j].op = "launched" /\ A[j].token = x.launched[j]
  BY <1>2
<1>4. /\ B \in Seq(StatementType) /\ Len(B) = Len(x.created)
      /\ \A j \in 1..Len(x.created) :
            /\ B[j].token = x.created[j]
            /\ B[j].op = IF x.created[j] \in ToSet(x.launched) THEN "skip" ELSE "created"
  BY <1>2
<1>5. /\ C \in Seq(StatementType) /\ \A j \in 1..Len(C) : C[j].op = "burn"
      /\ D \in Seq(StatementType) /\ \A j \in 1..Len(D) : D[j].op = "mint"
  BY <1>2
<1>6. /\ A \in Seq(StatementType) /\ B \in Seq(StatementType)
       /\ C \in Seq(StatementType) /\ D \in Seq(StatementType)
  BY <1>3, <1>4, <1>5
<1> DEFINE E == A \o B
           F == C \o D
<1>7. /\ E \in Seq(StatementType) /\ Len(E) = Len(A) + Len(B)
      /\ \A j \in 1..(Len(A) + Len(B)) : E[j] = IF j <= Len(A) THEN A[j] ELSE B[j - Len(A)]
  BY ONLY <1>6, ConcatProperties DEF E
<1>8. /\ F \in Seq(StatementType) /\ Len(F) = Len(C) + Len(D)
      /\ \A j \in 1..(Len(C) + Len(D)) : F[j] = IF j <= Len(C) THEN C[j] ELSE D[j - Len(C)]
  BY ONLY <1>6, ConcatProperties DEF F
<1> HIDE DEF E, F
<1>9. Job(x) = E \o F
  BY DEF Job, A, B, C, D, E, F
<1>10. /\ E \o F \in Seq(StatementType) /\ Len(E \o F) = Len(E) + Len(F)
       /\ \A j \in 1..(Len(E) + Len(F)) : (E \o F)[j] = IF j <= Len(E) THEN E[j] ELSE F[j - Len(E)]
  <2>1. E \in Seq(StatementType) /\ F \in Seq(StatementType)
    BY <1>7, <1>8
  <2> QED BY ONLY <2>1, ConcatProperties
<1>11. /\ Len(A) \in Nat /\ Len(B) \in Nat /\ Len(C) \in Nat /\ Len(D) \in Nat
       /\ Len(E) \in Nat /\ Len(F) \in Nat
  <2>1. \A q \in Seq(StatementType) : Len(q) \in Nat
    OBVIOUS
  <2> QED BY <1>7, <1>8, <1>6, <2>1
<1>12. \A j \in 1..Len(F) : F[j].op \in {"burn", "mint"}
  <2> SUFFICES ASSUME NEW j \in 1..Len(F) PROVE F[j].op \in {"burn", "mint"}
    OBVIOUS
  <2>1. CASE j <= Len(C)
    BY <1>5, <1>8, <1>11, <2>1
  <2>2. CASE ~ (j <= Len(C))
    <3>1. j - Len(C) \in 1..Len(D)
      BY <1>8, <1>11, <2>2
    <3> QED BY <1>5, <1>8, <1>11, <2>2, <3>1
  <2> QED BY <2>1, <2>2
<1>13. \A k \in Creates(t) : \E j \in 1..Len(E) : E[j].token = k /\ E[j].op \in {"launched", "created"}
  <2> SUFFICES ASSUME NEW k \in Creates(t)
               PROVE  \E j \in 1..Len(E) : E[j].token = k /\ E[j].op \in {"launched", "created"}
    OBVIOUS
  <2>1. CASE k \in ToSet(x.launched)
    <3>1. PICK j \in 1..Len(x.launched) : x.launched[j] = k
      <4>1. DOMAIN x.launched = 1..Len(x.launched)
        BY <1>1
      <4> QED BY <2>1, <4>1 DEF ToSet
    <3>2. j \in 1..Len(E) /\ E[j] = A[j]
      BY <1>3, <1>7, <1>11, <3>1
    <3> QED BY <1>3, <3>1, <3>2
  <2>2. CASE k \notin ToSet(x.launched)
    <3>1. PICK j \in 1..Len(x.created) : x.created[j] = k
      BY <1>1, <2>2 DEF ToSet, Creates, x
    <3>2. Len(A) + j \in 1..Len(E) /\ (Len(A) + j) - Len(A) = j /\ ~ (Len(A) + j <= Len(A))
      <4>1. PICK a, b : a = Len(A) /\ b = Len(B)
        OBVIOUS
      <4>2. a \in Nat /\ b \in Nat /\ j \in 1..b
        BY <1>4, <1>11, <3>1, <4>1
      <4>3. Len(E) = a + b
        BY <1>7, <4>1
      <4>4. a + j \in 1..(a + b) /\ (a + j) - a = j /\ ~ (a + j <= a)
        BY ONLY <4>2
      <4> QED BY ONLY <4>1, <4>3, <4>4
    <3>3. E[Len(A) + j] = B[j]
      BY <1>7, <3>2
    <3>4. B[j].token = k /\ B[j].op = "created"
      BY <1>4, <2>2, <3>1
    <3> QED BY <3>2, <3>3, <3>4
  <2> QED BY <2>1, <2>2
<1>14. \A j \in 1..Len(E) : E[j].op = "created" => E[j].token \in Bare(t)
  <2> SUFFICES ASSUME NEW j \in 1..Len(E), E[j].op = "created" PROVE E[j].token \in Bare(t)
    OBVIOUS
  <2>1. CASE j <= Len(A)
    BY <1>3, <1>7, <1>11, <2>1
  <2>2. CASE ~ (j <= Len(A))
    <3> DEFINE i == j - Len(A)
    <3>1. i \in 1..Len(x.created) /\ E[j] = B[i]
      BY <1>4, <1>7, <1>11, <2>2
    <3> HIDE DEF i
    <3>2. x.created[i] \notin ToSet(x.launched) /\ E[j].token = x.created[i]
      BY <1>4, <3>1
    <3>3. x.created[i] \in ToSet(x.created)
      BY <1>1, <3>1 DEF ToSet
    <3> QED BY <3>2, <3>3 DEF Bare, x
  <2> QED BY <2>1, <2>2
<1>15. /\ \A k \in Creates(t) :
            \E j \in 1..Len(Job(x)) : Job(x)[j].token = k /\ Job(x)[j].op \in {"launched", "created"}
       /\ \A j \in 1..Len(Job(x)) : Job(x)[j].op = "created" => Job(x)[j].token \in Bare(t)
  <2>1. \A j \in 1..Len(E) : j \in 1..Len(Job(x)) /\ Job(x)[j] = E[j]
    BY <1>9, <1>10, <1>11
  <2>2. ASSUME NEW j \in 1..Len(Job(x)), j \notin 1..Len(E)
        PROVE  Job(x)[j].op # "created"
    <3>1. j - Len(E) \in 1..Len(F) /\ ~ (j <= Len(E)) /\ j \in 1..(Len(E) + Len(F))
      BY <1>9, <1>10, <1>11, <2>2
    <3>2. Job(x)[j] = F[j - Len(E)]
      BY <1>9, <1>10, <3>1
    <3> QED BY <1>12, <3>1, <3>2
  <2> QED BY <1>13, <1>14, <2>1, <2>2
<1> QED BY <1>9, <1>10, <1>15 DEF x

(* A step that leaves the writers and the table alone.                     *)
LEMMA TableFrame ==
  ASSUME TableInv, UNCHANGED <<writer, rows, supply, cut, failed>>,
         \A t \in Txs : Processed(t)' => Processed(t),
         pc = "acked" => pc' = "acked"
  PROVE  TableInv'
<1> USE DEF TableInv
<1>1. TableTypes'
  BY DEF TableTypes
<1>2. BareOnly'
  BY DEF BareOnly
<1>3. RowsKnown'
  BY DEF RowsKnown
<1> QED BY <1>1, <1>2, <1>3

(* The hand-over leaves the writers alone but for ProcessTransaction.      *)
LEMMA TableHandOver ==
  ASSUME HandOverInv, TableInv,
         \/ Feeder \/ CloseSwaps \/ Collector \/ UNCHANGED vars
         \/ \E w \in TxWorkers : TakeTx(w) \/ WorkerDone(w) \/ Collect(w)
  PROVE  TableInv'
<1> USE DEF HandOverInv
<1>1. UNCHANGED <<writer, rows, supply, cut, failed>>
  BY DEF Feeder, Feed, CloseTx, CloseSwaps, Collector, Collected, InsertBatch, InsertFails, Ack,
         TakeTx, WorkerDone, Collect, tableVars, vars
<1>2. pc = "acked" => pc' = "acked"
  BY DEF Feeder, Feed, CloseTx, CloseSwaps, Collector, Collected, InsertBatch, InsertFails, Ack,
         TakeTx, WorkerDone, Collect, Goto, vars, channelVars
<1>3. \A t \in Txs : Processed(t)' => Processed(t)
  <2>1. CASE Feeder \/ CloseSwaps \/ Collector \/ UNCHANGED vars
    <3>1. UNCHANGED <<worker, batch>>
      BY <2>1 DEF Feeder, Feed, CloseTx, CloseSwaps, Collector, Collected, InsertBatch, InsertFails,
                  Ack, Goto, vars, channelVars
    <3> QED BY <3>1 DEF Processed
  <2>2. ASSUME NEW w \in TxWorkers, TakeTx(w) \/ WorkerDone(w)
        PROVE  \A t \in Txs : Processed(t)' => Processed(t)
    <3>1. UNCHANGED batch
      BY <2>2 DEF TakeTx, WorkerDone
    <3>2. \A v \in TxWorkers : worker'[v].pc = "send" => worker'[v] = worker[v]
      BY <2>2 DEF TakeTx, WorkerDone, Types, WorkerType
    <3> QED BY <3>1, <3>2 DEF Processed
  <2>3. ASSUME NEW w \in TxWorkers, Collect(w)
        PROVE  \A t \in Txs : Processed(t)' => Processed(t)
    <3>1. /\ worker[w].pc = "send"
          /\ \A t \in Txs : t # worker[w].tx => batch'[t] = batch[t]
      BY <2>3 DEF Collect, Types
    <3>2. \A v \in TxWorkers : worker'[v].pc = "send" => worker'[v] = worker[v]
      BY <2>3 DEF Collect, Types, Waiting
    <3> QED BY <3>1, <3>2 DEF Processed
  <2> QED BY <2>1, <2>2, <2>3
<1> QED BY <1>1, <1>2, <1>3, TableFrame

(* ProcessTransaction leaves a writer with the whole job.                  *)
LEMMA TableProcess ==
  ASSUME HandOverInv, TableInv, NEW w \in TxWorkers, ProcessTransaction(w)
  PROVE  TableInv'
<1> USE DEF HandOverInv, TableInv
<1> DEFINE t == worker[w].tx
<1>1. /\ worker[w].pc = "process"
      /\ worker' = [worker EXCEPT ![w].pc = "send"]
      /\ writer' = [writer EXCEPT ![t] = Job(Block[t])]
      /\ UNCHANGED <<batch, pc, rows, supply, cut, failed>>
  BY DEF ProcessTransaction, tableVars
<1>2. t \in Txs
  <2>1. worker[w].tx \in 1..Taken
    BY <1>1 DEF OnePlace, Holds
  <2>2. Len(Block) \in Nat /\ fed \in Nat /\ Len(txChan) \in Nat
    BY BlockAssumption DEF Types
  <2>3. Taken <= Len(Block) /\ Taken \in Int
    BY <2>2 DEF Taken, Types
  <2> QED BY <2>1, <2>2, <2>3 DEF Txs
<1>3. /\ \A v \in TxWorkers : v # w => worker'[v] = worker[v]
      /\ worker'[w].tx = t
  BY <1>1 DEF Types, WorkerType
<1> HIDE DEF t
<1>4. /\ writer'[t] = Job(Block[t])
      /\ \A s \in Txs : s # t => writer'[s] = writer[s]
      /\ writer' \in [Txs -> Seq(StatementType)]
  BY <1>1, <1>2, JobFacts DEF TableTypes
<1>5. \A s \in Txs : s # t /\ Processed(s)' => Processed(s)
  BY <1>1, <1>3 DEF Processed
<1>6. TableTypes'
  BY <1>1, <1>4 DEF TableTypes
<1>7. BareOnly'
  BY <1>1, <1>2, <1>4, JobFacts DEF BareOnly
<1>8. RowsKnown'
  <2> SUFFICES ASSUME NEW s \in Txs, Processed(s)', NEW k \in Creates(s)
               PROVE  \/ rows'[k] # "absent"
                      \/ \E j \in 1..Len(writer'[s]) : /\ writer'[s][j].token = k
                                                       /\ writer'[s][j].op \in {"launched", "created"}
                      \/ pc' = "acked" /\ s \in cut'
                      \/ k \in failed'
    BY DEF RowsKnown
  <2>1. CASE s = t
    BY <1>2, <1>4, <2>1, JobFacts
  <2>2. CASE s # t
    BY <1>1, <1>4, <1>5, <2>2 DEF RowsKnown
  <2> QED BY <2>1, <2>2
<1> QED BY <1>6, <1>7, <1>8

(* A writer executes its next statement, or the statement fails.           *)
LEMMA TableWrite ==
  ASSUME HandOverInv, TableInv, NEW t \in Txs, Write(t)
  PROVE  TableInv'
<1> USE DEF TableInv
<1> DEFINE q == writer[t]
           h == Head(writer[t])
<1>1. /\ q # <<>> /\ writer' = [writer EXCEPT ![t] = Tail(@)]
      /\ UNCHANGED <<worker, batch, pc, cut>>
  BY DEF Write, InsertToken, SkipToken, UpdateTokenSupply, WriteFails, NextIs, Finish, channelVars
<1>2. q \in Seq(StatementType)
  BY DEF TableTypes
<1>3. /\ h = q[1] /\ h \in StatementType
      /\ Len(q) \in Nat /\ Len(q) >= 1 /\ Len(Tail(q)) = Len(q) - 1 /\ Tail(q) \in Seq(StatementType)
  BY <1>1, <1>2
<1>4. \A j \in 1..Len(Tail(q)) : j + 1 \in 1..Len(q) /\ Tail(q)[j] = q[j + 1]
  BY <1>1, <1>2, <1>3
<1>5. /\ writer'[t] = Tail(q) /\ writer' \in [Txs -> Seq(StatementType)]
      /\ \A s \in Txs : s # t => writer'[s] = writer[s]
  BY <1>1, <1>3 DEF TableTypes
<1>6. h.token \in Tokens /\ h.op \in {"launched", "created", "skip", "burn", "mint"} /\ h.amount \in Nat
  BY <1>3 DEF StatementType
<1>7. h.op = "created" => h.token \in Bare(t)
  BY <1>3 DEF BareOnly
<1>8. \A j \in 1..Len(q) : j # 1 => j - 1 \in 1..Len(Tail(q)) /\ Tail(q)[j - 1] = q[j]
  <2> SUFFICES ASSUME NEW j \in 1..Len(q), j # 1
               PROVE  j - 1 \in 1..Len(Tail(q)) /\ Tail(q)[j - 1] = q[j]
    OBVIOUS
  <2>1. j - 1 \in 1..Len(Tail(q)) /\ (j - 1) + 1 = j
    BY <1>3
  <2> QED BY <1>4, <2>1
<1> HIDE DEF h, q
<1>9. /\ rows' \in [Tokens -> {"absent", "launched", "created"}]
      /\ \A k \in Tokens : rows[k] # "absent" => rows'[k] = rows[k]
      /\ \A k \in Tokens : rows'[k] = "created" => rows[k] = "created" \/ k \in Bare(t)
      /\ supply' \in [Tokens -> Int]
      /\ failed \subseteq failed' /\ failed' \subseteq Tokens
      /\ h.op \in {"launched", "created"} => rows'[h.token] # "absent" \/ h.token \in failed'
  <2>1. CASE InsertToken(t)
    <3>1. /\ rows' = [rows EXCEPT ![h.token] = IF @ = "absent" THEN h.op ELSE @]
          /\ UNCHANGED <<supply, failed>> /\ h.op \in {"launched", "created"}
      BY <2>1 DEF InsertToken, NextIs, h
    <3> QED BY <1>6, <1>7, <3>1 DEF TableTypes
  <2>2. CASE SkipToken(t)
    <3>1. UNCHANGED <<rows, supply, failed>> /\ h.op = "skip"
      BY <2>2 DEF SkipToken, NextIs, tableVars, h
    <3> QED BY <3>1 DEF TableTypes
  <2>3. CASE UpdateTokenSupply(t)
    <3> DEFINE change == IF h.op = "mint" THEN h.amount ELSE -h.amount
    <3>1. /\ supply' = [supply EXCEPT ![h.token] = IF rows[h.token] = "absent" THEN @ ELSE @ + change]
          /\ UNCHANGED <<rows, failed>> /\ h.op \in {"burn", "mint"}
      BY <2>3 DEF UpdateTokenSupply, NextIs, h
    <3>2. change \in Int
      BY <1>6
    <3> HIDE DEF change
    <3> QED BY <1>6, <3>1, <3>2 DEF TableTypes
  <2>4. CASE WriteFails(t)
    <3>1. failed' = failed \union {h.token} /\ UNCHANGED <<rows, supply>>
      BY <2>4 DEF WriteFails, tableVars, h
    <3> QED BY <1>6, <3>1 DEF TableTypes
  <2> QED BY <2>1, <2>2, <2>3, <2>4 DEF Write
<1>10. TableTypes'
  BY <1>1, <1>5, <1>9 DEF TableTypes
<1>11. BareOnly'
  <2>1. \A s \in Txs : \A j \in 1..Len(writer'[s]) :
            writer'[s][j].op = "created" => writer'[s][j].token \in Bare(s)
    <3>1. \A j \in 1..Len(writer'[t]) : writer'[t][j].op = "created" => writer'[t][j].token \in Bare(t)
      BY <1>4, <1>5 DEF BareOnly, q
    <3> QED BY <1>5, <3>1 DEF BareOnly
  <2> QED BY <1>9, <2>1 DEF BareOnly
<1>12. RowsKnown'
  <2> SUFFICES ASSUME NEW s \in Txs, Processed(s)', NEW k \in Creates(s)
               PROVE  \/ rows'[k] # "absent"
                      \/ \E j \in 1..Len(writer'[s]) : /\ writer'[s][j].token = k
                                                       /\ writer'[s][j].op \in {"launched", "created"}
                      \/ pc' = "acked" /\ s \in cut'
                      \/ k \in failed'
    BY DEF RowsKnown
  <2>1. Processed(s)
    BY <1>1 DEF Processed
  <2>2. k \in Tokens
    BY CreatesTokens
  <2>3. CASE s # t
    BY <1>1, <1>5, <1>9, <2>1, <2>2, <2>3 DEF RowsKnown
  <2>4. CASE s = t
    <3>1. CASE \E j \in 1..Len(q) : q[j].token = k /\ q[j].op \in {"launched", "created"}
      <4>1. PICK j \in 1..Len(q) : q[j].token = k /\ q[j].op \in {"launched", "created"}
        BY <3>1
      <4>2. CASE j = 1
        BY <1>3, <1>9, <4>1, <4>2
      <4>3. CASE j # 1
        BY <1>5, <1>8, <2>4, <4>1, <4>3
      <4> QED BY <4>2, <4>3
    <3> QED BY <1>1, <1>9, <2>1, <2>2, <2>4, <3>1 DEF RowsKnown, q
  <2> QED BY <2>3, <2>4
<1> QED BY <1>10, <1>11, <1>12

(* A death forgets what was processed, or cuts the writers short.          *)
LEMMA TableDie == ASSUME HandOverInv, TableInv, Die PROVE TableInv'
<1> USE DEF TableInv
<1>1. /\ writer' = [t \in Txs |-> <<>>] /\ UNCHANGED <<rows, supply, failed>>
      /\ \A t \in Txs : writer'[t] = <<>> /\ Len(writer'[t]) = 0
  BY DEF Die, tableVars
<1>2. cut' \subseteq Txs
  BY DEF Die, TableTypes
<1>3. TableTypes'
  BY <1>1, <1>2 DEF TableTypes
<1>4. BareOnly'
  BY <1>1 DEF BareOnly
<1>5. RowsKnown'
  <2>1. CASE pc = "acked"
    <3>1. /\ cut' = cut \union {t \in Txs : writer[t] # <<>>}
          /\ UNCHANGED <<pc, batch, worker>>
      BY <2>1 DEF Die, channelVars
    <3>2. \A t \in Txs : Processed(t)' => Processed(t)
      BY <3>1 DEF Processed
    <3>3. \A t \in Txs : writer[t] = <<>> => Len(writer[t]) = 0
      OBVIOUS
    <3> QED BY <1>1, <2>1, <3>1, <3>2, <3>3 DEF RowsKnown
  <2>2. CASE pc # "acked"
    <3>1. /\ worker' = [w \in TxWorkers |-> Waiting] /\ batch' = [t \in Txs |-> 0]
      BY <2>2 DEF Die
    <3>2. \A t \in Txs : ~ Processed(t)'
      BY <3>1 DEF Processed, Waiting
    <3> QED BY <3>2 DEF RowsKnown
  <2> QED BY <2>1, <2>2
<1> QED BY <1>3, <1>4, <1>5

(* Every step keeps the invariant.                                         *)
LEMMA InvStep == IInv /\ [Next]_vars => IInv'
<1> SUFFICES ASSUME IInv, [Next]_vars PROVE IInv'
  OBVIOUS
<1>1. HandOverInv'
  BY HandOverStep DEF IInv
<1>2. TableInv'
  BY TableHandOver, TableProcess, TableWrite, TableDie DEF IInv, Next, TxWorker
<1> QED BY <1>1, <1>2 DEF IInv

(* The initial state.                                                      *)
LEMMA InvInit == Init => IInv
<1> SUFFICES ASSUME Init PROVE TableInv
  BY HandOverInit DEF IInv
<1>1. TableTypes
  BY DEF Init, TableTypes
<1>2. BareOnly
  BY DEF Init, BareOnly
<1>3. \A t \in Txs : ~ Processed(t)
  BY DEF Init, Processed, Waiting
<1> QED BY <1>1, <1>2, <1>3 DEF TableInv, RowsKnown

(* Whatever the order in which feeder, tx workers, closer and collector    *)
(* run, and wherever the processor dies: when the range over swapsChan     *)
(* ends the whole block is in the batch, each transaction once; nobody     *)
(* sends on a closed channel; and what is acknowledged is stored.          *)
THEOREM HandOverStaysSafe == Spec => []HandOverSafe
<1>1. IInv => HandOverSafe
  BY HandOverImplies DEF IInv
<1> QED BY <1>1, InvInit, InvStep, PTL DEF Spec

(* After the ack a created token's row is missing only while its writer    *)
(* runs, or because the writer was cut short or the insert failed; and the *)
(* row of a launched token is not the bare one.                            *)
THEOREM TokenRowsStayTrue == Spec => []TokenRowsTrue
<1>1. IInv => TokenRowsTrue
  <2> SUFFICES ASSUME IInv PROVE TokenRowsTrue
    OBVIOUS
  <2> USE DEF IInv, TableInv
  <2>1. RowsAfterAck
    <3> SUFFICES ASSUME pc = "acked", NEW t \in Txs, NEW k \in Creates(t)
                 PROVE  \/ rows[k] # "absent"
                        \/ \E j \in DOMAIN writer[t] : writer[t][j].token = k
                        \/ t \in cut
                        \/ k \in failed
      BY DEF RowsAfterAck
    <3>1. swapsChan = "closed"
      BY DEF HandOverInv, Closed
    <3>2. Processed(t)
      BY <3>1, ClosedIsWhole DEF Processed
    <3>3. DOMAIN writer[t] = 1..Len(writer[t])
      BY DEF TableTypes
    <3> QED BY <3>2, <3>3 DEF RowsKnown
  <2>2. LaunchedStayLaunched
    <3> SUFFICES ASSUME NEW t \in Txs, NEW k \in ToSet(Block[t].launched),
                        \A s \in Txs \ {t} : k \notin Creates(s), rows[k] = "created"
                 PROVE  FALSE
      BY DEF LaunchedStayLaunched
    <3>1. k \in Creates(t) /\ k \in Tokens
      BY CreatesTokens DEF Creates
    <3>2. PICK s \in Txs : k \in Bare(s)
      BY <3>1 DEF BareOnly
    <3> QED BY <3>2 DEF Bare, Creates
  <2> QED BY <2>1, <2>2 DEF TokenRowsTrue
<1> QED BY <1>1, InvInit, InvStep, PTL DEF Spec

-----------------------------------------------------------------------------
(* Supplies.                                                               *)

(* What a statement, and what a writer, still adds to token k.             *)
Weight(op, s, k) == IF s.op = op /\ s.token = k THEN s.amount ELSE 0
Left(op, q, k) == Total([j \in 1..Len(q) |-> Weight(op, q[j], k)], Len(q))

ChangesOf(op, x) == IF op = "mint" THEN x.mints ELSE x.burns

(* What this delivery of the block still adds: all of a transaction that   *)
(* is not processed yet, and what its writer has left of one that is.      *)
Pending(op, k) == [t \in Txs |-> IF Processed(t) THEN Left(op, writer[t], k)
                                 ELSE SumOf(ChangesOf(op, Block[t]), k)]
Due(op, k) == Total(Pending(op, k), Len(Block))

(* Writers belong to processed transactions and insert before they count.  *)
WritersInOrder ==
    \A t \in Txs :
        /\ ~ Processed(t) => writer[t] = <<>>
        /\ \A i, j \in 1..Len(writer[t]) :
              i < j /\ writer[t][i].op \in {"burn", "mint"} => writer[t][j].op \in {"burn", "mint"}

(* What was counted and what is due are within the deliveries.             *)
WithinDue ==
    \A k \in Tokens :
        /\ supply[k] + Due("mint", k) <= (deaths + 1) * Mints(k)
        /\ Due("burn", k) - supply[k] <= (deaths + 1) * Burns(k)

(* Of the mints of the transaction that creates a token only those are not *)
(* in the supply that its writer has left.                                 *)
OwnMintsDue ==
    \A t \in Txs : \A k \in Creates(t) :
        Processed(t) /\ k \notin failed /\ t \notin cut =>
            supply[k] >= (SumOf(Block[t].mints, k) - Left("mint", writer[t], k))
                           - ((deaths + 1) * Burns(k) - Due("burn", k))

CutAcked == cut # {} => pc = "acked"

SupplyInv == WritersInOrder /\ WithinDue /\ OwnMintsDue /\ CutAcked
(* Sums of a block are numbers.                                            *)
LEMMA SumOfNat ==
  ASSUME NEW s \in Seq(Changes), NEW k
  PROVE  SumOf(s, k) \in Nat
<1> DEFINE f == [j \in 1..Len(s) |-> IF s[j].token = k THEN s[j].amount ELSE 0]
<1>1. Len(s) \in Nat /\ \A j \in 1..Len(s) : s[j] \in Changes
  OBVIOUS
<1>2. \A j \in 1..Len(s) : f[j] \in Nat
  BY <1>1 DEF Changes
<1> HIDE DEF f
<1>3. Total(f, Len(s)) \in Nat
  BY <1>1, <1>2, TotalNat
<1> QED BY <1>3 DEF SumOf, f

(* The mints and burns of a transaction, and of the block, are numbers.    *)
LEMMA BlockSumsNat ==
  ASSUME NEW k
  PROVE  /\ \A t \in Txs : SumOf(Block[t].mints, k) \in Nat /\ SumOf(Block[t].burns, k) \in Nat
         /\ Mints(k) \in Nat /\ Burns(k) \in Nat
<1>1. Len(Block) \in Nat
  BY BlockAssumption
<1>2. \A t \in Txs : SumOf(Block[t].mints, k) \in Nat /\ SumOf(Block[t].burns, k) \in Nat
  BY BlockFacts, SumOfNat
<1> DEFINE m == [t \in Txs |-> SumOf(Block[t].mints, k)]
           b == [t \in Txs |-> SumOf(Block[t].burns, k)]
<1>3. \A t \in 1..Len(Block) : m[t] \in Nat /\ b[t] \in Nat
  BY <1>2 DEF Txs
<1> HIDE DEF m, b
<1>4. Total(m, Len(Block)) \in Nat /\ Total(b, Len(Block)) \in Nat
  BY <1>1, <1>3, TotalNat
<1> QED BY <1>2, <1>4 DEF Mints, Burns, m, b

(* What a statement counts is a number.                                    *)
LEMMA WeightNat ==
  ASSUME NEW op, NEW k
  PROVE  \A s \in StatementType : Weight(op, s, k) \in Nat
  BY DEF StatementType, Weight

(* What a writer has left: nothing, the next statement, two parts.         *)
LEMMA LeftNat ==
  ASSUME NEW q \in Seq(StatementType), NEW op, NEW k
  PROVE  /\ Left(op, q, k) \in Nat
         /\ q = <<>> => Left(op, q, k) = 0
<1> DEFINE f == [j \in 1..Len(q) |-> Weight(op, q[j], k)]
<1>1. Len(q) \in Nat /\ \A j \in 1..Len(q) : q[j] \in StatementType
  OBVIOUS
<1>2. \A j \in 1..Len(q) : f[j] \in Nat
  BY <1>1, WeightNat
<1> HIDE DEF f
<1>3. Total(f, Len(q)) \in Nat
  BY <1>1, <1>2, TotalNat
<1>4. q = <<>> => Total(f, Len(q)) = 0
  BY TotalZero
<1> QED BY <1>3, <1>4 DEF Left, f

(* What two lists of statements have left is the sum of what each has.     *)
LEMMA LeftConcat ==
  ASSUME NEW p \in Seq(StatementType), NEW q \in Seq(StatementType), NEW op, NEW k
  PROVE  Left(op, p \o q, k) = Left(op, p, k) + Left(op, q, k)
<1> DEFINE r == p \o q
           f == [j \in 1..Len(p) |-> Weight(op, p[j], k)]
           g == [j \in 1..Len(q) |-> Weight(op, q[j], k)]
           h == [j \in 1..Len(r) |-> Weight(op, r[j], k)]
<1>1. /\ r \in Seq(StatementType) /\ Len(r) = Len(p) + Len(q)
      /\ \A j \in 1..(Len(p) + Len(q)) : r[j] = IF j <= Len(p) THEN p[j] ELSE q[j - Len(p)]
  BY ConcatProperties
<1>2. Len(p) \in Nat /\ Len(q) \in Nat
  OBVIOUS
<1> HIDE DEF r
<1>3. \A j \in 1..(Len(p) + Len(q)) : h[j] \in Int
  <2>1. \A j \in 1..Len(r) : r[j] \in StatementType
    BY <1>1
  <2> QED BY <1>1, <2>1, WeightNat
<1>4. \A j \in 1..Len(p) : f[j] \in Int /\ f[j] = h[j]
  <2>1. \A j \in 1..Len(p) : j \in 1..Len(r) /\ r[j] = p[j]
    BY <1>1, <1>2
  <2>2. \A j \in 1..Len(p) : p[j] \in StatementType
    OBVIOUS
  <2> QED BY <2>1, <2>2, WeightNat
<1>5. \A j \in 1..Len(q) : g[j] = h[Len(p) + j]
  <2> SUFFICES ASSUME NEW j \in 1..Len(q) PROVE g[j] = h[Len(p) + j]
    OBVIOUS
  <2>1. Len(p) + j \in 1..(Len(p) + Len(q)) /\ ~ (Len(p) + j <= Len(p)) /\ (Len(p) + j) - Len(p) = j
    BY <1>2
  <2>2. r[Len(p) + j] = q[j]
    BY <1>1, <2>1
  <2> QED BY <1>1, <2>1, <2>2
<1> HIDE DEF f, g, h
<1>6. Total(h, Len(p) + Len(q)) = Total(h, Len(p)) + Total(g, Len(q))
  BY <1>2, <1>3, <1>5, TotalSplit
<1>7. Total(f, Len(p)) = Total(h, Len(p))
  BY <1>2, <1>4, TotalSame
<1> QED BY <1>1, <1>6, <1>7 DEF Left, f, g, h, r

(* A statement that is executed leaves the rest.                           *)
LEMMA LeftTail ==
  ASSUME NEW q \in Seq(StatementType), q # <<>>, NEW op, NEW k
  PROVE  Left(op, Tail(q), k) = Left(op, q, k) - Weight(op, Head(q), k)
<1> DEFINE f == [j \in 1..Len(q) |-> Weight(op, q[j], k)]
           r == Tail(q)
           g == [j \in 1..Len(r) |-> Weight(op, r[j], k)]
           n == Len(q) - 1
<1>1. /\ Len(q) \in Nat /\ n \in Nat /\ Len(q) = 1 + n /\ Len(r) = n /\ Head(q) = q[1]
      /\ \A j \in 1..n : r[j] = q[1 + j]
  <2>1. Len(q) \in Nat /\ Len(q) >= 1 /\ Len(r) = n /\ Head(q) = q[1]
    OBVIOUS
  <2>2. \A j \in 1..n : r[j] = q[j + 1]
    BY <2>1
  <2> QED BY <2>1, <2>2
<1> HIDE DEF n, r
<1>2. \A j \in 1..(1 + n) : f[j] \in Int
  <2>1. \A j \in 1..Len(q) : q[j] \in StatementType
    OBVIOUS
  <2> QED BY <1>1, <2>1, WeightNat
<1>3. \A j \in 1..n : g[j] = f[1 + j]
  BY <1>1
<1>4. f[1] = Weight(op, Head(q), k)
  BY <1>1
<1> HIDE DEF f, g
<1>5. Total(f, 1 + n) = Total(f, 1) + Total(g, n)
  BY <1>1, <1>2, <1>3, TotalSplit
<1>6. Total(f, 1) = f[1] /\ f[1] \in Int
  <2>1. 0 \in Nat /\ \A j \in 1..(0 + 1) : f[j] \in Int
    BY <1>1, <1>2
  <2>2. Total(f, 0 + 1) = Total(f, 0) + f[0 + 1]
    BY ONLY <2>1, TotalStep
  <2>3. Total(f, 0) = 0
    BY ONLY TotalZero
  <2>4. f[1] \in Int
    BY ONLY <2>1
  <2> QED BY ONLY <2>2, <2>3, <2>4
<1>7. \A j \in 1..n : g[j] \in Int
  BY <1>1, <1>2, <1>3
<1>8. Total(g, n) \in Int
  BY <1>1, <1>7, TotalInt
<1>9. Total(g, n) = Total(f, Len(q)) - Weight(op, Head(q), k)
  <2>1. Len(q) = 1 + n
    BY ONLY <1>1
  <2>2. PICK x, y, z : x = Total(f, 1 + n) /\ y = f[1] /\ z = Total(g, n)
    OBVIOUS
  <2>3. x = y + z /\ y \in Int /\ z \in Int
    BY ONLY <1>5, <1>6, <1>8, <2>2
  <2>4. z = x - y
    BY ONLY <2>3
  <2> QED BY ONLY <1>4, <2>1, <2>2, <2>4
<1>10. Left(op, q, k) = Total(f, Len(q))
  BY DEF Left, f
<1>11. Left(op, Tail(q), k) = Total(g, n)
  BY DEF Left, g, r, n
<1> QED BY ONLY <1>9, <1>10, <1>11

(* A writer without statements of a kind has nothing of it left.           *)
LEMMA LeftNone ==
  ASSUME NEW q \in Seq(StatementType), NEW op, NEW k, \A j \in 1..Len(q) : q[j].op # op
  PROVE  Left(op, q, k) = 0
<1> DEFINE f == [j \in 1..Len(q) |-> Weight(op, q[j], k)]
<1>1. Len(q) \in Nat /\ \A j \in 1..Len(q) : f[j] = 0
  BY DEF Weight
<1> HIDE DEF f
<1>2. Total(f, Len(q)) = 0
  BY <1>1, TotalOfZeros
<1> QED BY <1>2 DEF Left, f

(* The statements for mints or burns count what the transaction minted or  *)
(* burned.                                                                 *)
LEMMA LeftOfStatements ==
  ASSUME NEW s \in Seq(Changes), NEW op, NEW k
  PROVE  Left(op, Statements(op, s), k) = SumOf(s, k)
<1> DEFINE q == Statements(op, s)
           f == [j \in 1..Len(q) |-> Weight(op, q[j], k)]
           g == [j \in 1..Len(s) |-> IF s[j].token = k THEN s[j].amount ELSE 0]
<1>1. Len(s) \in Nat /\ \A j \in 1..Len(s) : s[j] \in Changes
  OBVIOUS
<1>2. Len(q) = Len(s) /\ \A j \in 1..Len(s) : q[j] = Statement(op, s[j].token, s[j].amount)
  BY <1>1 DEF Statements
<1> HIDE DEF q
<1>3. ASSUME NEW j \in 1..Len(s) PROVE g[j] \in Int /\ g[j] = f[j]
  <2>1. s[j].amount \in Nat
    BY <1>1 DEF Changes
  <2>2. q[j].op = op /\ q[j].token = s[j].token /\ q[j].amount = s[j].amount
    <3>1. q[j] = Statement(op, s[j].token, s[j].amount)
      BY <1>2
    <3>2. q[j] = [op |-> op, token |-> s[j].token, amount |-> s[j].amount]
      BY <3>1 DEF Statement
    <3> QED BY ONLY <3>2
  <2>3. f[j] = Weight(op, q[j], k)
    BY <1>2
  <2>4. g[j] = IF s[j].token = k THEN s[j].amount ELSE 0
    OBVIOUS
  <2> QED BY ONLY <2>1, <2>2, <2>3, <2>4 DEF Weight
<1> HIDE DEF f, g
<1>4. Total(g, Len(s)) = Total(f, Len(s))
  BY <1>1, <1>3, TotalSame
<1> QED BY <1>2, <1>4 DEF Left, SumOf, f, g, q

(* A new writer has the changes of its transaction left, behind all its    *)
(* inserts.                                                                *)
LEMMA NewWriter ==
  ASSUME NEW t \in Txs
  PROVE  /\ \A op \in {"burn", "mint"} : \A k \in Tokens :
               Left(op, Job(Block[t]), k) = SumOf(ChangesOf(op, Block[t]), k)
         /\ \A i, j \in 1..Len(Job(Block[t])) :
               i < j /\ Job(Block[t])[i].op \in {"burn", "mint"}
                   => Job(Block[t])[j].op \in {"burn", "mint"}
<1> DEFINE x == Block[t]
           A == Launches(x)
           B == Creations(x)
           C == Statements("burn", x.burns)
           D == Statements("mint", x.mints)
           E == A \o B
           F == C \o D
<1>1. x.burns \in Seq(Changes) /\ x.mints \in Seq(Changes)
  BY BlockFacts
<1>2. /\ A \in Seq(StatementType) /\ \A j \in 1..Len(A) : A[j].op = "launched"
      /\ B \in Seq(StatementType) /\ \A j \in 1..Len(B) : B[j].op \in {"skip", "created"}
      /\ C \in Seq(StatementType) /\ \A j \in 1..Len(C) : C[j].op = "burn"
      /\ D \in Seq(StatementType) /\ \A j \in 1..Len(D) : D[j].op = "mint"
  <2>1. x = Block[t]
    OBVIOUS
  <2> HIDE DEF x
  <2> QED BY <2>1, JobParts
<1>3. \A k : Left("burn", C, k) = SumOf(x.burns, k) /\ Left("mint", D, k) = SumOf(x.mints, k)
  BY <1>1, LeftOfStatements
<1>4. Job(x) = E \o F
  BY DEF Job
<1> HIDE DEF x, A, B, C, D
<1>5. /\ E \in Seq(StatementType) /\ Len(E) = Len(A) + Len(B)
      /\ \A j \in 1..(Len(A) + Len(B)) : E[j] = IF j <= Len(A) THEN A[j] ELSE B[j - Len(A)]
      /\ F \in Seq(StatementType) /\ Len(F) = Len(C) + Len(D)
      /\ \A j \in 1..(Len(C) + Len(D)) : F[j] = IF j <= Len(C) THEN C[j] ELSE D[j - Len(C)]
  BY <1>2, ConcatProperties
<1>6. Len(A) \in Nat /\ Len(B) \in Nat /\ Len(C) \in Nat /\ Len(D) \in Nat
  BY <1>2
<1>7. ASSUME NEW op \in {"burn", "mint"}, NEW k \in Tokens
      PROVE  Left(op, Job(x), k) = SumOf(ChangesOf(op, x), k)
  <2>1. /\ Left(op, E, k) = Left(op, A, k) + Left(op, B, k)
        /\ Left(op, F, k) = Left(op, C, k) + Left(op, D, k)
    BY <1>2, LeftConcat
  <2>2. Left(op, E \o F, k) = Left(op, E, k) + Left(op, F, k)
    <3> HIDE DEF E, F
    <3> QED BY <1>5, LeftConcat
  <2>3. Left(op, A, k) = 0 /\ Left(op, B, k) = 0
    BY <1>2, LeftNone
  <2>4. op = "mint" => Left(op, C, k) = 0 /\ Left(op, D, k) = SumOf(x.mints, k)
    <3>1. op = "mint" => \A j \in 1..Len(C) : C[j].op # op
      BY <1>2
    <3> QED BY <1>2, <1>3, <3>1, LeftNone
  <2>5. op = "burn" => Left(op, D, k) = 0 /\ Left(op, C, k) = SumOf(x.burns, k)
    <3>1. op = "burn" => \A j \in 1..Len(D) : D[j].op # op
      BY <1>2
    <3> QED BY <1>2, <1>3, <3>1, LeftNone
  <2>6. Left(op, C, k) \in Nat /\ Left(op, D, k) \in Nat
    BY <1>2, LeftNat
  <2> HIDE DEF E, F
  <2>7. CASE op = "mint"
    BY <1>4, <2>1, <2>2, <2>3, <2>4, <2>6, <2>7 DEF ChangesOf
  <2>8. CASE op = "burn"
    BY <1>4, <2>1, <2>2, <2>3, <2>5, <2>6, <2>8 DEF ChangesOf
  <2> QED BY <2>7, <2>8
<1>8. \A j \in 1..Len(E) : E[j].op \notin {"burn", "mint"}
  <2> SUFFICES ASSUME NEW j \in 1..Len(E) PROVE E[j].op \notin {"burn", "mint"}
    OBVIOUS
  <2> HIDE DEF E, F
  <2>1. CASE j <= Len(A)
    <3>1. j \in 1..Len(A) /\ E[j] = A[j]
      BY <1>5, <1>6, <2>1
    <3> QED BY <1>2, <3>1
  <2>2. CASE ~ (j <= Len(A))
    <3>1. j - Len(A) \in 1..Len(B) /\ E[j] = B[j - Len(A)]
      BY <1>5, <1>6, <2>2
    <3> QED BY <1>2, <3>1
  <2> QED BY <2>1, <2>2
<1>9. \A j \in 1..Len(F) : F[j].op \in {"burn", "mint"}
  <2> SUFFICES ASSUME NEW j \in 1..Len(F) PROVE F[j].op \in {"burn", "mint"}
    OBVIOUS
  <2> HIDE DEF E, F
  <2>1. CASE j <= Len(C)
    <3>1. j \in 1..Len(C) /\ F[j] = C[j]
      BY <1>5, <1>6, <2>1
    <3> QED BY <1>2, <3>1
  <2>2. CASE ~ (j <= Len(C))
    <3>1. j - Len(C) \in 1..Len(D) /\ F[j] = D[j - Len(C)]
      BY <1>5, <1>6, <2>2
    <3> QED BY <1>2, <3>1
  <2> QED BY <2>1, <2>2
<1> HIDE DEF E, F
<1>10. /\ E \o F \in Seq(StatementType) /\ Len(E \o F) = Len(E) + Len(F)
       /\ \A j \in 1..(Len(E) + Len(F)) : (E \o F)[j] = IF j <= Len(E) THEN E[j] ELSE F[j - Len(E)]
  <2>1. E \in Seq(StatementType) /\ F \in Seq(StatementType)
    BY <1>5
  <2> QED BY ONLY <2>1, ConcatProperties
<1>11. ASSUME NEW i \in 1..Len(Job(x)), NEW j \in 1..Len(Job(x)), i < j,
              Job(x)[i].op \in {"burn", "mint"}
       PROVE  Job(x)[j].op \in {"burn", "mint"}
  <2>1. Len(E) \in Nat /\ Len(F) \in Nat
    BY <1>5
  <2>2. ~ (i <= Len(E))
    BY <1>4, <1>8, <1>10, <1>11, <2>1
  <2>3. ~ (j <= Len(E)) /\ j - Len(E) \in 1..Len(F)
    BY <1>4, <1>10, <1>11, <2>1, <2>2
  <2>4. Job(x)[j] = F[j - Len(E)]
    BY <1>4, <1>10, <2>1, <2>3
  <2> QED BY <1>9, <2>3, <2>4
<1> QED BY <1>7, <1>11 DEF x

-----------------------------------------------------------------------------
(* What is due is a number.                                                *)
LEMMA DueNat ==
  ASSUME TableTypes, NEW op \in {"burn", "mint"}, NEW k
  PROVE  /\ \A t \in 1..Len(Block) : Pending(op, k)[t] \in Nat
         /\ Due(op, k) \in Nat
<1>1. Len(Block) \in Nat
  BY BlockAssumption
<1>2. \A t \in 1..Len(Block) : Pending(op, k)[t] \in Nat
  <2> SUFFICES ASSUME NEW t \in Txs PROVE Pending(op, k)[t] \in Nat
    BY DEF Txs
  <2>1. writer[t] \in Seq(StatementType)
    BY DEF TableTypes
  <2>2. Left(op, writer[t], k) \in Nat
    BY <2>1, LeftNat
  <2>3. SumOf(ChangesOf(op, Block[t]), k) \in Nat
    BY BlockSumsNat DEF ChangesOf
  <2> QED BY <2>2, <2>3 DEF Pending
<1> HIDE DEF Pending
<1>3. Total(Pending(op, k), Len(Block)) \in Nat
  BY <1>1, <1>2, TotalNat
<1> QED BY <1>2, <1>3 DEF Due

(* One more delivery is one block more of mints and burns.                 *)
LEMMA DeliveredInt ==
  ASSUME Types, NEW k
  PROVE  /\ deaths \in Nat
         /\ (deaths + 1) * Mints(k) \in Int /\ (deaths + 1) * Burns(k) \in Int
         /\ ((deaths + 1) + 1) * Mints(k) = (deaths + 1) * Mints(k) + Mints(k)
         /\ ((deaths + 1) + 1) * Burns(k) = (deaths + 1) * Burns(k) + Burns(k)
<1>1. deaths \in Nat
  BY BlockAssumption DEF Types
<1>2. Mints(k) \in Nat /\ Burns(k) \in Nat
  BY BlockSumsNat
<1>3. \A n, m \in Nat : (n + 1) * m \in Int /\ ((n + 1) + 1) * m = (n + 1) * m + m
  OBVIOUS
<1> QED BY <1>1, <1>2, <1>3

(* A step that leaves the writers and the supplies alone.                  *)
LEMMA SupplyFrame ==
  ASSUME SupplyInv, UNCHANGED <<writer, supply, cut, failed, deaths>>,
         \A t \in Txs : Processed(t)' <=> Processed(t),
         pc = "acked" => pc' = "acked"
  PROVE  SupplyInv'
<1>1. ASSUME NEW op, NEW k PROVE Due(op, k)' = Due(op, k)
  <2>1. Pending(op, k)' = Pending(op, k)
    BY DEF Pending
  <2> QED BY <2>1 DEF Due
<1>2. WritersInOrder'
  BY DEF SupplyInv, WritersInOrder
<1>3. WithinDue'
  BY <1>1 DEF SupplyInv, WithinDue
<1>4. OwnMintsDue'
  BY <1>1 DEF SupplyInv, OwnMintsDue
<1> QED BY <1>2, <1>3, <1>4 DEF SupplyInv, CutAcked

(* The hand-over but for ProcessTransaction.                               *)
LEMMA SupplyHandOver ==
  ASSUME HandOverInv, SupplyInv,
         \/ Feeder \/ CloseSwaps \/ Collector \/ UNCHANGED vars
         \/ \E w \in TxWorkers : TakeTx(w) \/ WorkerDone(w) \/ Collect(w)
  PROVE  SupplyInv'
<1> USE DEF HandOverInv
<1>1. UNCHANGED <<writer, supply, cut, failed, deaths>>
  BY DEF Feeder, Feed, CloseTx, CloseSwaps, Collector, Collected, InsertBatch, InsertFails, Ack,
         TakeTx, WorkerDone, Collect, tableVars, vars
<1>2. pc = "acked" => pc' = "acked"
  BY DEF Feeder, Feed, CloseTx, CloseSwaps, Collector, Collected, InsertBatch, InsertFails, Ack,
         TakeTx, WorkerDone, Collect, Goto, vars, channelVars
<1>3. \A t \in Txs : Processed(t)' <=> Processed(t)
  <2>1. CASE Feeder \/ CloseSwaps \/ Collector \/ UNCHANGED vars
    <3>1. UNCHANGED <<worker, batch>>
      BY <2>1 DEF Feeder, Feed, CloseTx, CloseSwaps, Collector, Collected, InsertBatch, InsertFails,
                  Ack, Goto, vars, channelVars
    <3> QED BY <3>1 DEF Processed
  <2>2. ASSUME NEW w \in TxWorkers, TakeTx(w) \/ WorkerDone(w)
        PROVE  \A t \in Txs : Processed(t)' <=> Processed(t)
    <3>1. UNCHANGED batch
      BY <2>2 DEF TakeTx, WorkerDone
    <3>2. \A v \in TxWorkers : worker'[v].pc = "send" \/ worker[v].pc = "send" => worker'[v] = worker[v]
      BY <2>2 DEF TakeTx, WorkerDone, Types, WorkerType
    <3> QED BY <3>1, <3>2 DEF Processed
  <2>3. ASSUME NEW w \in TxWorkers, Collect(w)
        PROVE  \A t \in Txs : Processed(t)' <=> Processed(t)
    <3>1. /\ worker[w].pc = "send" /\ worker[w].tx \in Txs
          /\ batch'[worker[w].tx] = 1
          /\ \A t \in Txs : t # worker[w].tx => batch'[t] = batch[t]
      <4>1. worker[w].pc = "send" /\ batch' = [batch EXCEPT ![worker[w].tx] = @ + 1]
        BY <2>3 DEF Collect
      <4>2. worker[w].tx \in 1..Taken /\ batch[worker[w].tx] = 0
        BY <4>1 DEF OnePlace, Holds
      <4>3. Len(Block) \in Nat /\ fed \in 0..Len(Block) /\ Len(txChan) \in Nat
        BY BlockAssumption DEF Types
      <4>4. worker[w].tx \in Txs
        BY <4>2, <4>3 DEF Taken, Txs
      <4> QED BY <4>1, <4>2, <4>4 DEF Types
    <3>2. \A v \in TxWorkers : v # w => worker'[v] = worker[v]
      BY <2>3 DEF Collect, Types
    <3>3. worker'[w].pc # "send"
      BY <2>3 DEF Collect, Types, Waiting
    <3> QED BY <3>1, <3>2, <3>3 DEF Processed
  <2> QED BY <2>1, <2>2, <2>3
<1> QED BY <1>1, <1>2, <1>3, SupplyFrame

(* ProcessTransaction: what was due of the transaction is what its writer  *)
(* has left.                                                               *)
LEMMA SupplyProcess ==
  ASSUME HandOverInv, TableInv, SupplyInv, NEW w \in TxWorkers, ProcessTransaction(w)
  PROVE  SupplyInv'
<1> USE DEF HandOverInv, TableInv, SupplyInv
<1>1. /\ worker[w].pc = "process"
      /\ worker' = [worker EXCEPT ![w].pc = "send"]
      /\ writer' = [writer EXCEPT ![worker[w].tx] = Job(Block[worker[w].tx])]
      /\ UNCHANGED <<batch, pc, supply, cut, failed, deaths>>
  BY DEF ProcessTransaction, tableVars
<1>2. PICK t \in Txs : t = worker[w].tx /\ batch[t] = 0
  <2>1. worker[w].tx \in 1..Taken /\ batch[worker[w].tx] = 0
    BY <1>1 DEF OnePlace, Holds
  <2>2. Len(Block) \in Nat /\ fed \in 0..Len(Block) /\ Len(txChan) \in Nat
    BY BlockAssumption DEF Types
  <2> QED BY <2>1, <2>2 DEF Txs, Taken
<1>3. /\ \A v \in TxWorkers : v # w => worker'[v] = worker[v]
      /\ worker'[w].tx = t /\ worker'[w].pc = "send"
      /\ \A v \in TxWorkers : Holds(v) /\ worker[v].tx = t => v = w
  BY <1>1, <1>2 DEF Types, WorkerType, OnePlace, Holds
<1>4. /\ writer'[t] = Job(Block[t])
      /\ \A s \in Txs : s # t => writer'[s] = writer[s]
  BY <1>1, <1>2 DEF TableTypes
<1>5. /\ ~ Processed(t) /\ Processed(t)'
      /\ \A s \in Txs : s # t => (Processed(s)' <=> Processed(s))
  <2>1. ~ Processed(t)
    BY <1>1, <1>2, <1>3 DEF Processed, Holds
  <2>2. Processed(t)'
    BY <1>3 DEF Processed
  <2>3. ASSUME NEW s \in Txs, s # t PROVE Processed(s)' <=> Processed(s)
    <3>1. \A v \in TxWorkers : worker'[v].pc = "send" /\ worker'[v].tx = s
                                 <=> worker[v].pc = "send" /\ worker[v].tx = s
      BY <1>1, <1>3, <2>3
    <3> QED BY <1>1, <3>1 DEF Processed
  <2> QED BY <2>1, <2>2, <2>3
<1>6. ASSUME NEW op \in {"burn", "mint"}, NEW k \in Tokens PROVE Due(op, k)' = Due(op, k)
  <2>1. Left(op, writer'[t], k) = SumOf(ChangesOf(op, Block[t]), k)
    BY <1>2, <1>4, NewWriter
  <2>2. Pending(op, k)' = Pending(op, k)
    BY <1>4, <1>5, <2>1 DEF Pending
  <2> QED BY <2>2 DEF Due
<1>7. WritersInOrder'
  <2>1. \A i, j \in 1..Len(writer'[t]) :
           i < j /\ writer'[t][i].op \in {"burn", "mint"} => writer'[t][j].op \in {"burn", "mint"}
    BY <1>2, <1>4, NewWriter
  <2> QED BY <1>4, <1>5, <2>1 DEF WritersInOrder
<1>8. WithinDue'
  BY <1>1, <1>6 DEF WithinDue
<1>9. OwnMintsDue'
  <2> SUFFICES ASSUME NEW s \in Txs, NEW k \in Creates(s),
                      Processed(s)', k \notin failed', s \notin cut'
               PROVE  supply'[k] >= (SumOf(Block[s].mints, k) - Left("mint", writer'[s], k))
                                      - ((deaths' + 1) * Burns(k) - Due("burn", k)')
    BY DEF OwnMintsDue
  <2>1. k \in Tokens
    BY CreatesTokens
  <2>2. Due("burn", k)' = Due("burn", k)
    BY <1>6, <2>1
  <2>3. CASE s # t
    BY <1>1, <1>4, <1>5, <2>2, <2>3 DEF OwnMintsDue
  <2>4. CASE s = t
    <3>1. Left("mint", writer'[s], k) = SumOf(Block[s].mints, k)
      BY <1>2, <1>4, <2>1, <2>4, NewWriter DEF ChangesOf
    <3>2. Due("burn", k) - supply[k] <= (deaths + 1) * Burns(k)
      BY <2>1 DEF WithinDue
    <3>3. /\ SumOf(Block[s].mints, k) \in Nat /\ Due("burn", k) \in Nat /\ supply[k] \in Int
          /\ (deaths + 1) * Burns(k) \in Int
      <4>1. SumOf(Block[s].mints, k) \in Nat /\ Due("burn", k) \in Nat /\ supply[k] \in Int
        BY <2>1, BlockSumsNat, DueNat DEF TableTypes
      <4> QED BY <4>1, DeliveredInt
    <3> QED BY <1>1, <2>2, <3>1, <3>2, <3>3
  <2> QED BY <2>3, <2>4
<1> QED BY <1>1, <1>7, <1>8, <1>9 DEF CutAcked

(* A writer executes its next statement, or the statement fails: what was  *)
(* due of it is in the supply, unless the token has no row or is failed.   *)
LEMMA SupplyWrite ==
  ASSUME HandOverInv, TableInv, SupplyInv, NEW t \in Txs, Write(t)
  PROVE  SupplyInv'
<1> USE DEF HandOverInv, TableInv, SupplyInv
<1>1. PICK q, h : q = writer[t] /\ h = Head(writer[t])
  OBVIOUS
<1>2. /\ q # <<>> /\ writer' = [writer EXCEPT ![t] = Tail(@)]
      /\ UNCHANGED <<worker, batch, pc, cut, deaths>>
  BY <1>1 DEF Write, InsertToken, SkipToken, UpdateTokenSupply, WriteFails, NextIs, Finish, channelVars
<1>3. q \in Seq(StatementType)
  BY <1>1 DEF TableTypes
<1>4. /\ h = q[1] /\ h \in StatementType /\ h.token \in Tokens /\ h.amount \in Nat
      /\ Len(q) \in Nat /\ Len(q) >= 1 /\ Len(Tail(q)) = Len(q) - 1
      /\ \A j \in 1..Len(Tail(q)) : j + 1 \in 1..Len(q) /\ Tail(q)[j] = q[j + 1]
  <2>1. /\ h = q[1] /\ h \in StatementType /\ Len(q) \in Nat /\ Len(q) >= 1
        /\ Len(Tail(q)) = Len(q) - 1
    BY <1>1, <1>2, <1>3
  <2>2. \A j \in 1..Len(Tail(q)) : j + 1 \in 1..Len(q) /\ Tail(q)[j] = q[j + 1]
    BY <1>2, <1>3, <2>1
  <2>3. h.token \in Tokens /\ h.amount \in Nat
    BY <2>1 DEF StatementType
  <2> QED BY <2>1, <2>2, <2>3
<1>5. /\ writer'[t] = Tail(q)
      /\ \A s \in Txs : s # t => writer'[s] = writer[s]
  BY <1>1, <1>2 DEF TableTypes
<1>6. Processed(t) /\ \A s \in Txs : Processed(s)' <=> Processed(s)
  <2>1. Processed(t)
    BY <1>1, <1>2 DEF WritersInOrder
  <2> QED BY <1>2, <2>1 DEF Processed
<1>7. ASSUME NEW op \in {"burn", "mint"}, NEW k \in Tokens
      PROVE  /\ Weight(op, h, k) \in Nat
             /\ Left(op, writer'[t], k) = Left(op, writer[t], k) - Weight(op, h, k)
             /\ Due(op, k)' = Due(op, k) - Weight(op, h, k)
  <2>1. Weight(op, h, k) \in Nat
    BY <1>4, WeightNat
  <2>2. Left(op, writer'[t], k) = Left(op, writer[t], k) - Weight(op, h, k)
    BY <1>1, <1>2, <1>3, <1>5, LeftTail
  <2>3. PICK f, g : f = Pending(op, k) /\ g = Pending(op, k)'
    OBVIOUS
  <2>4. t \in 1..Len(Block) /\ Len(Block) \in Nat
    BY BlockAssumption DEF Txs
  <2>5. \A s \in 1..Len(Block) : f[s] \in Nat
    BY <2>3, DueNat
  <2>6. \A s \in 1..Len(Block) : s # t => g[s] = f[s]
    BY <1>5, <1>6, <2>3 DEF Pending, Txs
  <2>7. g[t] = f[t] - Weight(op, h, k)
    BY <1>6, <2>2, <2>3 DEF Pending
  <2>8. Total(g, Len(Block)) = Total(f, Len(Block)) + g[t] - f[t]
    <3>1. \A s \in 1..Len(Block) : f[s] \in Int /\ g[s] \in Int /\ (s # t => f[s] = g[s])
      BY <2>1, <2>4, <2>5, <2>6, <2>7
    <3> QED BY ONLY <2>4, <3>1, TotalUpdate
  <2>9. Due(op, k)' = Total(g, Len(Block)) /\ Due(op, k) = Total(f, Len(Block))
    BY <2>3 DEF Due
  <2>10. Due(op, k) \in Nat /\ f[t] \in Nat
    BY <2>4, <2>5, DueNat
  <2> QED BY <2>1, <2>2, <2>7, <2>8, <2>9, <2>10
<1>8. ASSUME NEW k \in Tokens
      PROVE  /\ supply[k] \in Int /\ supply'[k] \in Int
             /\ supply'[k] <= supply[k] + Weight("mint", h, k)
             /\ supply'[k] >= supply[k] - Weight("burn", h, k)
             /\ k \notin failed' /\ (h.op \in {"burn", "mint"} => rows[k] # "absent") =>
                   supply'[k] = supply[k] + Weight("mint", h, k) - Weight("burn", h, k)
             /\ failed \subseteq failed'
  <2>1. supply[k] \in Int /\ supply \in [Tokens -> Int]
    BY DEF TableTypes
  <2>2. CASE InsertToken(t) \/ SkipToken(t)
    <3>1. UNCHANGED <<supply, failed>> /\ h.op \in {"launched", "created", "skip"}
      BY <1>1, <2>2 DEF InsertToken, SkipToken, NextIs, tableVars
    <3> QED BY <2>1, <3>1 DEF Weight
  <2>3. CASE UpdateTokenSupply(t)
    <3>1. /\ supply' = [supply EXCEPT ![h.token] =
                          IF rows[h.token] = "absent" THEN @
                          ELSE @ + (IF h.op = "mint" THEN h.amount ELSE -h.amount)]
          /\ UNCHANGED failed /\ h.op \in {"burn", "mint"}
      BY <1>1, <2>3 DEF UpdateTokenSupply, NextIs
    <3>2. CASE k = h.token /\ h.op = "mint"
      BY <1>4, <2>1, <3>1, <3>2 DEF Weight
    <3>3. CASE k = h.token /\ h.op = "burn"
      BY <1>4, <2>1, <3>1, <3>3 DEF Weight
    <3>4. CASE k # h.token
      BY <1>4, <2>1, <3>1, <3>4 DEF Weight
    <3> QED BY <3>1, <3>2, <3>3, <3>4
  <2>4. CASE WriteFails(t)
    <3>1. failed' = failed \union {h.token} /\ UNCHANGED supply
      BY <1>1, <2>4 DEF WriteFails, tableVars
    <3> QED BY <1>4, <2>1, <3>1 DEF Weight
  <2> QED BY <2>2, <2>3, <2>4 DEF Write
<1>9. WritersInOrder'
  <2>1. \A i, j \in 1..Len(writer'[t]) :
           i < j /\ writer'[t][i].op \in {"burn", "mint"} => writer'[t][j].op \in {"burn", "mint"}
    <3> SUFFICES ASSUME NEW i \in 1..Len(Tail(q)), NEW j \in 1..Len(Tail(q)), i < j,
                        Tail(q)[i].op \in {"burn", "mint"}
                 PROVE  Tail(q)[j].op \in {"burn", "mint"}
      BY <1>5
    <3>1. /\ i + 1 \in 1..Len(q) /\ j + 1 \in 1..Len(q) /\ i + 1 < j + 1
          /\ Tail(q)[i] = q[i + 1] /\ Tail(q)[j] = q[j + 1]
      BY <1>4
    <3> QED BY <1>1, <3>1 DEF WritersInOrder
  <2> QED BY <1>5, <1>6, <2>1 DEF WritersInOrder
<1>10. WithinDue'
  <2> SUFFICES ASSUME NEW k \in Tokens
               PROVE  /\ supply'[k] + Due("mint", k)' <= (deaths' + 1) * Mints(k)
                      /\ Due("burn", k)' - supply'[k] <= (deaths' + 1) * Burns(k)
    BY DEF WithinDue
  <2>1. /\ supply[k] + Due("mint", k) <= (deaths + 1) * Mints(k)
        /\ Due("burn", k) - supply[k] <= (deaths + 1) * Burns(k)
    BY DEF WithinDue
  <2>2. (deaths + 1) * Mints(k) \in Int /\ (deaths + 1) * Burns(k) \in Int
    BY DeliveredInt
  <2>3. Due("mint", k) \in Nat /\ Due("burn", k) \in Nat
    BY DueNat
  <2>4. /\ Weight("mint", h, k) \in Nat /\ Due("mint", k)' = Due("mint", k) - Weight("mint", h, k)
        /\ Weight("burn", h, k) \in Nat /\ Due("burn", k)' = Due("burn", k) - Weight("burn", h, k)
    BY <1>7
  <2>5. /\ supply[k] \in Int /\ supply'[k] \in Int
        /\ supply'[k] <= supply[k] + Weight("mint", h, k)
        /\ supply'[k] >= supply[k] - Weight("burn", h, k)
    BY <1>8
  <2>6. (deaths' + 1) * Mints(k) = (deaths + 1) * Mints(k) /\ (deaths' + 1) * Burns(k) = (deaths + 1) * Burns(k)
    BY <1>2
  <2> QED BY <2>1, <2>2, <2>3, <2>4, <2>5, <2>6
<1>11. OwnMintsDue'
  <2> SUFFICES ASSUME NEW s \in Txs, NEW k \in Creates(s),
                      Processed(s)', k \notin failed', s \notin cut'
               PROVE  supply'[k] >= (SumOf(Block[s].mints, k) - Left("mint", writer'[s], k))
                                      - ((deaths' + 1) * Burns(k) - Due("burn", k)')
    BY DEF OwnMintsDue
  <2>1. k \in Tokens
    BY CreatesTokens
  <2>2. k \notin failed /\ s \notin cut /\ Processed(s)
    BY <1>2, <1>6, <1>8, <2>1
  <2>3. supply[k] >= (SumOf(Block[s].mints, k) - Left("mint", writer[s], k))
                         - ((deaths + 1) * Burns(k) - Due("burn", k))
    BY <2>2 DEF OwnMintsDue
  <2>4. /\ SumOf(Block[s].mints, k) \in Nat /\ Due("burn", k) \in Nat
        /\ (deaths + 1) * Burns(k) \in Int /\ (deaths' + 1) * Burns(k) = (deaths + 1) * Burns(k)
    BY <1>2, <2>1, BlockSumsNat, DueNat, DeliveredInt
  <2>5. writer[s] \in Seq(StatementType)
    BY DEF TableTypes
  <2>6. Left("mint", writer[s], k) \in Nat
    BY <2>5, LeftNat
  <2>7. /\ Weight("mint", h, k) \in Nat /\ Weight("burn", h, k) \in Nat
        /\ Due("burn", k)' = Due("burn", k) - Weight("burn", h, k)
    BY <1>7, <2>1
  <2>8. supply[k] \in Int /\ supply'[k] \in Int /\ supply'[k] >= supply[k] - Weight("burn", h, k)
    BY <1>8, <2>1
  <2>9. CASE s # t
    <3>1. writer'[s] = writer[s]
      BY <1>5, <2>9
    <3> QED BY <2>3, <2>4, <2>6, <2>7, <2>8, <3>1
  <2>10. CASE s = t
    <3>1. h.op \in {"burn", "mint"} => rows[k] # "absent"
      <4> SUFFICES ASSUME h.op \in {"burn", "mint"}, rows[k] = "absent" PROVE FALSE
        OBVIOUS
      <4>1. PICK j \in 1..Len(q) : q[j].op \in {"launched", "created"}
        BY <1>1, <2>2, <2>10 DEF RowsKnown
      <4>2. j # 1 /\ 1 \in 1..Len(q) /\ 1 < j
        BY <1>4, <4>1
      <4>3. q[j].op \in {"burn", "mint"}
        BY <1>1, <1>4, <4>2 DEF WritersInOrder
      <4> QED BY <4>1, <4>3
    <3>2. supply'[k] = supply[k] + Weight("mint", h, k) - Weight("burn", h, k)
      BY <1>8, <2>1, <3>1
    <3>3. Left("mint", writer'[s], k) = Left("mint", writer[s], k) - Weight("mint", h, k)
      BY <1>7, <2>1, <2>10
    <3> QED BY <2>3, <2>4, <2>6, <2>7, <2>8, <3>2, <3>3
  <2> QED BY <2>9, <2>10
<1> QED BY <1>2, <1>9, <1>10, <1>11 DEF CutAcked

(* A death: the writers end, and all of the block is due again unless it   *)
(* was acknowledged.                                                       *)
LEMMA SupplyDie ==
  ASSUME HandOverInv, TableInv, SupplyInv, Die
  PROVE  SupplyInv'
<1> USE DEF HandOverInv, TableInv, SupplyInv
<1>1. /\ writer' = [t \in Txs |-> <<>>] /\ deaths' = deaths + 1 /\ UNCHANGED <<supply, failed>>
      /\ \A t \in Txs : writer'[t] = <<>> /\ Len(writer'[t]) = 0
  BY DEF Die, tableVars
<1>2. Len(Block) \in Nat /\ Txs = 1..Len(Block)
  BY BlockAssumption DEF Txs
<1>3. \A op, k : Left(op, <<>>, k) = 0
  <2>1. <<>> \in Seq(StatementType)
    OBVIOUS
  <2> QED BY <2>1, LeftNat
<1>4. ASSUME NEW k \in Tokens
      PROVE  /\ Due("mint", k)' \in Int /\ Due("mint", k)' <= Mints(k)
             /\ Due("burn", k)' \in Int /\ Due("burn", k)' <= Burns(k)
             /\ pc = "acked" => Due("burn", k)' = 0
  <2>1. ASSUME NEW op \in {"burn", "mint"}, NEW B, B = [t \in Txs |-> SumOf(ChangesOf(op, Block[t]), k)]
        PROVE  /\ Due(op, k)' \in Int /\ Due(op, k)' <= Total(B, Len(Block))
               /\ pc = "acked" => Due(op, k)' = 0
    <3>1. PICK g : g = Pending(op, k)'
      OBVIOUS
    <3>2. \A t \in Txs : B[t] \in Nat
      BY <2>1, BlockSumsNat DEF ChangesOf
    <3>3. \A t \in Txs : g[t] = IF Processed(t)' THEN 0 ELSE B[t]
      BY <1>1, <1>3, <2>1, <3>1 DEF Pending
    <3>4. \A t \in 1..Len(Block) : g[t] \in Int /\ B[t] \in Int /\ g[t] <= B[t]
      BY <1>2, <3>2, <3>3
    <3>5. Total(g, Len(Block)) \in Int /\ Total(g, Len(Block)) <= Total(B, Len(Block))
      BY ONLY <1>2, <3>4, TotalInt, TotalMonotone
    <3>6. pc = "acked" => Total(g, Len(Block)) = 0
      <4> SUFFICES ASSUME pc = "acked" PROVE Total(g, Len(Block)) = 0
        OBVIOUS
      <4>1. UNCHANGED batch
        BY DEF Die, channelVars
      <4>2. \A t \in Txs : batch[t] = 1
        BY ClosedIsWhole DEF Closed
      <4>3. \A t \in Txs : Processed(t)'
        BY <4>1, <4>2 DEF Processed
      <4>4. \A t \in 1..Len(Block) : g[t] = 0
        BY <1>2, <3>3, <4>3
      <4> QED BY ONLY <1>2, <4>4, TotalOfZeros
    <3> QED BY <3>1, <3>5, <3>6 DEF Due
  <2>2. PICK m, b : m = [t \in Txs |-> SumOf(Block[t].mints, k)] /\ b = [t \in Txs |-> SumOf(Block[t].burns, k)]
    OBVIOUS
  <2>3. m = [t \in Txs |-> SumOf(ChangesOf("mint", Block[t]), k)]
    BY <2>2 DEF ChangesOf
  <2>4. b = [t \in Txs |-> SumOf(ChangesOf("burn", Block[t]), k)]
    BY <2>2 DEF ChangesOf
  <2> QED BY <2>1, <2>2, <2>3, <2>4 DEF Mints, Burns
<1>5. WritersInOrder'
  BY <1>1 DEF WritersInOrder
<1>6. ASSUME NEW k \in Tokens
      PROVE  /\ supply[k] \in Int
             /\ Mints(k) \in Nat /\ Burns(k) \in Nat /\ Due("mint", k) \in Nat /\ Due("burn", k) \in Nat
             /\ (deaths + 1) * Mints(k) \in Int /\ (deaths + 1) * Burns(k) \in Int
             /\ (deaths' + 1) * Mints(k) = (deaths + 1) * Mints(k) + Mints(k)
             /\ (deaths' + 1) * Burns(k) = (deaths + 1) * Burns(k) + Burns(k)
  BY <1>1, BlockSumsNat, DueNat, DeliveredInt DEF TableTypes
<1>7. WithinDue'
  <2> SUFFICES ASSUME NEW k \in Tokens
               PROVE  /\ supply'[k] + Due("mint", k)' <= (deaths' + 1) * Mints(k)
                      /\ Due("burn", k)' - supply'[k] <= (deaths' + 1) * Burns(k)
    BY DEF WithinDue
  <2>1. /\ supply[k] + Due("mint", k) <= (deaths + 1) * Mints(k)
        /\ Due("burn", k) - supply[k] <= (deaths + 1) * Burns(k)
    BY DEF WithinDue
  <2>2. supply'[k] = supply[k] /\ supply[k] \in Int
    BY <1>1, <1>6
  <2>3. PICK m, p, q, d, e : /\ m = Mints(k) /\ p = (deaths + 1) * Mints(k) /\ q = (deaths' + 1) * Mints(k)
                             /\ d = Due("mint", k) /\ e = Due("mint", k)'
    OBVIOUS
  <2>4. q = p + m /\ m \in Nat /\ p \in Int /\ d \in Nat /\ e \in Int /\ e <= m
    BY <1>4, <1>6, <2>3
  <2>5. supply'[k] + e <= q
    <3>1. supply[k] + d <= p
      BY <2>1, <2>3
    <3> QED BY ONLY <2>2, <2>4, <3>1
  <2>6. PICK m2, p2, q2, d2, e2 : /\ m2 = Burns(k) /\ p2 = (deaths + 1) * Burns(k) /\ q2 = (deaths' + 1) * Burns(k)
                                  /\ d2 = Due("burn", k) /\ e2 = Due("burn", k)'
    OBVIOUS
  <2>7. q2 = p2 + m2 /\ m2 \in Nat /\ p2 \in Int /\ d2 \in Nat /\ e2 \in Int /\ e2 <= m2
    BY <1>4, <1>6, <2>6
  <2>8. e2 - supply'[k] <= q2
    <3>1. d2 - supply[k] <= p2
      BY <2>1, <2>6
    <3> QED BY ONLY <2>2, <2>7, <3>1
  <2> QED BY <2>3, <2>5, <2>6, <2>8
<1>8. OwnMintsDue'
  <2> SUFFICES ASSUME NEW s \in Txs, NEW k \in Creates(s),
                      Processed(s)', k \notin failed', s \notin cut'
               PROVE  supply'[k] >= (SumOf(Block[s].mints, k) - Left("mint", writer'[s], k))
                                      - ((deaths' + 1) * Burns(k) - Due("burn", k)')
    BY DEF OwnMintsDue
  <2>1. CASE pc = "acked"
    <3>1. /\ cut' = cut \union {t \in Txs : writer[t] # <<>>} /\ UNCHANGED <<worker, batch>>
      BY <2>1 DEF Die, channelVars
    <3>2. s \notin cut /\ writer[s] = <<>> /\ Processed(s)
      BY <3>1 DEF Processed
    <3>3. k \in Tokens /\ k \notin failed
      BY <1>1, CreatesTokens
    <3>4. Left("mint", writer[s], k) = 0 /\ Left("mint", writer'[s], k) = 0
      BY <1>1, <1>3, <3>2
    <3>5. supply[k] >= (SumOf(Block[s].mints, k) - Left("mint", writer[s], k))
                         - ((deaths + 1) * Burns(k) - Due("burn", k))
      BY <3>2, <3>3 DEF OwnMintsDue
    <3>6. SumOf(Block[s].mints, k) \in Nat
      BY BlockSumsNat
    <3>7. PICK m, p, q, d, e : /\ m = Burns(k) /\ p = (deaths + 1) * Burns(k) /\ q = (deaths' + 1) * Burns(k)
                               /\ d = Due("burn", k) /\ e = Due("burn", k)'
      OBVIOUS
    <3>8. q = p + m /\ m \in Nat /\ p \in Int /\ d \in Nat /\ e = 0
      BY <1>4, <1>6, <2>1, <3>3, <3>7
    <3>9. supply'[k] = supply[k] /\ supply[k] \in Int
      BY <1>1, <1>6, <3>3
    <3>10. PICK o : o = SumOf(Block[s].mints, k)
      OBVIOUS
    <3>11. supply'[k] >= (o - 0) - (q - e)
      <4>1. supply[k] >= (o - 0) - (p - d) /\ o \in Nat
        BY <3>4, <3>5, <3>6, <3>7, <3>10
      <4> QED BY ONLY <3>8, <3>9, <4>1
    <3> QED BY <3>4, <3>7, <3>10, <3>11
  <2>2. CASE pc # "acked"
    <3>1. worker' = [w \in TxWorkers |-> Waiting] /\ batch' = [t \in Txs |-> 0]
      BY <2>2 DEF Die
    <3>2. ~ Processed(s)'
      BY <3>1 DEF Processed, Waiting
    <3> QED BY <3>2
  <2> QED BY <2>1, <2>2
<1>9. CutAcked'
  BY DEF CutAcked, Die, channelVars
<1> QED BY <1>5, <1>7, <1>8, <1>9

(* Every step keeps the invariant.                                         *)
LEMMA SupplyStep == IInv /\ SupplyInv /\ [Next]_vars => SupplyInv'
<1> SUFFICES ASSUME IInv, SupplyInv, [Next]_vars PROVE SupplyInv'
  OBVIOUS
<1> QED BY SupplyHandOver, SupplyProcess, SupplyWrite, SupplyDie DEF IInv, Next, TxWorker

(* The initial state: everything is due.                                   *)
LEMMA SupplyInit == Init => SupplyInv
<1> SUFFICES ASSUME Init PROVE SupplyInv
  OBVIOUS
<1>1. \A t \in Txs : ~ Processed(t)
  BY DEF Init, Processed, Waiting
<1>2. \A t \in Txs : writer[t] = <<>> /\ Len(writer[t]) = 0
  BY DEF Init
<1>3. ASSUME NEW k \in Tokens
      PROVE  supply[k] = 0 /\ deaths = 0 /\ Due("mint", k) = Mints(k) /\ Due("burn", k) = Burns(k)
  <2>1. supply[k] = 0 /\ deaths = 0
    BY DEF Init
  <2>2. Pending("mint", k) = [t \in Txs |-> SumOf(Block[t].mints, k)]
    BY <1>1 DEF Pending, ChangesOf
  <2>3. Pending("burn", k) = [t \in Txs |-> SumOf(Block[t].burns, k)]
    BY <1>1 DEF Pending, ChangesOf
  <2> QED BY <2>1, <2>2, <2>3 DEF Due, Mints, Burns
<1>4. WithinDue
  <2> SUFFICES ASSUME NEW k \in Tokens
               PROVE  /\ supply[k] + Due("mint", k) <= (deaths + 1) * Mints(k)
                      /\ Due("burn", k) - supply[k] <= (deaths + 1) * Burns(k)
    BY DEF WithinDue
  <2>1. Mints(k) \in Nat /\ Burns(k) \in Nat
    BY BlockSumsNat
  <2> QED BY <1>3, <2>1
<1>5. WritersInOrder
  BY <1>2 DEF WritersInOrder
<1> QED BY <1>1, <1>4, <1>5 DEF SupplyInv, OwnMintsDue, CutAcked, Init

(* However often the block is delivered, and wherever writers are cut      *)
(* short: a supply stays within the mints and the burns of the block times *)
(* its deliveries, and the mints of the transaction that creates a token   *)
(* are in it.                                                              *)
THEOREM SuppliesStayBounded == Spec => []SuppliesBounded
<1>1. IInv /\ SupplyInv => SuppliesBounded
  <2> SUFFICES ASSUME IInv, SupplyInv PROVE SuppliesBounded
    OBVIOUS
  <2> USE DEF IInv, HandOverInv, TableInv, SupplyInv
  <2>1. ASSUME NEW k \in Tokens
        PROVE  /\ supply[k] \in Int /\ Due("mint", k) \in Nat /\ Due("burn", k) \in Nat
               /\ (deaths + 1) * Mints(k) \in Int /\ (deaths + 1) * Burns(k) \in Int
    BY DueNat, DeliveredInt DEF TableTypes
  <2>2. SupplyWithinDeliveries
    <3> SUFFICES ASSUME NEW k \in Tokens
                 PROVE  /\ supply[k] <= (deaths + 1) * Mints(k)
                        /\ supply[k] >= -((deaths + 1) * Burns(k))
      BY DEF SupplyWithinDeliveries
    <3>1. /\ supply[k] + Due("mint", k) <= (deaths + 1) * Mints(k)
          /\ Due("burn", k) - supply[k] <= (deaths + 1) * Burns(k)
      BY DEF WithinDue
    <3> QED BY <2>1, <3>1
  <2>3. OwnMintsCount
    <3> SUFFICES ASSUME pc = "acked", NEW t \in Txs, NEW k \in Creates(t) \ failed,
                        writer[t] = <<>>, t \notin cut
                 PROVE  supply[k] >= SumOf(Block[t].mints, k) - (deaths + 1) * Burns(k)
      BY DEF OwnMintsCount
    <3>1. k \in Tokens
      BY CreatesTokens
    <3>2. Processed(t)
      BY ClosedIsWhole DEF Closed, Processed
    <3>3. Left("mint", writer[t], k) = 0
      BY LeftNat DEF TableTypes
    <3>4. supply[k] >= (SumOf(Block[t].mints, k) - Left("mint", writer[t], k))
                         - ((deaths + 1) * Burns(k) - Due("burn", k))
      BY <3>2 DEF OwnMintsDue
    <3>5. SumOf(Block[t].mints, k) \in Nat
      BY BlockSumsNat
    <3> QED BY <2>1, <3>1, <3>3, <3>4, <3>5
  <2> QED BY <2>2, <2>3 DEF SuppliesBounded
<1> QED BY <1>1, InvInit, InvStep, SupplyInit, SupplyStep, PTL DEF Spec

-----------------------------------------------------------------------------
(* What Process does with one transaction: SwapHandler, for every          *)
(* transaction, whatever its transfers.  What a delivery writes is a       *)
(* function of the transfers, so that a second delivery finds every row of *)
(* it in conflict.                                                         *)
(* What the loop of HandleSwaps finds at transfer k, and where it goes on. *)
Found(ts, k) ==
    LET t == ts[k]
        swap == ProcessTransfer(ts, k).swap
    IN  IF IsSwap(t, swap) THEN IF swap.tokenIn = swap.tokenOut THEN <<>> ELSE <<swap>>
        ELSE IF IsTransfer(t) /\ t.mint \notin QuoteTokens THEN <<Receipt(t), Payment(t)>>
        ELSE <<>>

After(ts, k) ==
    LET t == ts[k]
        r == ProcessTransfer(ts, k)
        stays == \/ IsSwap(t, r.swap) /\ r.swap.tokenIn = r.swap.tokenOut
                 \/ ~IsSwap(t, r.swap) /\ IsTransfer(t) /\ t.mint \in QuoteTokens
    IN  IF stays THEN k + 1 ELSE k + 1 + r.inc

FoundIn(ts) == UNION {Elements(Found(ts, k)) : k \in 1..Len(ts)}

(* What it finds from each transfer on.                                    *)
IsRest(ts, R) ==
    /\ R \in [1..(Len(ts) + 1) -> Seq(FoundIn(ts))]
    /\ R[Len(ts) + 1] = <<>>
    /\ \A k \in 1..Len(ts) : R[k] = Found(ts, k) \o R[After(ts, k)]

Rest(ts) == CHOOSE R : IsRest(ts, R)

AllSwaps(ts) == IF ValidateTX(ts) THEN Rest(ts)[1] ELSE <<>>
AllRows(ts)  == Final(Built(AllSwaps(ts)))
AllTable(ts) == Inserted(<<>>, AllRows(ts))

-----------------------------------------------------------------------------
(* The invariant: a delivery is on its way to AllSwaps, has its rows, and  *)
(* has left AllTable.                                                      *)

ScanInv ==
    stage = "scan" =>
        /\ at \in 1..(Len(transfers) + 1)
        /\ swaps \in Seq(FoundIn(transfers))
        /\ ValidateTX(transfers) => swaps \o Rest(transfers)[at] = Rest(transfers)[1]
        /\ ~ValidateTX(transfers) => swaps = <<>>

SwapTableInv == /\ table \in {<<>>, AllTable(transfers)}
                /\ stage = "done" => table = AllTable(transfers)

SwapInv ==
    /\ transfers \in Inputs
    /\ stage \in {"scan", "build", "insert", "done"}
    /\ ScanInv
    /\ stage = "build" => swaps = AllSwaps(transfers)
    /\ stage \in {"insert", "done"} => finalSwaps = AllRows(transfers)
    /\ SwapTableInv

-----------------------------------------------------------------------------
(* The scan.                                                               *)

(* A handler uses at most one further transfer, and only if there is one.  *)
LEMMA Increments ==
  ASSUME NEW ts, NEW k \in 1..Len(ts), Len(ts) \in Nat
  PROVE  /\ ProcessTransfer(ts, k).inc \in {0, 1}
         /\ ProcessTransfer(ts, k).inc = 1 => k < Len(ts) /\ Paired(ts, k)
<1>1. \A a, b : Result(a, b).inc = b
  BY DEF Result
<1>2. \E a : \/ ProcessTransfer(ts, k) = Result(a, 0)
             \/ Paired(ts, k) /\ ProcessTransfer(ts, k) = Result(a, 1)
  <2>1. \E a : AmmSwaps(ts, k) = Result(a, 0) \/ (Paired(ts, k) /\ AmmSwaps(ts, k) = Result(a, 1))
    BY DEF AmmSwaps
  <2>2. \E a : \/ HandleMeteoraSwaps(ts, k) = Result(a, 0)
               \/ Paired(ts, k) /\ HandleMeteoraSwaps(ts, k) = Result(a, 1)
    BY DEF HandleMeteoraSwaps
  <2>3. \E a : \/ HandleOrcaSwaps(ts, k) = Result(a, 0)
               \/ Paired(ts, k) /\ HandleOrcaSwaps(ts, k) = Result(a, 1)
    BY DEF HandleOrcaSwaps
  <2>4. \E a : \/ HandlePumpFunSwaps(ts, k) = Result(a, 0)
               \/ Paired(ts, k) /\ HandlePumpFunSwaps(ts, k) = Result(a, 1)
    BY DEF HandlePumpFunSwaps
  <2> QED BY <2>1, <2>2, <2>3, <2>4
          DEF ProcessTransfer, HandleRaydiumSwaps, HandleRaydiumConcentratedSwaps,
              HandleRaydiumCPMMSwaps, HandleRaydiumLaunchpadSwaps, HandlePumpFunAmmSwaps
<1> QED BY <1>1, <1>2 DEF Paired

(* The loop over the transfers goes forward, at most to the end.           *)
LEMMA AfterLater ==
  ASSUME NEW ts, NEW k \in 1..Len(ts), Len(ts) \in Nat
  PROVE  After(ts, k) \in (k + 1)..(Len(ts) + 1)
<1>1. /\ ProcessTransfer(ts, k).inc \in {0, 1}
      /\ ProcessTransfer(ts, k).inc = 1 => k < Len(ts)
  BY Increments
<1>2. After(ts, k) \in {k + 1, k + 1 + ProcessTransfer(ts, k).inc}
  BY DEF After
<1> QED BY <1>1, <1>2

(* What one round of the loop appends are swaps made of the transfers.     *)
LEMMA FoundSeq ==
  ASSUME NEW ts, NEW k \in 1..Len(ts), Len(ts) \in Nat
  PROVE  Found(ts, k) \in Seq(FoundIn(ts))
<1>1. PICK a, b : Found(ts, k) \in {<<>>, <<a>>, <<a, b>>}
  BY DEF Found
<1>2. Found(ts, k) \in Seq(Elements(Found(ts, k)))
  <2>1. CASE Found(ts, k) = <<>>
    BY <2>1
  <2>2. CASE Found(ts, k) = <<a>>
    <3>1. Elements(<<a>>) = {a}
      BY DEF Elements
    <3> QED BY <2>2, <3>1
  <2>3. CASE Found(ts, k) = <<a, b>>
    <3>1. Elements(<<a, b>>) = {a, b}
      BY DEF Elements
    <3> QED BY <2>3, <3>1
  <2> QED BY <1>1, <2>1, <2>2, <2>3
<1>3. Elements(Found(ts, k)) \subseteq FoundIn(ts)
  BY DEF FoundIn
<1> QED BY <1>2, <1>3

(* What is found from each transfer on is well defined.                    *)
LEMMA RestExists ==
  ASSUME NEW ts, Len(ts) \in Nat
  PROVE  IsRest(ts, Rest(ts))
<1> DEFINE n == Len(ts)
           X == FoundIn(ts)
           Upto(m) == \E R \in [(n + 1 - m)..(n + 1) -> Seq(X)] :
                         /\ R[n + 1] = <<>>
                         /\ \A k \in (n + 1 - m)..n : R[k] = Found(ts, k) \o R[After(ts, k)]
           T == {m \in Nat : m <= n => Upto(m)}
<1>1. 0 \in T
  <2> DEFINE R == [k \in (n + 1)..(n + 1) |-> <<>>]
  <2>1. R \in [(n + 1 - 0)..(n + 1) -> Seq(X)] /\ R[n + 1] = <<>>
    <3>1. n \in Nat
      OBVIOUS
    <3> HIDE DEF n, X
    <3>2. n + 1 - 0 = n + 1 /\ n + 1 \in (n + 1)..(n + 1)
      BY ONLY <3>1
    <3>3. <<>> \in Seq(X)
      BY ONLY SMT
    <3>4. R \in [(n + 1)..(n + 1) -> Seq(X)]
      BY <3>3
    <3>5. R[n + 1] = <<>>
      BY <3>2
    <3> HIDE DEF R
    <3> QED BY ONLY <3>2, <3>4, <3>5
  <2>2. \A k \in (n + 1 - 0)..n : FALSE
    OBVIOUS
  <2> QED BY <2>1, <2>2
<1>2. ASSUME NEW m \in Nat, m \in T PROVE m + 1 \in T
  <2> HIDE DEF n, Upto
  <2> SUFFICES ASSUME m + 1 <= n PROVE Upto(m + 1)
    BY m + 1 \in Nat
  <2> USE DEF n, Upto
  <2>1. PICK R \in [(n + 1 - m)..(n + 1) -> Seq(X)] :
               /\ R[n + 1] = <<>>
               /\ \A k \in (n + 1 - m)..n : R[k] = Found(ts, k) \o R[After(ts, k)]
    BY <1>2
  <2>2. PICK d : d = n - m
    OBVIOUS
  <2>3. d \in 1..n /\ n + 1 - m = d + 1 /\ n + 1 - (m + 1) = d
    BY <2>2
  <2>4. After(ts, d) \in (d + 1)..(n + 1) /\ Found(ts, d) \in Seq(X)
    BY <2>3, AfterLater, FoundSeq
  <2> DEFINE f == Found(ts, d) \o R[After(ts, d)]
             Q == [k \in d..(n + 1) |-> IF k = d THEN f ELSE R[k]]
  <2>5. f \in Seq(X)
    <3>1. R[After(ts, d)] \in Seq(X)
      BY <2>1, <2>3, <2>4
    <3> QED BY <2>4, <3>1
  <2>6. \A k \in d..(n + 1) : k = d \/ k \in (d + 1)..(n + 1)
    BY <2>3
  <2>7. \A k \in (d + 1)..(n + 1) : R[k] \in Seq(X)
    BY <2>1, <2>3
  <2> HIDE DEF X, f
  <2>8. Q \in [d..(n + 1) -> Seq(X)]
    BY <2>5, <2>6, <2>7
  <2>9. /\ \A k \in (d + 1)..(n + 1) : Q[k] = R[k]
        /\ Q[d] = f
    BY <2>3
  <2>10. Q[n + 1] = <<>>
    BY <2>1, <2>3, <2>9
  <2>11. ASSUME NEW k \in d..n PROVE Q[k] = Found(ts, k) \o Q[After(ts, k)]
    <3>1. After(ts, k) \in (d + 1)..(n + 1)
      <4>1. k \in 1..Len(ts) /\ After(ts, k) \in (k + 1)..(n + 1)
        BY <2>3, AfterLater
      <4> QED BY <2>3, <4>1
    <3>2. CASE k = d
      BY <2>9, <3>1, <3>2 DEF f
    <3>3. CASE k # d
      <4>1. k \in (d + 1)..n /\ k \in (d + 1)..(n + 1) /\ k \in (n + 1 - m)..n
        BY <2>3, <3>3
      <4> QED BY <2>1, <2>9, <3>1, <4>1
    <3> QED BY <3>2, <3>3
  <2> HIDE DEF Q
  <2> QED BY <2>3, <2>8, <2>10, <2>11
<1> HIDE DEF T
<1>3. n \in T
  BY <1>1, <1>2, Induction
<1>4. Upto(n) /\ n + 1 - n = 1
  BY <1>3 DEF T
<1>5. \E R : IsRest(ts, R)
  BY <1>4 DEF IsRest
<1> QED BY <1>5 DEF Rest
-----------------------------------------------------------------------------
(* The rows.                                                               *)

(* What the loop will append from a transfer on is what this round         *)
(* appends, and then what the rounds from the next one on append.          *)
LEMMA FoundNext ==
  ASSUME NEW ts, Len(ts) \in Nat
  PROVE  /\ Rest(ts)[Len(ts) + 1] = <<>>
         /\ \A k \in 1..(Len(ts) + 1) : Rest(ts)[k] \in Seq(FoundIn(ts))
         /\ \A k \in 1..Len(ts) : /\ Rest(ts)[k] = Found(ts, k) \o Rest(ts)[After(ts, k)]
                                  /\ After(ts, k) \in 1..(Len(ts) + 1)
<1>1. IsRest(ts, Rest(ts))
  BY RestExists
<1>2. \A k \in 1..Len(ts) : After(ts, k) \in 1..(Len(ts) + 1)
  <2> SUFFICES ASSUME NEW k \in 1..Len(ts) PROVE After(ts, k) \in 1..(Len(ts) + 1)
    OBVIOUS
  <2>1. After(ts, k) \in (k + 1)..(Len(ts) + 1)
    BY AfterLater
  <2> QED BY <2>1
<1> QED BY <1>1, <1>2 DEF IsRest

(* A row has these columns and no others.                                  *)
IsRow(r) == r = [wallet |-> r.wallet, action |-> r.action, token |-> r.token,
                 pair |-> r.pair, amountOut |-> r.amountOut, amountIn |-> r.amountIn]

(* The rows of a delivery are a sequence of rows.                          *)
LEMMA AllRowsSeq ==
  ASSUME NEW ts, Len(ts) \in Nat
  PROVE  \E X : AllRows(ts) \in Seq(X) /\ \A r \in X : IsRow(r)
<1>1. AllSwaps(ts) \in Seq(FoundIn(ts))
  <2>1. 1 \in 1..(Len(ts) + 1)
    OBVIOUS
  <2> QED BY <2>1, FoundNext DEF AllSwaps
<1> DEFINE U == {s \in Elements(AllSwaps(ts)) : Usable(s)}
           usable == Keep(AllSwaps(ts), U)
           X == {RowOf(s) : s \in FoundIn(ts)}
<1>2. usable \in Seq(FoundIn(ts) \intersect U)
  BY <1>1, KeepSeq
<1>3. Built(AllSwaps(ts)) = [k \in 1..Len(usable) |-> RowOf(usable[k])]
  BY DEF Built
<1>4. Built(AllSwaps(ts)) \in Seq(X)
  <2> HIDE DEF usable, U
  <2>1. Len(usable) \in Nat /\ \A k \in 1..Len(usable) : usable[k] \in FoundIn(ts)
    BY <1>2
  <2>2. \A k \in 1..Len(usable) : RowOf(usable[k]) \in X
    BY <2>1
  <2> HIDE DEF X
  <2> QED BY <1>3, <2>1, <2>2
<1>5. \A r \in X : IsRow(r)
  BY DEF IsRow, RowOf
<1> HIDE DEF X
<1>6. PICK S : AllRows(ts) \in Seq(X \intersect S)
  BY <1>4, KeepSeq DEF AllRows, Final
<1> QED BY <1>5, <1>6

-----------------------------------------------------------------------------
(* INSERT ... ON CONFLICT DO NOTHING.                                      *)

Covers(t, r) == \E q \in Elements(t) : Key(q) = Key(r)

(* An insert keeps the table's rows, adds at most its own, and covers it;  *)
(* one that conflicts changes nothing.                                     *)
LEMMA InsertOne ==
  ASSUME NEW X, NEW t \in Seq(X), NEW r \in X
  PROVE  /\ InsertOrConflict(t, r) \in Seq(X)
         /\ Elements(t) \subseteq Elements(InsertOrConflict(t, r))
         /\ Elements(InsertOrConflict(t, r)) \subseteq Elements(t) \union {r}
         /\ Covers(InsertOrConflict(t, r), r)
         /\ Covers(t, r) => InsertOrConflict(t, r) = t
<1>1. CASE Covers(t, r)
  BY <1>1 DEF InsertOrConflict, Covers
<1>2. CASE ~Covers(t, r)
  <2>1. InsertOrConflict(t, r) = Append(t, r)
    BY <1>2 DEF InsertOrConflict, Covers
  <2>2. /\ Append(t, r) \in Seq(X) /\ Len(t) \in Nat /\ Len(Append(t, r)) = Len(t) + 1
        /\ \A k \in 1..Len(t) : Append(t, r)[k] = t[k]
        /\ Append(t, r)[Len(t) + 1] = r
    OBVIOUS
  <2>3. Elements(Append(t, r)) = Elements(t) \union {r}
    <3>1. \A k \in 1..(Len(t) + 1) : k \in 1..Len(t) \/ k = Len(t) + 1
      BY <2>2
    <3>2. \A k \in 1..Len(t) : k \in 1..(Len(t) + 1)
      BY <2>2
    <3>3. Len(t) + 1 \in 1..(Len(t) + 1)
      BY <2>2
    <3> QED BY <2>2, <3>1, <3>2, <3>3 DEF Elements
  <2> QED BY <1>2, <2>1, <2>2, <2>3 DEF Covers
<1> QED BY <1>1, <1>2

(* Over all rows: nothing but rows is added, every key is there in the     *)
(* end, and where every key was there, nothing changes.                    *)
LEMMA InsertAll ==
  ASSUME NEW X, NEW t \in Seq(X), NEW rs \in Seq(X)
  PROVE  /\ Inserted(t, rs) \in Seq(X)
         /\ Elements(Inserted(t, rs)) \subseteq Elements(t) \union Elements(rs)
         /\ \A r \in Elements(rs) : Covers(Inserted(t, rs), r)
         /\ (\A r \in Elements(rs) : Covers(t, r)) => Inserted(t, rs) = t
<1> DEFINE n == Len(rs)
           step == [p \in Seq(X) \X (1..n) |-> InsertOrConflict(p[1], rs[p[2]])]
           ins == CHOOSE g : g = [k \in 0..n |-> IF k = 0 THEN t ELSE InsertOrConflict(g[k - 1], rs[k])]
<1>1. n \in Nat /\ \A k \in 1..n : rs[k] \in X
  OBVIOUS
<1>2. \A z \in Seq(X) : \A k \in 1..n : step[<<z, k>>] = InsertOrConflict(z, rs[k])
  OBVIOUS
<1> HIDE DEF step, n
<1>3. \A z \in Seq(X) : \A k \in 1..n : step[<<z, k>>] \in Seq(X)
  <2> SUFFICES ASSUME NEW z \in Seq(X), NEW k \in 1..n PROVE step[<<z, k>>] \in Seq(X)
    OBVIOUS
  <2>1. rs[k] \in X
    BY <1>1
  <2>2. InsertOrConflict(z, rs[k]) \in Seq(X)
    BY ONLY z \in Seq(X), <2>1, InsertOne
  <2> QED BY <1>2, <2>2
<1>4. PICK g \in [0..n -> Seq(X)] : Iterates(g, t, step, n)
  <2>1. StaysIn(Seq(X), step, n)
    BY <1>3 DEF StaysIn
  <2> QED BY ONLY <1>1, <2>1, t \in Seq(X), RecursionExists
<1>5. ASSUME NEW k \in 1..n PROVE g[k] = InsertOrConflict(g[k - 1], rs[k])
  <2>1. k - 1 \in 0..n /\ g[k - 1] \in Seq(X)
    BY <1>1
  <2> QED BY <1>2, <1>4, <2>1 DEF Iterates
<1>6. g = [k \in 0..n |-> IF k = 0 THEN t ELSE InsertOrConflict(g[k - 1], rs[k])]
  <2>1. g[0] = t /\ g = [k \in 0..n |-> g[k]]
    BY <1>4 DEF Iterates
  <2>2. \A k \in 0..n : g[k] = IF k = 0 THEN t ELSE InsertOrConflict(g[k - 1], rs[k])
    <3>1. \A k \in 0..n : k # 0 => k \in 1..n
      BY <1>1
    <3> QED BY <1>5, <2>1, <3>1
  <2> QED BY ONLY <2>1, <2>2
<1>7. ins = [k \in 0..n |-> IF k = 0 THEN t ELSE InsertOrConflict(ins[k - 1], rs[k])]
  BY <1>6
<1> HIDE DEF ins
<1>8. /\ ins[0] = t
      /\ \A k \in Nat : k + 1 <= n => ins[k + 1] = InsertOrConflict(ins[k], rs[k + 1])
  <2>1. 0 \in 0..n
    BY <1>1
  <2>2. ASSUME NEW k \in Nat, k + 1 <= n PROVE ins[k + 1] = InsertOrConflict(ins[k], rs[k + 1])
    <3>1. k + 1 \in 0..n /\ k + 1 # 0 /\ (k + 1) - 1 = k
      BY <1>1, <2>2
    <3>2. ins[k + 1] = IF k + 1 = 0 THEN t ELSE InsertOrConflict(ins[(k + 1) - 1], rs[k + 1])
      BY ONLY <1>7, <3>1
    <3> QED BY <3>1, <3>2
  <2> QED BY ONLY <1>7, <2>1, <2>2
<1> DEFINE Good(k) == /\ ins[k] \in Seq(X)
                      /\ Elements(ins[k]) \subseteq Elements(t) \union Elements(rs)
                      /\ \A j \in 1..k : Covers(ins[k], rs[j])
                      /\ (\A r \in Elements(rs) : Covers(t, r)) => ins[k] = t
           T == {k \in Nat : k <= n => Good(k)}
<1>9. 0 \in T
  BY <1>1, <1>8
<1>10. ASSUME NEW k \in Nat, k \in T PROVE k + 1 \in T
  <2> SUFFICES ASSUME k + 1 <= n PROVE Good(k + 1)
    OBVIOUS
  <2>1. Good(k)
    BY <1>1, <1>10
  <2>2. ins[k + 1] = InsertOrConflict(ins[k], rs[k + 1]) /\ rs[k + 1] \in X /\ k + 1 \in 1..n
    BY <1>1, <1>8
  <2>3. /\ ins[k + 1] \in Seq(X)
        /\ Elements(ins[k]) \subseteq Elements(ins[k + 1])
        /\ Elements(ins[k + 1]) \subseteq Elements(ins[k]) \union {rs[k + 1]}
        /\ Covers(ins[k + 1], rs[k + 1])
        /\ Covers(ins[k], rs[k + 1]) => ins[k + 1] = ins[k]
    <3>1. ins[k] \in Seq(X)
      BY <2>1
    <3>2. PICK z, r : z = ins[k] /\ r = rs[k + 1]
      OBVIOUS
    <3>3. z \in Seq(X) /\ r \in X
      BY <2>2, <3>1, <3>2
    <3>4. /\ InsertOrConflict(z, r) \in Seq(X)
          /\ Elements(z) \subseteq Elements(InsertOrConflict(z, r))
          /\ Elements(InsertOrConflict(z, r)) \subseteq Elements(z) \union {r}
          /\ Covers(InsertOrConflict(z, r), r)
          /\ Covers(z, r) => InsertOrConflict(z, r) = z
      BY ONLY <3>3, InsertOne
    <3> QED BY ONLY <2>2, <3>2, <3>4
  <2>4. rs[k + 1] \in Elements(rs)
    BY <2>2 DEF Elements, n
  <2>5. \A j \in 1..(k + 1) : Covers(ins[k + 1], rs[j])
    <3>1. \A j \in 1..(k + 1) : j \in 1..k \/ j = k + 1
      OBVIOUS
    <3> QED BY <2>1, <2>3, <3>1 DEF Covers
  <2> QED BY <2>1, <2>3, <2>4, <2>5
<1> HIDE DEF T
<1>11. n \in T
  BY <1>1, <1>9, <1>10, Induction
<1>12. Inserted(t, rs) = ins[n]
  BY DEF Inserted, ins, n
<1>13. Good(n)
  BY <1>1, <1>11 DEF T
<1> QED BY <1>12, <1>13 DEF Elements, n

-----------------------------------------------------------------------------
(* The steps.                                                              *)

(* The transfers in hand are a sequence.                                   *)
LEMMA TransfersInHand == ASSUME SwapInv PROVE Len(transfers) \in Nat
<1>1. transfers \in Seq(Elements(transfers))
  BY SwapAssumption DEF SwapInv
<1> QED BY <1>1

(* A delivery inserts the same table, also where it was inserted before.   *)
LEMMA TableSettled ==
  ASSUME NEW ts, Len(ts) \in Nat, NEW t \in {<<>>, AllTable(ts)}
  PROVE  Inserted(t, AllRows(ts)) = AllTable(ts)
<1>1. CASE t = <<>>
  BY <1>1 DEF AllTable
<1>2. CASE t = AllTable(ts)
  <2>1. PICK X : AllRows(ts) \in Seq(X)
    BY AllRowsSeq
  <2>2. PICK rs : rs = AllRows(ts)
    OBVIOUS
  <2>3. <<>> \in Seq(X) /\ rs \in Seq(X)
    BY <2>1, <2>2
  <2>4. /\ Inserted(<<>>, rs) \in Seq(X)
        /\ \A r \in Elements(rs) : Covers(Inserted(<<>>, rs), r)
    BY ONLY <2>3, InsertAll
  <2>5. t = Inserted(<<>>, rs)
    BY <1>2, <2>2 DEF AllTable
  <2>6. Inserted(t, rs) = t
    BY ONLY <2>3, <2>4, <2>5, InsertAll
  <2> QED BY <1>2, <2>2, <2>6
<1> QED BY <1>1, <1>2

(* A step of the loop: what it finds, and where it goes on.                *)
LEMMA ScanStep ==
  ASSUME SwapInv, SkipIgnored \/ SkipSameToken \/ RecordSwap \/ RecordTransfer \/ SkipOther
  PROVE  /\ stage = "scan" /\ ValidateTX(transfers) /\ at \in 1..Len(transfers)
         /\ at' = After(transfers, at)
         /\ swaps' = swaps \o Found(transfers, at)
         /\ UNCHANGED <<transfers, finalSwaps, queued, table, stage>>
<1> DEFINE t == transfers[at]
           r == ProcessTransfer(transfers, at)
<1>1. Scanning /\ UNCHANGED <<transfers, finalSwaps, queued, table, stage>>
  BY DEF SkipIgnored, SkipSameToken, RecordSwap, RecordTransfer, SkipOther, Advance
<1>2. stage = "scan" /\ ValidateTX(transfers) /\ at \in 1..Len(transfers)
  BY <1>1, TransfersInHand DEF Scanning, SwapInv, ScanInv
<1>3. at \in Int /\ at + 1 + 0 = at + 1
  BY <1>2, TransfersInHand
<1>4. CASE SkipIgnored
  <2>1. t.parent = "ignored" /\ Advance(0, <<>>)
    BY <1>4 DEF SkipIgnored
  <2>2. ~SupportedDex(t) /\ ~IsTransfer(t)
    BY <2>1 DEF SupportedDex, IsTransfer, AmmPrograms
  <2>3. ~IsSwap(t, r.swap) /\ r.inc = 0
    BY <2>1, <2>2 DEF IsSwap, ProcessTransfer, Result
  <2>4. Found(transfers, at) = <<>> /\ After(transfers, at) = at + 1 + 0
    BY <2>2, <2>3 DEF Found, After
  <2> QED BY <1>1, <1>2, <1>3, <2>1, <2>4 DEF Advance
<1>5. CASE SkipSameToken
  <2>1. IsSwap(t, r.swap) /\ r.swap.tokenIn = r.swap.tokenOut /\ Advance(0, <<>>)
    BY <1>5 DEF SkipSameToken
  <2>2. Found(transfers, at) = <<>> /\ After(transfers, at) = at + 1
    BY <2>1 DEF Found, After
  <2> QED BY <1>1, <1>2, <1>3, <2>1, <2>2 DEF Advance
<1>6. CASE RecordSwap
  <2>1. IsSwap(t, r.swap) /\ r.swap.tokenIn # r.swap.tokenOut /\ Advance(r.inc, <<r.swap>>)
    BY <1>6 DEF RecordSwap
  <2>2. Found(transfers, at) = <<r.swap>> /\ After(transfers, at) = at + 1 + r.inc
    BY <2>1 DEF Found, After
  <2> QED BY <1>1, <1>2, <2>1, <2>2 DEF Advance
<1>7. CASE RecordTransfer
  <2>1. /\ ~IsSwap(t, r.swap) /\ IsTransfer(t)
        /\ IF t.mint \in QuoteTokens THEN Advance(0, <<>>)
                                     ELSE Advance(r.inc, <<Receipt(t), Payment(t)>>)
    BY <1>7 DEF RecordTransfer
  <2>2. CASE t.mint \in QuoteTokens
    <3>1. Found(transfers, at) = <<>> /\ After(transfers, at) = at + 1
      BY <2>1, <2>2 DEF Found, After
    <3> QED BY <1>1, <1>2, <1>3, <2>1, <2>2, <3>1 DEF Advance
  <2>3. CASE t.mint \notin QuoteTokens
    <3>1. Found(transfers, at) = <<Receipt(t), Payment(t)>> /\ After(transfers, at) = at + 1 + r.inc
      BY <2>1, <2>3 DEF Found, After
    <3> QED BY <1>1, <1>2, <2>1, <2>3, <3>1 DEF Advance
  <2> QED BY <2>2, <2>3
<1>8. CASE SkipOther
  <2>1. ~IsSwap(t, r.swap) /\ ~IsTransfer(t) /\ Advance(r.inc, <<>>)
    BY <1>8 DEF SkipOther
  <2>2. Found(transfers, at) = <<>> /\ After(transfers, at) = at + 1 + r.inc
    BY <2>1 DEF Found, After
  <2> QED BY <1>1, <1>2, <2>1, <2>2 DEF Advance
<1> QED BY <1>4, <1>5, <1>6, <1>7, <1>8

(* The invariant holds before the loop begins.                             *)
LEMMA SwapInvInit == SwapInit => SwapInv
<1> SUFFICES ASSUME SwapInit PROVE SwapInv
  OBVIOUS
<1>1. transfers \in Inputs /\ at = 1 /\ swaps = <<>> /\ table = <<>> /\ stage = "scan"
  BY DEF SwapInit
<1>2. Len(transfers) \in Nat
  <2>1. transfers \in Seq(Elements(transfers))
    BY <1>1, SwapAssumption
  <2> QED BY <2>1
<1>3. ScanInv
  <2>1. 1 \in 1..(Len(transfers) + 1) /\ <<>> \in Seq(FoundIn(transfers))
    BY <1>2
  <2>2. Rest(transfers)[1] \in Seq(FoundIn(transfers))
    BY <1>2, <2>1, FoundNext
  <2>3. <<>> \o Rest(transfers)[1] = Rest(transfers)[1]
    BY <2>2
  <2> QED BY <1>1, <2>1, <2>3 DEF ScanInv
<1> QED BY <1>1, <1>3 DEF SwapInv, SwapTableInv

(* Every step of HandleSwaps and InsertSwaps preserves the invariant.      *)
LEMMA SwapInvStep == SwapInv /\ [SwapNext]_swapVars => SwapInv'
<1> SUFFICES ASSUME SwapInv, [SwapNext]_swapVars PROVE SwapInv'
  OBVIOUS
<1> USE DEF SwapInv
<1>1. Len(transfers) \in Nat
  BY TransfersInHand
<1>2. CASE SkipIgnored \/ SkipSameToken \/ RecordSwap \/ RecordTransfer \/ SkipOther
  <2>1. /\ stage = "scan" /\ ValidateTX(transfers) /\ at \in 1..Len(transfers)
        /\ at' = After(transfers, at)
        /\ swaps' = swaps \o Found(transfers, at)
        /\ UNCHANGED <<transfers, finalSwaps, queued, table, stage>>
    BY <1>2, ScanStep
  <2>2. PICK X, R : X = FoundIn(transfers) /\ R = Rest(transfers)
    OBVIOUS
  <2>3. /\ swaps \in Seq(X) /\ Found(transfers, at) \in Seq(X)
        /\ After(transfers, at) \in 1..(Len(transfers) + 1)
        /\ R[After(transfers, at)] \in Seq(X)
        /\ R[at] = Found(transfers, at) \o R[After(transfers, at)]
    BY <1>1, <2>1, <2>2, FoundSeq, FoundNext DEF ScanInv
  <2>4. swaps' \in Seq(X)
    BY <2>1, <2>3
  <2>5. swaps' \o R[at'] = swaps \o R[at]
    <3>1. PICK z, f, u : z = swaps /\ f = Found(transfers, at) /\ u = R[After(transfers, at)]
      OBVIOUS
    <3>2. z \in Seq(X) /\ f \in Seq(X) /\ u \in Seq(X)
      BY <2>3, <3>1
    <3>3. (z \o f) \o u = z \o (f \o u)
      BY ONLY <3>2, ConcatAssociative
    <3> QED BY <2>1, <2>3, <3>1, <3>3
  <2>6. ScanInv'
    BY <2>1, <2>2, <2>3, <2>4, <2>5 DEF ScanInv
  <2> QED BY <2>1, <2>6 DEF SwapTableInv
<1>3. CASE ScanEnds
  <2>1. /\ stage = "scan" /\ stage' = "build" /\ UNCHANGED <<transfers, at, swaps, finalSwaps, queued, table>>
        /\ ~(ValidateTX(transfers) /\ at <= Len(transfers))
    BY <1>3 DEF ScanEnds, Scanning
  <2>2. swaps = AllSwaps(transfers)
    <3>1. CASE ValidateTX(transfers)
      <4>1. at = Len(transfers) + 1
        BY <1>1, <2>1, <3>1 DEF ScanInv
      <4>2. swaps \o <<>> = Rest(transfers)[1] /\ swaps \in Seq(FoundIn(transfers))
        BY <1>1, <2>1, <3>1, <4>1, FoundNext DEF ScanInv
      <4> QED BY <3>1, <4>2 DEF AllSwaps
    <3>2. CASE ~ValidateTX(transfers)
      BY <2>1, <3>2 DEF ScanInv, AllSwaps
    <3> QED BY <3>1, <3>2
  <2> QED BY <2>1, <2>2 DEF ScanInv, SwapTableInv
<1>4. CASE Build
  BY <1>4 DEF Build, ScanInv, SwapTableInv, AllRows
<1>5. CASE InsertSwaps
  <2>1. /\ stage = "insert" /\ stage' = "done" /\ table' = Inserted(table, finalSwaps)
        /\ UNCHANGED <<transfers, at, swaps, finalSwaps, queued>>
    BY <1>5 DEF InsertSwaps
  <2>2. finalSwaps = AllRows(transfers) /\ table \in {<<>>, AllTable(transfers)}
    BY <2>1 DEF SwapTableInv
  <2>3. table' = AllTable(transfers)
    BY <1>1, <2>1, <2>2, TableSettled
  <2> QED BY <2>1, <2>2, <2>3 DEF ScanInv, SwapTableInv
<1>6. CASE Redeliver
  <2>1. /\ stage = "done" /\ stage' = "scan" /\ at' = 1 /\ swaps' = <<>>
        /\ UNCHANGED <<transfers, queued, table>>
    BY <1>6 DEF Redeliver
  <2>2. 1 \in 1..(Len(transfers) + 1) /\ <<>> \in Seq(FoundIn(transfers))
    BY <1>1
  <2>3. Rest(transfers)[1] \in Seq(FoundIn(transfers))
    BY <1>1, <2>2, FoundNext
  <2>4. <<>> \o Rest(transfers)[1] = Rest(transfers)[1]
    BY <2>3
  <2>5. ScanInv'
    BY <2>1, <2>2, <2>4 DEF ScanInv
  <2> QED BY <2>1, <2>5 DEF SwapTableInv
<1>7. CASE UNCHANGED swapVars
  BY <1>7 DEF swapVars, ScanInv, SwapTableInv
<1> QED BY <1>2, <1>3, <1>4, <1>5, <1>6, <1>7 DEF SwapNext

-----------------------------------------------------------------------------
(* However often the message of a transaction is delivered: once its rows  *)
(* are in swap_log, the table does not change any more.                    *)
THEOREM InsertStaysIdempotent == SwapSpec => InsertIdempotent
<1>1. ASSUME SwapInv, [SwapNext]_swapVars PROVE [table # <<>> => table' = table]_table
  <2>1. CASE InsertSwaps
    <3>1. Len(transfers) \in Nat
      BY <1>1, TransfersInHand
    <3>2. finalSwaps = AllRows(transfers) /\ table \in {<<>>, AllTable(transfers)}
      BY <1>1, <2>1 DEF SwapInv, SwapTableInv, InsertSwaps
    <3>3. table' = AllTable(transfers)
      BY <2>1, <3>1, <3>2, TableSettled DEF InsertSwaps
    <3> QED BY <3>2, <3>3
  <2>2. CASE ~InsertSwaps
    <3>1. UNCHANGED table
      BY <1>1, <2>2 DEF SwapNext, swapVars, SkipIgnored, SkipSameToken, RecordSwap, RecordTransfer,
                        SkipOther, Advance, ScanEnds, Build, Redeliver
    <3> QED BY <3>1
  <2> QED BY <2>1, <2>2
<1> QED BY <1>1, SwapInvInit, SwapInvStep, PTL DEF SwapSpec, InsertIdempotent

(* For every transaction: a row that HandleSwaps returns is missing from   *)
(* swap_log only for a row of the same transaction, pair, action and       *)
(* amounts, of another wallet or token.                                    *)
THEOREM RowsStayLostToTwins == SwapSpec => []RowsLostToTwins
<1>1. SwapInv => RowsLostToTwins
  <2> SUFFICES ASSUME SwapInv, stage = "done", NEW r \in Elements(finalSwaps), r \notin Elements(table)
               PROVE  \E q \in Elements(finalSwaps) \intersect Elements(table) :
                         /\ q.action = r.action /\ q.pair = r.pair
                         /\ q.amountIn = r.amountIn /\ q.amountOut = r.amountOut
                         /\ q.wallet # r.wallet \/ q.token # r.token
    BY DEF RowsLostToTwins
  <2>1. finalSwaps = AllRows(transfers) /\ table = Inserted(<<>>, finalSwaps) /\ Len(transfers) \in Nat
    BY TransfersInHand DEF SwapInv, SwapTableInv, AllTable
  <2>2. PICK X : finalSwaps \in Seq(X) /\ \A x \in X : IsRow(x)
    BY <2>1, AllRowsSeq
  <2>3. <<>> \in Seq(X) /\ Elements(<<>>) = {}
    BY DEF Elements
  <2>4. /\ Elements(Inserted(<<>>, finalSwaps)) \subseteq Elements(<<>>) \union Elements(finalSwaps)
        /\ \A x \in Elements(finalSwaps) : Covers(Inserted(<<>>, finalSwaps), x)
    BY ONLY <2>2, <2>3, InsertAll
  <2>5. PICK q \in Elements(table) : Key(q) = Key(r)
    BY <2>1, <2>4 DEF Covers
  <2>6. q \in Elements(finalSwaps) /\ q # r
    BY <2>1, <2>3, <2>4, <2>5
  <2>7. /\ q.action = r.action /\ q.pair = r.pair
        /\ q.amountIn = r.amountIn /\ q.amountOut = r.amountOut
    BY <2>5 DEF Key
  <2>8. IsRow(q) /\ IsRow(r)
    BY <2>2, <2>6 DEF Elements
  <2>9. q.wallet # r.wallet \/ q.token # r.token
    BY <2>6, <2>7, <2>8 DEF IsRow
  <2> QED BY <2>5, <2>6, <2>7, <2>9
<1> QED BY <1>1, SwapInvInit, SwapInvStep, PTL DEF SwapSpec

-----------------------------------------------------------------------------
(* What moves outside of trades.  The loop has added up, for each wallet   *)
(* and token, what the transfers before `at` bring to it.                  *)

(* A wallet, a mint or a program that is not there.                        *)
NoName == ""

(* What a swap adds to the sheets of some wallets for a token, were no sum *)
(* of it rounded.                                                          *)
Got(s)  == Rounded(s.amountIn)
Gave(s) == Rounded(s.amountOut)
GainBy(s, wallets, token) == IF Usable(s) /\ s.wallet \in wallets /\ TokenOf(s) = token
                             THEN Got(s) - Gave(s) ELSE 0
Gain(ss, wallets, token) == Total([k \in 1..Len(ss) |-> GainBy(ss[k], wallets, token)], Len(ss))

Brought(wallet, token) == [k \in 1..Len(transfers) |-> Brings(transfers[k], wallet, token)]

KnownWallets == {s.wallet : s \in FoundIn(transfers)}
WalletsMoved == {t.from : t \in Elements(transfers)} \union {t.to : t \in Elements(transfers)}

PlainMints == MintsMoved \ (QuoteTokens \union IgnoreTokens \union {NoName})

(* The amounts of the token are floats.                                    *)
HeldExactly(token) == \A t \in Elements(transfers) : t.mint = token => Rounded(t.amount) = t.amount

AddsUp(ss, n) ==
    \A token \in PlainMints : \A wallet \in WalletsMoved \ {NoName} :
        MovedOutside(token) /\ HeldExactly(token) => Gain(ss, {wallet}, token) = Total(Brought(wallet, token), n)

(* All of a token's rows are receipts and payments.                        *)
OnlyMovedBy(ss, token) == \A s \in Elements(ss) :
    Usable(s) /\ TokenOf(s) = token => ActionOf(s) \in {"RECEIVE", "TRANSFER"}

BetweenKnown(token) == \A t \in Elements(transfers) : t.mint = token => t.from # NoName /\ t.to # NoName

Conserves(ss) ==
    \A token \in MintsMoved : OnlyMovedBy(ss, token) /\ BetweenKnown(token)
                                  => Gain(ss, KnownWallets, token) = 0

MoveInv ==
    /\ stage \in {"scan", "build", "insert"} => swaps \in Seq(FoundIn(transfers)) /\ Conserves(swaps)
    /\ stage = "scan" => AddsUp(swaps, at - 1)
    /\ stage \in {"build", "insert"} => AddsUp(swaps, Len(transfers))
    /\ stage = "insert" => finalSwaps = Final(Built(swaps))

(* Sums of gains are numbers, and add up.                                  *)
LEMMA GainConcat ==
  ASSUME NEW X, \A s \in X : Got(s) \in Int /\ Gave(s) \in Int,
         NEW p \in Seq(X), NEW q \in Seq(X), NEW W, NEW token
  PROVE  /\ Gain(p, W, token) \in Int
         /\ Gain(p \o q, W, token) = Gain(p, W, token) + Gain(q, W, token)
<1> DEFINE v(z) == [k \in 1..Len(z) |-> GainBy(z[k], W, token)]
           m == Len(p)
           n == Len(q)
<1>1. \A s \in X : GainBy(s, W, token) \in Int
  BY DEF GainBy
<1>2. /\ m \in Nat /\ n \in Nat /\ Len(p \o q) = m + n
      /\ \A k \in 1..m : p[k] \in X /\ (p \o q)[k] = p[k]
      /\ \A k \in 1..n : q[k] \in X /\ (p \o q)[m + k] = q[k]
      /\ \A k \in 1..(m + n) : (p \o q)[k] \in X
  OBVIOUS
<1>3. /\ \A k \in 1..(m + n) : v(p \o q)[k] \in Int
      /\ \A k \in 1..m : v(p)[k] \in Int /\ v(p \o q)[k] = v(p)[k]
      /\ \A k \in 1..n : v(q)[k] = v(p \o q)[m + k]
  <2>1. \A k \in 1..(m + n) : v(p \o q)[k] = GainBy((p \o q)[k], W, token)
    BY <1>2
  <2>2. /\ \A k \in 1..m : v(p)[k] = GainBy(p[k], W, token) /\ k \in 1..(m + n)
        /\ \A k \in 1..n : v(q)[k] = GainBy(q[k], W, token) /\ m + k \in 1..(m + n)
    BY <1>2
  <2> HIDE DEF v, m, n
  <2> QED BY ONLY <1>1, <1>2, <2>1, <2>2
<1> HIDE DEF v, m, n
<1>4. Total(v(p \o q), m + n) = Total(v(p \o q), m) + Total(v(q), n)
  <2>1. PICK f, k : f = v(p \o q) /\ k = v(q)
    OBVIOUS
  <2>2. /\ m \in Nat /\ n \in Nat
        /\ \A i \in 1..(m + n) : f[i] \in Int
        /\ \A i \in 1..n : k[i] = f[m + i]
    BY <1>2, <1>3, <2>1
  <2>3. Total(f, m + n) = Total(f, m) + Total(k, n)
    BY ONLY <2>2, TotalSplit
  <2> QED BY <2>1, <2>3
<1>5. Total(v(p \o q), m) = Total(v(p), m)
  BY <1>2, <1>3, TotalSame
<1>6. Total(v(p), m) \in Int
  BY <1>2, <1>3, TotalInt
<1> QED BY <1>2, <1>4, <1>5, <1>6 DEF Gain, v, m, n

(* The gain of nothing is nothing.                                         *)
LEMMA GainOfNone == ASSUME NEW W, NEW token PROVE Gain(<<>>, W, token) = 0
<1> DEFINE f == [k \in 1..Len(<<>>) |-> GainBy(<<>>[k], W, token)]
<1>1. Len(<<>>) = 0
  OBVIOUS
<1> HIDE DEF f
<1>2. Total(f, 0) = 0
  BY TotalZero
<1> QED BY <1>1, <1>2 DEF Gain, f

(* The gain of one swap.                                                   *)
LEMMA GainOfOne ==
  ASSUME NEW W, NEW token, NEW a, GainBy(a, W, token) \in Int
  PROVE  Gain(<<a>>, W, token) = GainBy(a, W, token)
<1> DEFINE f == [k \in 1..Len(<<a>>) |-> GainBy(<<a>>[k], W, token)]
<1>1. Len(<<a>>) = 1 /\ 1 = 0 + 1 /\ \A k \in 1..1 : f[k] = GainBy(a, W, token)
  OBVIOUS
<1> HIDE DEF f
<1>2. \A k \in 1..(0 + 1) : f[k] \in Int
  BY <1>1
<1>3. Total(f, 0 + 1) = Total(f, 0) + f[0 + 1]
  BY <1>2, TotalStep
<1>4. Total(f, 0) = 0
  BY TotalZero
<1>5. Total(f, 1) = GainBy(a, W, token)
  <2>1. f[0 + 1] = GainBy(a, W, token)
    BY <1>1
  <2> QED BY <1>3, <1>4, <2>1
<1> QED BY <1>1, <1>5 DEF Gain, f

(* The gain of two swaps.                                                  *)
LEMMA GainOfTwo ==
  ASSUME NEW W, NEW token, NEW a, NEW b,
         Got(a) \in Int, Gave(a) \in Int, Got(b) \in Int, Gave(b) \in Int
  PROVE  Gain(<<a, b>>, W, token) = GainBy(a, W, token) + GainBy(b, W, token)
<1> DEFINE f == [k \in 1..Len(<<a, b>>) |-> GainBy(<<a, b>>[k], W, token)]
<1>1. /\ Len(<<a, b>>) = 2 /\ 1 = 0 + 1 /\ 2 = 1 + 1
      /\ f[1] = GainBy(a, W, token) /\ f[2] = GainBy(b, W, token)
  OBVIOUS
<1>2. GainBy(a, W, token) \in Int /\ GainBy(b, W, token) \in Int
  BY DEF GainBy
<1> HIDE DEF f
<1>3. /\ \A k \in 1..(0 + 1) : f[k] \in Int
      /\ \A k \in 1..(1 + 1) : f[k] \in Int
  <2>1. \A k \in 1..2 : k = 1 \/ k = 2
    OBVIOUS
  <2>2. \A k \in 1..2 : f[k] \in Int
    BY <1>1, <1>2, <2>1
  <2> QED BY <2>2
<1>4. Total(f, 0 + 1) = Total(f, 0) + f[0 + 1] /\ Total(f, 1 + 1) = Total(f, 1) + f[1 + 1]
  BY <1>3, TotalStep
<1>5. Total(f, 0) = 0
  BY TotalZero
<1>6. Total(f, 2) = GainBy(a, W, token) + GainBy(b, W, token)
  <2>1. Total(f, 1) = GainBy(a, W, token)
    BY <1>1, <1>2, <1>4, <1>5
  <2>2. Total(f, 2) = Total(f, 1) + GainBy(b, W, token)
    BY <1>1, <1>4
  <2> QED BY <2>1, <2>2
<1> QED BY <1>1, <1>6 DEF Gain, f

-----------------------------------------------------------------------------
(* What a transfer in hand is.                                             *)
LEMMA TransferFacts ==
  ASSUME transfers \in Inputs
  PROVE  /\ Len(transfers) \in Nat
         /\ NoName \notin QuoteTokens /\ NoName \notin IgnoreTokens /\ Rounded(0) = 0
         /\ \A k \in 1..Len(transfers) :
               /\ transfers[k] \in Elements(transfers)
               /\ Rounded(transfers[k].amount) \in Nat \ {0}
               /\ transfers[k].type = "native" => transfers[k].mint \in QuoteTokens
               /\ \A n \in {transfers[k].event.paid, transfers[k].event.got} :
                      n # 0 => Rounded(Written(n)) \in Nat \ {0}
<1>1. transfers \in Seq(Elements(transfers))
  BY SwapAssumption
<1>2. Len(transfers) \in Nat
  BY <1>1
<1>3. \A k \in 1..Len(transfers) : transfers[k] \in Elements(transfers)
  BY DEF Elements
<1> QED BY <1>2, <1>3, SwapAssumption DEF NoName

(* A swap that is recorded moves something both ways, and the tokens of    *)
(* an exchange.                                                            *)
LEMMA TradeFacts ==
  ASSUME transfers \in Inputs, NEW k \in 1..Len(transfers), NEW s,
         s = ProcessTransfer(transfers, k).swap, IsSwap(transfers[k], s)
  PROVE  /\ Got(s) \in Nat \ {0} /\ Gave(s) \in Nat \ {0}
         /\ \A token : MovedOutside(token) => s.tokenIn # token /\ s.tokenOut # token
<1>1. \A a, b : Result(a, b).swap = a
  BY DEF Result
<1>2. s.wallet # "" /\ SupportedDex(transfers[k])
  BY DEF IsSwap
<1>3. NoSwap.wallet = "" /\ \A p : [NoSwap EXCEPT !.pair = p].wallet = ""
  BY DEF NoSwap
<1>4. \A w, p, a, b : /\ Got(SwapOf(w, p, a, b)) = Rounded(b.amount) /\ Gave(SwapOf(w, p, a, b)) = Rounded(a.amount)
                      /\ SwapOf(w, p, a, b).tokenIn = b.mint /\ SwapOf(w, p, a, b).tokenOut = a.mint
  BY DEF SwapOf, Got, Gave
<1>5. transfers[k].parent # ""
  BY <1>2 DEF SupportedDex, AmmPrograms
<1>6. ASSUME Paired(transfers, k),
             \E w, p : \/ s = SwapOf(w, p, transfers[k], transfers[k + 1])
                       \/ s = SwapOf(w, p, transfers[k + 1], transfers[k])
      PROVE  /\ Got(s) \in Nat \ {0} /\ Gave(s) \in Nat \ {0}
             /\ \A token : MovedOutside(token) => s.tokenIn # token /\ s.tokenOut # token
  <2>1. k + 1 \in 1..Len(transfers) /\ transfers[k + 1].parent # ""
    <3>1. Len(transfers) \in Nat
      BY TransferFacts
    <3>2. k < Len(transfers) /\ transfers[k + 1].parent = transfers[k].parent
      BY <1>6 DEF Paired
    <3>3. k \in 1..Len(transfers) => k + 1 \in 1..Len(transfers)
      BY ONLY <3>1, <3>2
    <3> QED BY <1>5, <3>2, <3>3
  <2>2. \A token : MovedOutside(token) => transfers[k].mint # token /\ transfers[k + 1].mint # token
    BY <1>5, <2>1, TransferFacts DEF MovedOutside
  <2>3. Rounded(transfers[k].amount) \in Nat \ {0} /\ Rounded(transfers[k + 1].amount) \in Nat \ {0}
    BY <2>1, TransferFacts
  <2>4. \/ /\ Got(s) = Rounded(transfers[k + 1].amount) /\ Gave(s) = Rounded(transfers[k].amount)
           /\ s.tokenIn = transfers[k + 1].mint /\ s.tokenOut = transfers[k].mint
        \/ /\ Got(s) = Rounded(transfers[k].amount) /\ Gave(s) = Rounded(transfers[k + 1].amount)
           /\ s.tokenIn = transfers[k].mint /\ s.tokenOut = transfers[k + 1].mint
    BY <1>4, <1>6
  <2> QED BY ONLY <2>2, <2>3, <2>4
<1>7. ASSUME transfers[k].parent = "pumpfun", s = PumpFunSwap(transfers[k])
      PROVE  /\ Got(s) \in Nat \ {0} /\ Gave(s) \in Nat \ {0}
             /\ \A token : MovedOutside(token) => s.tokenIn # token /\ s.tokenOut # token
  <2>1. /\ transfers[k].event.paid # 0 /\ transfers[k].event.got # 0
        /\ Got(s) = Rounded(Written(transfers[k].event.got))
        /\ Gave(s) = Rounded(Written(transfers[k].event.paid))
        /\ s.tokenIn = transfers[k].event.tokenIn /\ s.tokenOut = transfers[k].event.tokenOut
    <3>1. PICK e : e = transfers[k]
      OBVIOUS
    <3>2. ~(e.event.paid = 0 \/ e.event.got = 0)
      <4> SUFFICES ASSUME e.event.paid = 0 \/ e.event.got = 0 PROVE FALSE
        OBVIOUS
      <4>1. s = [NoSwap EXCEPT !.pair = e.pair]
        BY <1>7, <3>1 DEF PumpFunSwap
      <4> QED BY <1>2, <4>1 DEF NoSwap
    <3>3. s = [wallet |-> e.event.user, pair |-> e.pair,
               tokenOut |-> e.event.tokenOut, tokenIn |-> e.event.tokenIn,
               amountOut |-> Written(e.event.paid), amountIn |-> Written(e.event.got),
               calls |-> {e.call}]
      BY <1>7, <3>1, <3>2 DEF PumpFunSwap
    <3> QED BY <3>1, <3>2, <3>3 DEF Got, Gave
  <2> QED BY <1>7, <2>1, TransferFacts DEF MovedOutside
<1>8. CASE transfers[k].parent = "pumpfun"
  <2>1. ProcessTransfer(transfers, k) = HandlePumpFunSwaps(transfers, k)
    BY <1>8 DEF ProcessTransfer
  <2>2. s = NoSwap \/ s = PumpFunSwap(transfers[k])
    BY <1>1, <2>1 DEF HandlePumpFunSwaps
  <2> QED BY <1>2, <1>3, <1>7, <1>8, <2>2
<1>9. CASE transfers[k].parent # "pumpfun"
  <2>1. \/ ProcessTransfer(transfers, k) = AmmSwaps(transfers, k)
        \/ ProcessTransfer(transfers, k) = HandleMeteoraSwaps(transfers, k)
        \/ ProcessTransfer(transfers, k) = HandleOrcaSwaps(transfers, k)
        \/ ProcessTransfer(transfers, k) = Result(NoSwap, 0)
    BY <1>9 DEF ProcessTransfer, HandleRaydiumSwaps, HandleRaydiumConcentratedSwaps,
                HandleRaydiumCPMMSwaps, HandleRaydiumLaunchpadSwaps, HandlePumpFunAmmSwaps
  <2>2. \/ s = NoSwap
        \/ /\ Paired(transfers, k)
           /\ \E w, p : \/ s = SwapOf(w, p, transfers[k], transfers[k + 1])
                        \/ s = SwapOf(w, p, transfers[k + 1], transfers[k])
    BY <1>1, <2>1 DEF AmmSwaps, HandleMeteoraSwaps, HandleOrcaSwaps
  <2> QED BY <1>2, <1>3, <1>6, <2>2
<1> QED BY <1>8, <1>9

(* A plain transfer of a token is a receipt and a payment of it.           *)
LEMMA ReceiptFacts ==
  ASSUME NEW t, Rounded(0) = 0, Rounded(t.amount) \in Nat \ {0}, t.mint \notin QuoteTokens,
         NoName \notin QuoteTokens, NoName \notin IgnoreTokens
  PROVE  LET r == Receipt(t)
         IN  /\ r.wallet = t.to /\ TokenOf(r) = t.mint /\ ActionOf(r) = "RECEIVE"
             /\ Got(r) = Rounded(t.amount) /\ Gave(r) = 0
             /\ Usable(r) <=> t.to # NoName /\ t.mint # NoName /\ t.mint \notin IgnoreTokens
<1>1. /\ Receipt(t).wallet = t.to /\ Receipt(t).tokenIn = t.mint /\ Receipt(t).tokenOut = NoName
      /\ Receipt(t).amountIn = t.amount /\ Receipt(t).amountOut = 0
  BY DEF Receipt, NoSwap, NoName
<1>2. ActionOf(Receipt(t)) = "RECEIVE"
  BY <1>1 DEF ActionOf
<1>3. TokenOf(Receipt(t)) = t.mint
  BY <1>1, <1>2 DEF TokenOf
<1> QED BY <1>1, <1>2, <1>3 DEF Usable, NoName, Got, Gave

(* And of the wallet that pays.                                            *)
LEMMA PaymentFacts ==
  ASSUME NEW t, Rounded(0) = 0, Rounded(t.amount) \in Nat \ {0}, t.mint \notin QuoteTokens,
         NoName \notin QuoteTokens, NoName \notin IgnoreTokens
  PROVE  LET r == Payment(t)
         IN  /\ r.wallet = t.from /\ TokenOf(r) = t.mint /\ ActionOf(r) = "TRANSFER"
             /\ Got(r) = 0 /\ Gave(r) = Rounded(t.amount)
             /\ Usable(r) <=> t.from # NoName /\ t.mint # NoName /\ t.mint \notin IgnoreTokens
<1>1. /\ Payment(t).wallet = t.from /\ Payment(t).tokenOut = t.mint /\ Payment(t).tokenIn = NoName
      /\ Payment(t).amountOut = t.amount /\ Payment(t).amountIn = 0
  BY DEF Payment, NoSwap, NoName
<1>2. ActionOf(Payment(t)) = "TRANSFER"
  BY <1>1 DEF ActionOf
<1>3. TokenOf(Payment(t)) = t.mint
  BY <1>1, <1>2 DEF TokenOf
<1> QED BY <1>1, <1>2, <1>3 DEF Usable, NoName, Got, Gave

(* A plain transfer of n of the token among its wallets: what it adds to   *)
(* the sheets of the wallets of W.                                         *)
Kept(t, token) == t.mint # NoName /\ t.mint \notin IgnoreTokens /\ t.mint = token
Side(t, wallet, W, token) == IF Kept(t, token) /\ wallet # NoName /\ wallet \in W
                                THEN Rounded(t.amount) ELSE 0

LEMMA PlainGain ==
  ASSUME NEW t, Rounded(0) = 0, Rounded(t.amount) \in Nat \ {0}, t.mint \notin QuoteTokens,
         NoName \notin QuoteTokens, NoName \notin IgnoreTokens, NEW W, NEW token
  PROVE  /\ Side(t, t.to, W, token) \in Int /\ Side(t, t.from, W, token) \in Int
         /\ Gain(<<Receipt(t), Payment(t)>>, W, token)
              = Side(t, t.to, W, token) - Side(t, t.from, W, token)
<1>1. PICK r, p, n : r = Receipt(t) /\ p = Payment(t) /\ n = Rounded(t.amount)
  OBVIOUS
<1>2. n \in Int /\ n - 0 = n /\ 0 \in Int
  <2>1. n \in Nat
    BY <1>1
  <2> QED BY ONLY <2>1
<1>3. /\ r.wallet = t.to /\ TokenOf(r) = t.mint /\ Got(r) = n /\ Gave(r) = 0
      /\ Usable(r) <=> t.to # NoName /\ t.mint # NoName /\ t.mint \notin IgnoreTokens
  BY <1>1, ReceiptFacts
<1>4. /\ p.wallet = t.from /\ TokenOf(p) = t.mint /\ Got(p) = 0 /\ Gave(p) = n
      /\ Usable(p) <=> t.from # NoName /\ t.mint # NoName /\ t.mint \notin IgnoreTokens
  BY <1>1, PaymentFacts
<1>5. PICK i, o : i = Side(t, t.to, W, token) /\ o = Side(t, t.from, W, token)
  OBVIOUS
<1>6. GainBy(r, W, token) = i
  <2>1. CASE Usable(r) /\ t.to \in W /\ t.mint = token
    <3>1. GainBy(r, W, token) = n - 0
      BY <1>3, <2>1 DEF GainBy
    <3>2. i = n
      BY <1>1, <1>3, <1>5, <2>1 DEF Side, Kept
    <3> QED BY <1>2, <3>1, <3>2
  <2>2. CASE ~(Usable(r) /\ t.to \in W /\ t.mint = token)
    <3>1. GainBy(r, W, token) = 0
      BY <1>3, <2>2 DEF GainBy
    <3>2. i = 0
      BY <1>3, <1>5, <2>2 DEF Side, Kept
    <3> QED BY <3>1, <3>2
  <2> QED BY <2>1, <2>2
<1>7. GainBy(p, W, token) = 0 - o
  <2>1. CASE Usable(p) /\ t.from \in W /\ t.mint = token
    <3>1. GainBy(p, W, token) = 0 - n
      BY <1>4, <2>1 DEF GainBy
    <3>2. o = n
      BY <1>1, <1>4, <1>5, <2>1 DEF Side, Kept
    <3> QED BY <3>1, <3>2
  <2>2. CASE ~(Usable(p) /\ t.from \in W /\ t.mint = token)
    <3>1. GainBy(p, W, token) = 0
      BY <1>4, <2>2 DEF GainBy
    <3>2. o = 0
      BY <1>4, <1>5, <2>2 DEF Side, Kept
    <3> QED BY ONLY <3>1, <3>2
  <2> QED BY <2>1, <2>2
<1>8. Gain(<<r, p>>, W, token) = GainBy(r, W, token) + GainBy(p, W, token)
  <2>1. Got(r) \in Int /\ Gave(r) \in Int /\ Got(p) \in Int /\ Gave(p) \in Int
    BY <1>2, <1>3, <1>4
  <2> QED BY <2>1, GainOfTwo
<1>9. i \in Int /\ o \in Int
  <2>1. i \in {n, 0} /\ o \in {n, 0}
    BY <1>1, <1>5 DEF Side
  <2> QED BY ONLY <1>2, <2>1
<1>10. Gain(<<r, p>>, W, token) = i - o
  BY ONLY <1>6, <1>7, <1>8, <1>9
<1> QED BY <1>1, <1>5, <1>9, <1>10

(* What the loop finds at a transfer: nothing, a trade, or a receipt and a *)
(* payment.                                                                *)
LEMMA FoundShape ==
  ASSUME transfers \in Inputs, NEW k \in 1..Len(transfers)
  PROVE  LET t == transfers[k]
         IN  \/ /\ Found(transfers, k) = <<>>
                /\ t.parent # NoName \/ t.mint \in QuoteTokens
             \/ /\ t.parent # NoName
                /\ \E s : /\ Found(transfers, k) = <<s>>
                          /\ Got(s) \in Nat \ {0} /\ Gave(s) \in Nat \ {0}
                          /\ \A token : MovedOutside(token) => s.tokenIn # token /\ s.tokenOut # token
             \/ /\ Found(transfers, k) = <<Receipt(t), Payment(t)>>
                /\ t.mint \notin QuoteTokens
<1> DEFINE t == transfers[k]
           s == ProcessTransfer(transfers, k).swap
<1>1. CASE IsSwap(t, s)
  <2>1. t.parent # NoName
    BY <1>1 DEF IsSwap, SupportedDex, AmmPrograms, NoName
  <2>2. Found(transfers, k) = <<>> \/ Found(transfers, k) = <<s>>
    BY <1>1 DEF Found
  <2>3. /\ Got(s) \in Nat \ {0} /\ Gave(s) \in Nat \ {0}
        /\ \A token : MovedOutside(token) => s.tokenIn # token /\ s.tokenOut # token
    BY <1>1, TradeFacts
  <2> QED BY <2>1, <2>2, <2>3
<1>2. CASE ~IsSwap(t, s) /\ IsTransfer(t) /\ t.mint \notin QuoteTokens
  <2>1. Found(transfers, k) = <<Receipt(t), Payment(t)>>
    BY <1>2 DEF Found
  <2> QED BY <1>2, <2>1
<1>3. CASE ~IsSwap(t, s) /\ ~(IsTransfer(t) /\ t.mint \notin QuoteTokens)
  <2>1. Found(transfers, k) = <<>>
    BY <1>3 DEF Found
  <2>2. t.parent # NoName \/ t.mint \in QuoteTokens
    BY <1>3, TransferFacts DEF IsTransfer, NoName
  <2> QED BY <2>1, <2>2
<1> QED BY <1>1, <1>2, <1>3

(* A token that moves outside of exchanges is recorded as it moves.        *)
LEMMA FoundGain ==
  ASSUME transfers \in Inputs, NEW k \in 1..Len(transfers),
         NEW token \in PlainMints, MovedOutside(token), HeldExactly(token),
         NEW wallet \in WalletsMoved \ {NoName}
  PROVE  /\ Gain(Found(transfers, k), {wallet}, token) = Brings(transfers[k], wallet, token)
         /\ Brings(transfers[k], wallet, token) \in Int
<1>1. PICK t, n : t = transfers[k] /\ n = Rounded(t.amount)
  OBVIOUS
<1>2. /\ token \notin QuoteTokens /\ token \notin IgnoreTokens /\ token # NoName
      /\ n \in Nat \ {0} /\ NoName \notin QuoteTokens /\ NoName \notin IgnoreTokens
      /\ Rounded(0) = 0
      /\ t.mint = token => t.parent = NoName /\ t.amount = n
  BY <1>1, TransferFacts DEF PlainMints, MovedOutside, HeldExactly, NoName
<1>3. PICK i, o : /\ i = IF t.mint = token /\ t.to = wallet THEN n ELSE 0
                  /\ o = IF t.mint = token /\ t.from = wallet THEN n ELSE 0
  OBVIOUS
<1>4. i \in Int /\ o \in Int /\ i - o \in Int
  <2>1. n \in Int /\ i \in {n, 0} /\ o \in {n, 0}
    BY <1>2, <1>3
  <2> QED BY ONLY <2>1
<1>5. Brings(t, wallet, token) = i - o
  <2>1. CASE t.mint = token
    BY <1>2, <1>3, <2>1 DEF Brings
  <2>2. CASE t.mint # token
    <3>1. Brings(t, wallet, token) = 0 /\ i = 0 /\ o = 0
      BY <1>3, <2>2 DEF Brings
    <3> QED BY ONLY <3>1
  <2> QED BY <2>1, <2>2
<1>6. t.mint # token => Brings(t, wallet, token) = 0
  BY DEF Brings
<1>7. ASSUME /\ Found(transfers, k) = <<>>
             /\ t.parent # NoName \/ t.mint \in QuoteTokens
      PROVE  Gain(Found(transfers, k), {wallet}, token) = Brings(t, wallet, token)
  <2>1. Gain(Found(transfers, k), {wallet}, token) = 0
    BY <1>7, GainOfNone
  <2>2. t.mint # token
    BY <1>2, <1>7
  <2> QED BY <1>6, <2>1, <2>2
<1>8. ASSUME t.parent # NoName, NEW s, Found(transfers, k) = <<s>>, s.tokenIn # token, s.tokenOut # token
      PROVE  Gain(Found(transfers, k), {wallet}, token) = Brings(t, wallet, token)
  <2>1. TokenOf(s) \in {s.tokenIn, s.tokenOut, NoName}
    BY DEF TokenOf, NoName
  <2>2. GainBy(s, {wallet}, token) = 0
    BY <1>2, <1>8, <2>1 DEF GainBy
  <2>3. 0 \in Int
    OBVIOUS
  <2> QED BY <1>2, <1>6, <1>8, <2>2, <2>3, GainOfOne
<1>9. ASSUME Found(transfers, k) = <<Receipt(t), Payment(t)>>, t.mint \notin QuoteTokens
      PROVE  Gain(Found(transfers, k), {wallet}, token) = Brings(t, wallet, token)
  <2>1. Gain(<<Receipt(t), Payment(t)>>, {wallet}, token)
          = Side(t, t.to, {wallet}, token) - Side(t, t.from, {wallet}, token)
    BY <1>1, <1>2, <1>9, PlainGain
  <2>2. Side(t, t.to, {wallet}, token) = i /\ Side(t, t.from, {wallet}, token) = o
    BY <1>1, <1>2, <1>3 DEF Side, Kept
  <2> QED BY <1>5, <1>9, <2>1, <2>2
<1>10. \/ /\ Found(transfers, k) = <<>>
          /\ t.parent # NoName \/ t.mint \in QuoteTokens
       \/ /\ t.parent # NoName
          /\ \E s : /\ Found(transfers, k) = <<s>>
                    /\ s.tokenIn # token /\ s.tokenOut # token
       \/ Found(transfers, k) = <<Receipt(t), Payment(t)>> /\ t.mint \notin QuoteTokens
  BY <1>1, FoundShape
<1>11. Gain(Found(transfers, k), {wallet}, token) = Brings(t, wallet, token)
  <2>1. CASE t.parent # NoName /\ \E s : /\ Found(transfers, k) = <<s>>
                                        /\ s.tokenIn # token /\ s.tokenOut # token
    <3>1. PICK s : Found(transfers, k) = <<s>> /\ s.tokenIn # token /\ s.tokenOut # token
      BY <2>1
    <3> QED BY <1>8, <2>1, <3>1
  <2> QED BY <1>7, <1>9, <1>10, <2>1
<1> QED BY <1>1, <1>4, <1>5, <1>11

(* A token of which there are only receipts and payments, between known    *)
(* wallets, is recorded as much paid as received.                          *)
LEMMA FoundAdds ==
  ASSUME transfers \in Inputs, NEW k \in 1..Len(transfers), NEW token,
         OnlyMovedBy(Found(transfers, k), token), BetweenKnown(token)
  PROVE  Gain(Found(transfers, k), KnownWallets, token) = 0
<1>1. PICK t : t = transfers[k]
  OBVIOUS
<1>2. /\ t \in Elements(transfers) /\ Rounded(0) = 0 /\ Rounded(t.amount) \in Nat \ {0}
      /\ NoName \notin QuoteTokens /\ NoName \notin IgnoreTokens
  BY <1>1, TransferFacts
<1>3. CASE Found(transfers, k) = <<>>
  BY <1>3, GainOfNone
<1>4. ASSUME NEW s, Found(transfers, k) = <<s>>, Got(s) \in Nat \ {0}, Gave(s) \in Nat \ {0}
      PROVE  Gain(Found(transfers, k), KnownWallets, token) = 0
  <2>1. ActionOf(s) \in {"BUY", "SELL", "UNKNOWN"}
    <3>1. Rounded(s.amountIn) # 0 /\ Rounded(s.amountOut) # 0
      BY <1>4 DEF Got, Gave
    <3> QED BY ONLY <3>1 DEF ActionOf
  <2>2. s \in Elements(Found(transfers, k))
    <3>1. 1 \in 1..Len(<<s>>) /\ <<s>>[1] = s
      OBVIOUS
    <3> QED BY <1>4, <3>1 DEF Elements
  <2>3. ~(Usable(s) /\ TokenOf(s) = token)
    BY <2>1, <2>2 DEF OnlyMovedBy
  <2>4. GainBy(s, KnownWallets, token) = 0
    BY <2>3 DEF GainBy
  <2>5. 0 \in Int
    OBVIOUS
  <2> QED BY <1>4, <2>4, <2>5, GainOfOne
<1>5. CASE Found(transfers, k) = <<Receipt(t), Payment(t)>> /\ t.mint \notin QuoteTokens
  <2>1. /\ Gain(<<Receipt(t), Payment(t)>>, KnownWallets, token)
             = Side(t, t.to, KnownWallets, token) - Side(t, t.from, KnownWallets, token)
        /\ Side(t, t.to, KnownWallets, token) \in Int
    BY <1>2, <1>5, PlainGain
  <2>2. t.to \in KnownWallets /\ t.from \in KnownWallets
    <3>1. PICK r, p : r = Receipt(t) /\ p = Payment(t)
      OBVIOUS
    <3>2. r \in Elements(Found(transfers, k)) /\ p \in Elements(Found(transfers, k))
      <4>1. 1 \in 1..Len(<<r, p>>) /\ 2 \in 1..Len(<<r, p>>) /\ <<r, p>>[1] = r /\ <<r, p>>[2] = p
        OBVIOUS
      <4> QED BY <1>5, <3>1, <4>1 DEF Elements
    <3>3. r.wallet = t.to /\ p.wallet = t.from
      BY <3>1 DEF Receipt, Payment, NoSwap
    <3> QED BY <3>2, <3>3 DEF KnownWallets, FoundIn
  <2>3. t.mint = token => t.from # NoName /\ t.to # NoName
    BY <1>2 DEF BetweenKnown
  <2>4. Side(t, t.to, KnownWallets, token) = Side(t, t.from, KnownWallets, token)
    BY <2>2, <2>3 DEF Side, Kept
  <2> QED BY ONLY <1>5, <2>1, <2>4
<1>6. \/ Found(transfers, k) = <<>>
      \/ \E s : Found(transfers, k) = <<s>> /\ Got(s) \in Nat \ {0} /\ Gave(s) \in Nat \ {0}
      \/ Found(transfers, k) = <<Receipt(t), Payment(t)>> /\ t.mint \notin QuoteTokens
  BY <1>1, FoundShape
<1> QED BY <1>3, <1>4, <1>5, <1>6

(* The loop goes on to the next transfer, or skips one of an exchange.     *)
LEMMA AfterSkips ==
  ASSUME transfers \in Inputs, NEW k \in 1..Len(transfers)
  PROVE  \/ After(transfers, k) = k + 1
         \/ /\ After(transfers, k) = k + 2 /\ k + 1 \in 1..Len(transfers)
            /\ transfers[k + 1].parent # NoName
<1>1. Len(transfers) \in Nat
  BY TransferFacts
<1>2. PICK i, l : i = ProcessTransfer(transfers, k).inc /\ l = Len(transfers)
  OBVIOUS
<1>3. i \in {0, 1} /\ (i = 1 => k < l /\ Paired(transfers, k))
  BY <1>1, <1>2, Increments
<1>4. After(transfers, k) \in {k + 1, k + 1 + i}
  BY <1>2 DEF After
<1>5. transfers[k].parent = NoName => i = 0
  BY <1>2 DEF ProcessTransfer, Result, NoName
<1>6. CASE i = 0
  <2>1. k + 1 + 0 = k + 1
    BY <1>1
  <2> QED BY <1>4, <1>6, <2>1
<1>7. CASE i = 1
  <2>1. transfers[k + 1].parent # NoName
    <3>1. transfers[k].parent = transfers[k + 1].parent
      BY <1>3, <1>7 DEF Paired
    <3>2. i # 0
      BY ONLY <1>7
    <3>3. transfers[k].parent # NoName
      BY ONLY <1>5, <3>2
    <3> QED BY ONLY <3>1, <3>3
  <2>2. k + 1 \in 1..Len(transfers) /\ k + 1 + 1 = k + 2
    <3>1. k \in 1..l /\ l \in Nat /\ k < l
      BY <1>1, <1>2, <1>3, <1>7
    <3>2. k + 1 \in 1..l /\ k + 1 + 1 = k + 2
      BY ONLY <3>1
    <3> QED BY <1>2, <3>2
  <2> QED BY <1>4, <1>7, <2>1, <2>2
<1> QED BY <1>3, <1>6, <1>7

(* The amounts of what is found are numbers.                               *)
LEMMA FoundAmounts ==
  ASSUME transfers \in Inputs
  PROVE  \A s \in FoundIn(transfers) : Got(s) \in Int /\ Gave(s) \in Int
<1> SUFFICES ASSUME NEW k \in 1..Len(transfers), NEW s \in Elements(Found(transfers, k))
             PROVE  Got(s) \in Int /\ Gave(s) \in Int
  BY DEF FoundIn
<1>1. PICK t : t = transfers[k]
  OBVIOUS
<1>2. Rounded(t.amount) \in Nat /\ Rounded(0) = 0 /\ 0 \in Int
  BY <1>1, TransferFacts
<1>3. CASE Found(transfers, k) = <<>>
  BY <1>3 DEF Elements
<1>4. CASE \E x : Found(transfers, k) = <<x>> /\ Got(x) \in Nat \ {0} /\ Gave(x) \in Nat \ {0}
  <2>1. PICK x : Found(transfers, k) = <<x>> /\ Got(x) \in Nat \ {0} /\ Gave(x) \in Nat \ {0}
    BY <1>4
  <2>2. Elements(<<x>>) = {x}
    BY DEF Elements
  <2>3. Got(x) \in Int /\ Gave(x) \in Int
    BY ONLY <2>1
  <2> QED BY <2>1, <2>2, <2>3
<1>5. CASE Found(transfers, k) = <<Receipt(t), Payment(t)>>
  <2>1. PICK r, p : r = Receipt(t) /\ p = Payment(t)
    OBVIOUS
  <2>2. Elements(<<r, p>>) = {r, p}
    BY DEF Elements
  <2>3. {Got(r), Gave(r), Got(p), Gave(p)} \subseteq {Rounded(t.amount), 0}
    BY <1>2, <2>1 DEF Receipt, Payment, NoSwap, Got, Gave
  <2>4. Rounded(t.amount) \in Int /\ 0 \in Int
    BY ONLY <1>2
  <2> QED BY <1>5, <2>1, <2>2, <2>3, <2>4
<1>6. \/ Found(transfers, k) = <<>>
      \/ \E x : Found(transfers, k) = <<x>> /\ Got(x) \in Nat \ {0} /\ Gave(x) \in Nat \ {0}
      \/ Found(transfers, k) = <<Receipt(t), Payment(t)>>
  BY <1>1, FoundShape
<1> QED BY <1>3, <1>4, <1>5, <1>6

(* A round of the loop adds what its transfer brings; the one it may skip  *)
(* brings nothing.                                                         *)
LEMMA RoundGain ==
  ASSUME transfers \in Inputs, NEW k \in 1..Len(transfers), NEW ss \in Seq(FoundIn(transfers)),
         NEW token \in PlainMints, MovedOutside(token), HeldExactly(token),
         NEW wallet \in WalletsMoved \ {NoName},
         Gain(ss, {wallet}, token) = Total(Brought(wallet, token), k - 1)
  PROVE  Gain(ss \o Found(transfers, k), {wallet}, token)
           = Total(Brought(wallet, token), After(transfers, k) - 1)
<1>1. PICK b, l : b = Brought(wallet, token) /\ l = Len(transfers)
  OBVIOUS
<1>2. l \in Nat /\ k \in 1..l
  BY <1>1, TransferFacts
<1>3. \A j \in 1..l : b[j] = Brings(transfers[j], wallet, token) /\ b[j] \in Int
  <2>1. \A j \in 1..l : b[j] = Brings(transfers[j], wallet, token)
    BY <1>1 DEF Brought
  <2>2. \A j \in 1..l : Brings(transfers[j], wallet, token) \in Int
    BY <1>1, FoundGain
  <2> QED BY <2>1, <2>2
<1>4. Gain(ss \o Found(transfers, k), {wallet}, token) = Total(b, k)
  <2>1. /\ Gain(ss, {wallet}, token) \in Int
        /\ Gain(ss \o Found(transfers, k), {wallet}, token)
             = Gain(ss, {wallet}, token) + Gain(Found(transfers, k), {wallet}, token)
    <3>1. Len(transfers) \in Nat
      BY TransferFacts
    <3>2. Found(transfers, k) \in Seq(FoundIn(transfers))
      BY <3>1, FoundSeq
    <3> QED BY <3>2, FoundAmounts, GainConcat
  <2>2. Gain(Found(transfers, k), {wallet}, token) = b[k]
    BY <1>1, <1>2, <1>3, FoundGain
  <2>3. k - 1 \in Nat /\ (k - 1) + 1 = k /\ \A j \in 1..((k - 1) + 1) : j \in 1..l
    BY ONLY <1>2
  <2>4. Total(b, (k - 1) + 1) = Total(b, k - 1) + b[(k - 1) + 1]
    BY ONLY <1>3, <2>3, TotalStep
  <2> QED BY <1>1, <2>1, <2>2, <2>3, <2>4
<1>5. CASE After(transfers, k) = k + 1
  <2>1. After(transfers, k) - 1 = k
    BY ONLY <1>2, <1>5
  <2> QED BY <1>1, <1>4, <2>1
<1>6. CASE /\ After(transfers, k) = k + 2 /\ k + 1 \in 1..l
           /\ transfers[k + 1].parent # NoName
  <2>1. /\ After(transfers, k) - 1 = k + 1 /\ k \in Nat
        /\ \A j \in 1..(k + 1) : j \in 1..l
    BY ONLY <1>2, <1>6
  <2>2. b[k + 1] = 0
    <3>1. transfers[k + 1] \in Elements(transfers)
      BY <1>1, <1>6, TransferFacts
    <3>2. transfers[k + 1].mint # token
      BY <1>6, <3>1 DEF MovedOutside, NoName
    <3> QED BY <1>3, <1>6, <3>2 DEF Brings
  <2>3. Total(b, k) \in Int /\ Total(b, k + 1) = Total(b, k) + b[k + 1]
    BY ONLY <1>3, <2>1, TotalStep
  <2>4. Total(b, k + 1) = Total(b, k)
    BY ONLY <2>2, <2>3
  <2> QED BY <1>1, <1>4, <2>1, <2>4
<1> QED BY <1>1, <1>5, <1>6, AfterSkips

(* And keeps what is conserved.                                            *)
LEMMA RoundConserves ==
  ASSUME transfers \in Inputs, NEW k \in 1..Len(transfers), NEW ss \in Seq(FoundIn(transfers)),
         Conserves(ss)
  PROVE  Conserves(ss \o Found(transfers, k))
<1> SUFFICES ASSUME NEW token \in MintsMoved, OnlyMovedBy(ss \o Found(transfers, k), token),
                    BetweenKnown(token)
             PROVE  Gain(ss \o Found(transfers, k), KnownWallets, token) = 0
  BY DEF Conserves
<1>1. PICK f : f = Found(transfers, k)
  OBVIOUS
<1>2. f \in Seq(FoundIn(transfers))
  <2>1. Len(transfers) \in Nat
    BY TransferFacts
  <2> QED BY <1>1, <2>1, FoundSeq
<1>3. Elements(ss) \subseteq Elements(ss \o f) /\ Elements(f) \subseteq Elements(ss \o f)
  <2>1. /\ Len(ss) \in Nat /\ Len(f) \in Nat /\ Len(ss \o f) = Len(ss) + Len(f)
        /\ \A i \in 1..Len(ss) : i \in 1..Len(ss \o f) /\ (ss \o f)[i] = ss[i]
        /\ \A i \in 1..Len(f) : Len(ss) + i \in 1..Len(ss \o f) /\ (ss \o f)[Len(ss) + i] = f[i]
    BY ONLY ss \in Seq(FoundIn(transfers)), <1>2
  <2> QED BY ONLY <2>1 DEF Elements
<1>4. OnlyMovedBy(ss, token) /\ OnlyMovedBy(f, token)
  BY <1>1, <1>3 DEF OnlyMovedBy
<1>5. Gain(ss, KnownWallets, token) = 0 /\ Gain(f, KnownWallets, token) = 0
  <2>1. Gain(ss, KnownWallets, token) = 0
    BY <1>4 DEF Conserves
  <2>2. Gain(f, KnownWallets, token) = 0
    BY <1>1, <1>4, FoundAdds
  <2> QED BY <2>1, <2>2
<1>6. Gain(ss \o f, KnownWallets, token)
        = Gain(ss, KnownWallets, token) + Gain(f, KnownWallets, token)
  BY <1>2, FoundAmounts, GainConcat
<1> QED BY <1>1, <1>5, <1>6

(* What is read off the transfers stays as it is while they do.            *)
LEMMA SameTransfers ==
  ASSUME transfers' = transfers
  PROVE  /\ FoundIn(transfers)' = FoundIn(transfers) /\ Len(transfers)' = Len(transfers)
         /\ \A ss : Conserves(ss)' <=> Conserves(ss)
         /\ \A ss, n : AddsUp(ss, n)' <=> AddsUp(ss, n)
<1>1. /\ MintsMoved' = MintsMoved /\ PlainMints' = PlainMints /\ WalletsMoved' = WalletsMoved
      /\ KnownWallets' = KnownWallets
  BY DEF MintsMoved, PlainMints, WalletsMoved, KnownWallets
<1>2. \A token : /\ MovedOutside(token)' <=> MovedOutside(token)
                 /\ BetweenKnown(token)' <=> BetweenKnown(token)
                 /\ HeldExactly(token)' <=> HeldExactly(token)
  BY DEF MovedOutside, BetweenKnown, HeldExactly
<1>3. \A wallet, token : Brought(wallet, token)' = Brought(wallet, token)
  BY DEF Brought
<1>4. \A ss : Conserves(ss)' <=> Conserves(ss)
  BY <1>1, <1>2 DEF Conserves
<1>5. \A ss, n : AddsUp(ss, n)' <=> AddsUp(ss, n)
  BY <1>1, <1>2, <1>3 DEF AddsUp
<1> QED BY <1>4, <1>5

(* Nothing has been added up before the loop.                              *)
LEMMA NothingMoved ==
  ASSUME transfers \in Inputs
  PROVE  <<>> \in Seq(FoundIn(transfers)) /\ Conserves(<<>>) /\ AddsUp(<<>>, 0)
<1>1. Conserves(<<>>)
  BY GainOfNone DEF Conserves
<1>2. AddsUp(<<>>, 0)
  BY GainOfNone, TotalZero DEF AddsUp
<1> QED BY <1>1, <1>2

(* A transaction that is left alone moves SOL only.                        *)
LEMMA LeftAlone ==
  ASSUME transfers \in Inputs, ~ValidateTX(transfers)
  PROVE  PlainMints = {}
<1> SUFFICES ASSUME NEW t \in Elements(transfers), t.mint \notin QuoteTokens PROVE FALSE
  BY DEF PlainMints, MintsMoved
<1>1. t.type = "native"
  BY DEF ValidateTX
<1> QED BY <1>1, SwapAssumption

(* The invariant holds before the loop begins.                             *)
LEMMA MoveInit == SwapInit => MoveInv
<1> SUFFICES ASSUME SwapInit PROVE MoveInv
  OBVIOUS
<1>1. transfers \in Inputs /\ at = 1 /\ swaps = <<>> /\ stage = "scan"
  BY DEF SwapInit
<1>2. at - 1 = 0
  BY <1>1
<1> QED BY <1>1, <1>2, NothingMoved DEF MoveInv

(* Every step keeps the account of what was moved.                         *)
LEMMA MoveStep == SwapInv /\ MoveInv /\ [SwapNext]_swapVars => MoveInv'
<1> SUFFICES ASSUME SwapInv, MoveInv, [SwapNext]_swapVars PROVE MoveInv'
  OBVIOUS
<1>1. transfers \in Inputs /\ Len(transfers) \in Nat
  BY TransfersInHand DEF SwapInv
<1>2. transfers' = transfers
  BY DEF SwapNext, swapVars, SkipIgnored, SkipSameToken, RecordSwap, RecordTransfer,
         SkipOther, Advance, ScanEnds, Build, InsertSwaps, Redeliver
<1>3. CASE SkipIgnored \/ SkipSameToken \/ RecordSwap \/ RecordTransfer \/ SkipOther
  <2>1. /\ stage = "scan" /\ at \in 1..Len(transfers)
        /\ at' = After(transfers, at)
        /\ swaps' = swaps \o Found(transfers, at)
        /\ stage' = stage
    BY <1>3, ScanStep
  <2>2. swaps \in Seq(FoundIn(transfers)) /\ Conserves(swaps) /\ AddsUp(swaps, at - 1)
    BY <2>1 DEF MoveInv
  <2>3. swaps \o Found(transfers, at) \in Seq(FoundIn(transfers))
    <3>1. Found(transfers, at) \in Seq(FoundIn(transfers))
      BY <1>1, <2>1, FoundSeq
    <3> QED BY <2>2, <3>1
  <2>4. Conserves(swaps \o Found(transfers, at))
    BY <1>1, <2>1, <2>2, RoundConserves
  <2>5. AddsUp(swaps \o Found(transfers, at), After(transfers, at) - 1)
    BY <1>1, <2>1, <2>2, RoundGain DEF AddsUp
  <2> QED BY <1>2, <2>1, <2>3, <2>4, <2>5, SameTransfers DEF MoveInv
<1>4. CASE ScanEnds
  <2>1. /\ stage = "scan" /\ stage' = "build" /\ swaps' = swaps
        /\ ~(ValidateTX(transfers) /\ at <= Len(transfers))
    BY <1>4 DEF ScanEnds, Scanning
  <2>2. swaps \in Seq(FoundIn(transfers)) /\ Conserves(swaps) /\ AddsUp(swaps, at - 1)
    BY <2>1 DEF MoveInv
  <2>3. AddsUp(swaps, Len(transfers))
    <3>1. CASE ValidateTX(transfers)
      <4>1. at - 1 = Len(transfers)
        BY <1>1, <2>1, <3>1 DEF SwapInv, ScanInv
      <4> QED BY <2>2, <4>1
    <3>2. CASE ~ValidateTX(transfers)
      BY <1>1, <3>2, LeftAlone DEF AddsUp
    <3> QED BY <3>1, <3>2
  <2> QED BY <1>2, <2>1, <2>2, <2>3, SameTransfers DEF MoveInv
<1>5. CASE Build
  <2>1. stage = "build" /\ stage' = "insert" /\ swaps' = swaps /\ finalSwaps' = Final(Built(swaps))
    BY <1>5 DEF Build
  <2> QED BY <1>2, <2>1, SameTransfers DEF MoveInv
<1>6. CASE InsertSwaps
  BY <1>6 DEF InsertSwaps, MoveInv
<1>7. CASE Redeliver
  <2>1. stage' = "scan" /\ swaps' = <<>> /\ at' = 1 /\ at' - 1 = 0
    BY <1>7 DEF Redeliver
  <2> QED BY <1>1, <1>2, <2>1, NothingMoved, SameTransfers DEF MoveInv
<1>8. CASE UNCHANGED swapVars
  <2>1. /\ stage' = stage /\ swaps' = swaps /\ at' = at /\ finalSwaps' = finalSwaps
    BY <1>8 DEF swapVars
  <2> QED BY <1>2, <2>1, SameTransfers DEF MoveInv
<1> QED BY <1>3, <1>4, <1>5, <1>6, <1>7, <1>8 DEF SwapNext

-----------------------------------------------------------------------------
(* The rows.                                                               *)

(* The rows are those of the usable swaps.                                 *)
LEMMA BuiltRows ==
  ASSUME NEW X, NEW ss \in Seq(X)
  PROVE  LET U == {s \in Elements(ss) : Usable(s)}
         IN  /\ Keep(ss, U) \in Seq(X)
             /\ Len(Built(ss)) = Len(Keep(ss, U)) /\ Len(Built(ss)) \in Nat
             /\ \A k \in 1..Len(Built(ss)) : Built(ss)[k] = RowOf(Keep(ss, U)[k])
<1> DEFINE U == {s \in Elements(ss) : Usable(s)}
<1>1. PICK z : z = Keep(ss, U)
  OBVIOUS
<1>2. z \in Seq(X \intersect U)
  BY <1>1, KeepSeq
<1>3. z \in Seq(X) /\ Len(z) \in Nat
  <2> HIDE DEF U
  <2> QED BY ONLY <1>2
<1>4. Built(ss) = [k \in 1..Len(z) |-> RowOf(z[k])]
  BY <1>1 DEF Built
<1>5. Len(Built(ss)) = Len(z) /\ \A k \in 1..Len(z) : Built(ss)[k] = RowOf(z[k])
  BY ONLY <1>3, <1>4
<1> QED BY <1>1, <1>3, <1>5

(* Each has a usable swap, and each usable swap has one.                   *)
LEMMA BuiltElements ==
  ASSUME NEW X, NEW ss \in Seq(X)
  PROVE  Elements(Built(ss)) = {RowOf(s) : s \in {x \in Elements(ss) : Usable(x)}}
<1> DEFINE U == {s \in Elements(ss) : Usable(s)}
<1>1. PICK z, rs : z = Keep(ss, U) /\ rs = Built(ss)
  OBVIOUS
<1>2. Len(rs) = Len(z) /\ \A k \in 1..Len(rs) : rs[k] = RowOf(z[k])
  BY <1>1, BuiltRows
<1>3. Elements(rs) = {RowOf(s) : s \in Elements(z)}
  BY <1>2 DEF Elements
<1>4. Elements(z) = U
  <2>1. Elements(z) \subseteq U
    BY <1>1, KeepOnly
  <2>2. ASSUME NEW s \in U PROVE s \in Elements(z)
    <3>1. PICK i \in 1..Len(ss) : ss[i] = s
      BY DEF Elements
    <3> QED BY <1>1, <3>1, KeepAll
  <2> QED BY <2>1, <2>2
<1> QED BY <1>1, <1>3, <1>4

(* A sum over the rows of a token and of some wallets is what the swaps    *)
(* add to their sheets.                                                    *)
LEMMA BuiltGain ==
  ASSUME transfers \in Inputs, NEW ss \in Seq(FoundIn(transfers)), NEW W, NEW token,
         NEW f, \A k \in 1..Len(Built(ss)) :
                   f[k] = IF Built(ss)[k].wallet \in W /\ Built(ss)[k].token = token
                          THEN Built(ss)[k].amountIn - Built(ss)[k].amountOut ELSE 0
  PROVE  Total(f, Len(Built(ss))) = Gain(ss, W, token)
<1> DEFINE U == {s \in Elements(ss) : Usable(s)}
           X == FoundIn(transfers)
           w == [s \in X |-> IF s.wallet \in W /\ TokenOf(s) = token THEN Got(s) - Gave(s) ELSE 0]
           h == [k \in 1..Len(ss) |-> GainBy(ss[k], W, token)]
<1>1. PICK z : z = Keep(ss, U)
  OBVIOUS
<1>2. z \in Seq(X) /\ Len(Built(ss)) = Len(z) /\ \A k \in 1..Len(Built(ss)) : Built(ss)[k] = RowOf(z[k])
  BY <1>1, BuiltRows
<1>3. \A s \in X : w[s] \in Int
  <2>1. \A s \in X : Got(s) \in Int /\ Gave(s) \in Int
    BY FoundAmounts
  <2> QED BY <2>1
<1>4. \A s : /\ RowOf(s).wallet = s.wallet /\ RowOf(s).token = TokenOf(s)
             /\ RowOf(s).amountIn = Got(s) /\ RowOf(s).amountOut = Gave(s)
  BY DEF RowOf, Got, Gave
<1>5. \A i \in 1..Len(z) : f[i] = w[z[i]]
  <2>1. \A i \in 1..Len(z) : z[i] \in X
    BY <1>2
  <2> QED BY <1>2, <1>4, <2>1
<1>6. \A i \in 1..Len(ss) : h[i] = IF ss[i] \in U THEN w[ss[i]] ELSE 0
  <2>1. \A i \in 1..Len(ss) : ss[i] \in X /\ ss[i] \in Elements(ss)
    BY DEF Elements
  <2> QED BY <2>1 DEF GainBy
<1> HIDE DEF w, U, X, h
<1>7. Total(f, Len(z)) = Total(h, Len(ss))
  <2>1. ss \in Seq(X) /\ \A i \in 1..Len(Keep(ss, U)) : f[i] = w[Keep(ss, U)[i]]
    BY <1>1, <1>5 DEF X
  <2>2. Total(f, Len(Keep(ss, U))) = Total(h, Len(ss))
    BY <1>3, <1>6, <2>1, KeepTotal
  <2> QED BY <1>1, <2>2
<1> QED BY <1>2, <1>7 DEF Gain, h

(* The sum of the differences of a wallet and token, rounded or not.       *)
Exact(rs, wallet, token) == Total(Differences(rs, wallet, token), Len(rs))

(* What the rows of a wallet, and all rows, move of a token.               *)
LEMMA BuiltBalance ==
  ASSUME transfers \in Inputs, NEW ss \in Seq(FoundIn(transfers)), NEW token
  PROVE  /\ \A wallet : Exact(Built(ss), wallet, token) = Gain(ss, {wallet}, token)
         /\ Moved(Built(ss), token) = Gain(ss, KnownWallets, token)
<1>1. PICK rs : rs = Built(ss)
  OBVIOUS
<1>2. ASSUME NEW wallet PROVE Exact(rs, wallet, token) = Gain(ss, {wallet}, token)
  <2> DEFINE f == [k \in 1..Len(rs) |-> IF rs[k].wallet = wallet /\ rs[k].token = token
                                        THEN rs[k].amountIn - rs[k].amountOut ELSE 0]
  <2>1. \A k \in 1..Len(rs) : f[k] = IF rs[k].wallet \in {wallet} /\ rs[k].token = token
                                     THEN rs[k].amountIn - rs[k].amountOut ELSE 0
    OBVIOUS
  <2> HIDE DEF f
  <2>2. Total(f, Len(rs)) = Gain(ss, {wallet}, token)
    BY <1>1, <2>1, BuiltGain
  <2> QED BY <2>2 DEF Exact, Differences, f
<1>3. Moved(rs, token) = Gain(ss, KnownWallets, token)
  <2> DEFINE f == [k \in 1..Len(rs) |-> IF rs[k].token = token
                                        THEN rs[k].amountIn - rs[k].amountOut ELSE 0]
  <2>1. \A k \in 1..Len(rs) : rs[k].wallet \in KnownWallets
    <3> SUFFICES ASSUME NEW k \in 1..Len(rs) PROVE rs[k].wallet \in KnownWallets
      OBVIOUS
    <3>1. rs[k] \in Elements(rs)
      BY DEF Elements
    <3>2. PICK s \in Elements(ss) : rs[k] = RowOf(s)
      BY <1>1, <3>1, BuiltElements
    <3>3. s \in FoundIn(transfers)
      <4>1. Elements(ss) \subseteq FoundIn(transfers)
        BY DEF Elements
      <4> QED BY <4>1
    <3>4. rs[k].wallet = s.wallet
      BY <3>2 DEF RowOf
    <3> QED BY <3>3, <3>4 DEF KnownWallets
  <2>2. \A k \in 1..Len(rs) : f[k] = IF rs[k].wallet \in KnownWallets /\ rs[k].token = token
                                     THEN rs[k].amountIn - rs[k].amountOut ELSE 0
    BY <2>1
  <2> HIDE DEF f
  <2>3. Total(f, Len(rs)) = Gain(ss, KnownWallets, token)
    BY <1>1, <2>2, BuiltGain
  <2> QED BY <2>3 DEF Moved, f
<1> QED BY <1>1, <1>2, <1>3

(* The sheet of a wallet and token, of which no sum is rounded, has the    *)
(* sum.                                                                    *)
NoneRounded(rs, wallet, token) ==
    LET d == Differences(rs, wallet, token)
    IN  \A k \in 1..Len(rs) : Rounded(d[k]) = d[k] /\ Rounded(Total(d, k)) = Total(d, k)

LEMMA BalanceExact ==
  ASSUME NEW rs, Len(rs) \in Nat, NEW wallet, NEW token,
         \A k \in 1..Len(rs) : Differences(rs, wallet, token)[k] \in Int,
         NoneRounded(rs, wallet, token)
  PROVE  Balance(rs, wallet, token) = Exact(rs, wallet, token)
<1> DEFINE n == Len(rs)
           Own(k) == rs[k].wallet = wallet /\ rs[k].token = token
           x(k) == rs[k].amountIn - rs[k].amountOut
           Sheet(f, k) == IF k = 0 THEN 0
                          ELSE IF Own(k) THEN Rounded(f[k - 1] + Rounded(x(k))) ELSE f[k - 1]
           sum == CHOOSE f : f = [k \in 0..n |-> Sheet(f, k)]
<1>1. PICK d : d = Differences(rs, wallet, token)
  OBVIOUS
<1>2. \A k \in 1..n : d[k] = IF Own(k) THEN x(k) ELSE 0
  BY <1>1 DEF Differences
<1>3. /\ n \in Nat
      /\ \A k \in 1..n : d[k] \in Int /\ Rounded(d[k]) = d[k] /\ Rounded(Total(d, k)) = Total(d, k)
  BY <1>1 DEF NoneRounded
<1>4. Balance(rs, wallet, token) = sum[n]
  BY DEF Balance
<1>5. Exact(rs, wallet, token) = Total(d, n)
  BY <1>1 DEF Exact
<1> HIDE DEF n, Own, x, sum
<1> DEFINE g == [k \in 0..n |-> Total(d, k)]
<1>6. ASSUME NEW k \in 1..n, NEW f, f[k - 1] = Total(d, k - 1) PROVE Sheet(f, k) = Total(d, k)
  <2>1. k - 1 \in Nat /\ (k - 1) + 1 = k /\ k # 0 /\ \A i \in 1..((k - 1) + 1) : i \in 1..n
    BY <1>3
  <2>2. Total(d, k - 1) \in Int /\ Total(d, (k - 1) + 1) = Total(d, k - 1) + d[(k - 1) + 1]
    <3>1. \A i \in 1..((k - 1) + 1) : d[i] \in Int
      BY <1>3, <2>1
    <3> QED BY ONLY <2>1, <3>1, TotalStep
  <2>3. Total(d, k) = f[k - 1] + d[k]
    BY <1>6, <2>1, <2>2
  <2>4. CASE Own(k)
    <3>1. d[k] = x(k) /\ Rounded(d[k]) = d[k] /\ Rounded(Total(d, k)) = Total(d, k)
      BY <1>2, <1>3, <2>4
    <3>2. Sheet(f, k) = Rounded(f[k - 1] + Rounded(x(k)))
      BY <2>1, <2>4
    <3>3. Rounded(x(k)) = d[k]
      BY <3>1
    <3> HIDE DEF Sheet
    <3> QED BY <2>3, <3>1, <3>2, <3>3
  <2>5. CASE ~Own(k)
    <3>1. d[k] = 0
      BY <1>2, <2>5
    <3>2. Sheet(f, k) = f[k - 1]
      BY <2>1, <2>5
    <3>3. f[k - 1] \in Int
      BY <1>6, <2>2
    <3> HIDE DEF Sheet
    <3> QED BY ONLY <2>3, <3>1, <3>2, <3>3
  <2> QED BY <2>4, <2>5
<1>7. g = [k \in 0..n |-> Sheet(g, k)]
  <2>1. \A k \in 0..n : k # 0 => k \in 1..n /\ k - 1 \in 0..n
    BY <1>3
  <2>2. ASSUME NEW k \in 0..n PROVE Total(d, k) = Sheet(g, k)
    <3>1. CASE k = 0
      BY <3>1, TotalZero
    <3>2. CASE k # 0
      <4>1. k \in 1..n /\ g[k - 1] = Total(d, k - 1)
        BY <2>1, <3>2
      <4> HIDE DEF g, Sheet
      <4> QED BY <1>6, <4>1
    <3> QED BY <3>1, <3>2
  <2> HIDE DEF Sheet
  <2> QED BY <2>2
<1>8. sum = [k \in 0..n |-> Sheet(sum, k)]
  <2> HIDE DEF g
  <2> QED BY <1>7 DEF sum
<1> DEFINE T == {k \in Nat : k <= n => sum[k] = Total(d, k)}
<1>9. 0 \in T
  <2>1. 0 \in 0..n
    BY <1>3
  <2>2. sum[0] = Sheet(sum, 0)
    BY <1>8, <2>1
  <2> QED BY <2>2, TotalZero
<1>10. ASSUME NEW k \in Nat, k \in T PROVE k + 1 \in T
  <2> SUFFICES ASSUME k + 1 <= n PROVE sum[k + 1] = Total(d, k + 1)
    OBVIOUS
  <2>1. k + 1 \in 1..n /\ k + 1 \in 0..n /\ (k + 1) - 1 = k /\ sum[k] = Total(d, k)
    BY <1>3, <1>10
  <2>2. sum[k + 1] = Sheet(sum, k + 1)
    BY <1>8, <2>1
  <2> HIDE DEF Sheet, T
  <2> QED BY <1>6, <2>1, <2>2
<1> HIDE DEF T
<1>11. n \in T
  BY <1>3, <1>9, <1>10, Induction
<1> QED BY <1>3, <1>4, <1>5, <1>11 DEF T

(* Leaving out the rows of a wallet whose balance is 0 leaves out 0, if    *)
(* the balances are the sums.                                              *)
LEMMA FinalMoved ==
  ASSUME NEW Y, NEW rs \in Seq(Y), \A r \in Y : r.amountIn \in Int /\ r.amountOut \in Int,
         \A r \in Elements(rs) : r.wallet \notin IgnoreToUsers, NEW token,
         \A wallet : Balance(rs, wallet, token) = Exact(rs, wallet, token)
  PROVE  Moved(Final(rs), token) = Moved(rs, token)
<1> DEFINE S == {r \in Elements(rs) : /\ Balance(rs, r.wallet, r.token) # 0
                                      /\ r.wallet \notin IgnoreToUsers}
           n == Len(rs)
           w == [r \in Y |-> IF r.token = token THEN r.amountIn - r.amountOut ELSE 0]
           amt == [k \in 1..n |-> w[rs[k]]]
           owner == [k \in 1..n |-> rs[k].wallet]
           group == [i \in 1..n |-> [j \in 1..n |-> IF owner[j] = owner[i] THEN amt[j] ELSE 0]]
           bal == [i \in 1..n |-> Total(group[i], n)]
           out == [i \in 1..n |-> IF bal[i] = 0 THEN amt[i] ELSE 0]
           h == [i \in 1..n |-> IF rs[i] \in S THEN w[rs[i]] ELSE 0]
<1>1. /\ n \in Nat
      /\ \A k \in 1..n : rs[k] \in Y /\ rs[k] \in Elements(rs)
  <2>1. \A k \in 1..n : rs[k] \in Elements(rs)
    BY DEF Elements
  <2> QED BY <2>1
<1>2. \A r \in Y : w[r] \in Int
  <2> SUFFICES ASSUME NEW r \in Y PROVE w[r] \in Int
    OBVIOUS
  <2>1. r.amountIn - r.amountOut \in Int /\ 0 \in Int
    OBVIOUS
  <2>2. w[r] \in {r.amountIn - r.amountOut, 0}
    OBVIOUS
  <2> QED BY ONLY <2>1, <2>2
<1>3. \A k \in 1..n : amt[k] \in Int /\ amt[k] = w[rs[k]]
  <2> HIDE DEF w
  <2> QED BY <1>1, <1>2
<1>4. Moved(Final(rs), token) = Total(h, n)
  <2>1. PICK z : z = Keep(rs, S)
    OBVIOUS
  <2>2. Final(rs) = z
    BY <2>1 DEF Final
  <2>3. z \in Seq(Y)
    <3>1. z \in Seq(Y \intersect S)
      BY <2>1, KeepSeq
    <3> HIDE DEF S
    <3> QED BY <3>1
  <2> DEFINE f == [k \in 1..Len(z) |-> IF z[k].token = token THEN z[k].amountIn - z[k].amountOut ELSE 0]
  <2>4. \A i \in 1..Len(z) : f[i] = w[z[i]]
    <3>1. \A i \in 1..Len(z) : z[i] \in Y
      BY <2>3
    <3> QED BY <3>1
  <2>5. \A i \in 1..Len(rs) : h[i] = IF rs[i] \in S THEN w[rs[i]] ELSE 0
    OBVIOUS
  <2> HIDE DEF f, w, S, h
  <2>6. Total(f, Len(Keep(rs, S))) = Total(h, Len(rs))
    <3>1. \A i \in 1..Len(Keep(rs, S)) : f[i] = w[Keep(rs, S)[i]]
      BY <2>1, <2>4
    <3> QED BY ONLY <1>2, <2>5, <3>1, rs \in Seq(Y), KeepTotal
  <2> QED BY <2>1, <2>2, <2>6 DEF Moved, f, n
<1>5. Moved(rs, token) = Total(amt, n)
  <2> DEFINE f == [k \in 1..n |-> IF rs[k].token = token THEN rs[k].amountIn - rs[k].amountOut ELSE 0]
  <2>1. \A k \in 1..n : amt[k] = f[k]
    BY <1>1
  <2>2. Moved(rs, token) = Total(f, n)
    BY DEF Moved
  <2> HIDE DEF f, amt
  <2> QED BY <1>1, <1>3, <2>1, <2>2, TotalSame
<1>6. Total(out, n) = 0
  <2>1. /\ \A i, j \in 1..n : group[i][j] = IF owner[j] = owner[i] THEN amt[j] ELSE 0
        /\ \A i \in 1..n : bal[i] = Total(group[i], n)
        /\ \A i \in 1..n : out[i] = IF bal[i] = 0 THEN amt[i] ELSE 0
    OBVIOUS
  <2>2. n \in Nat /\ \A i \in 1..n : amt[i] \in Int
    BY <1>1, <1>3
  <2> HIDE DEF group, owner, bal, out, amt, n
  <2>3. Settles(n, amt, owner, group, bal, out)
    BY ONLY <2>1, <2>2 DEF Settles
  <2> QED BY ONLY <2>2, <2>3, SettledGroups
<1>7. \A i \in 1..n : rs[i].token = token => bal[i] = Balance(rs, rs[i].wallet, token)
  <2> SUFFICES ASSUME NEW i \in 1..n, rs[i].token = token PROVE bal[i] = Balance(rs, rs[i].wallet, token)
    OBVIOUS
  <2> DEFINE f == [k \in 1..n |-> IF rs[k].wallet = rs[i].wallet /\ rs[k].token = token
                                  THEN rs[k].amountIn - rs[k].amountOut ELSE 0]
  <2>1. Balance(rs, rs[i].wallet, token) = Total(f, n)
    BY DEF Exact, Differences
  <2>2. PICK g : g = group[i]
    OBVIOUS
  <2>3. \A j \in 1..n : g[j] = IF rs[j].wallet = rs[i].wallet THEN amt[j] ELSE 0
    BY <2>2
  <2>4. \A j \in 1..n : amt[j] = IF rs[j].token = token THEN rs[j].amountIn - rs[j].amountOut ELSE 0
    BY <1>1
  <2>5. \A j \in 1..n : f[j] = IF rs[j].wallet = rs[i].wallet /\ rs[j].token = token
                               THEN rs[j].amountIn - rs[j].amountOut ELSE 0
    OBVIOUS
  <2>6. bal[i] = Total(g, n)
    BY <2>2
  <2> HIDE DEF f, amt, bal, group
  <2>7. \A j \in 1..n : g[j] \in Int /\ g[j] = f[j]
    <3> SUFFICES ASSUME NEW j \in 1..n PROVE g[j] \in Int /\ g[j] = f[j]
      OBVIOUS
    <3>1. amt[j] \in Int
      BY ONLY <1>3, j \in 1..n
    <3>2. g[j] = IF rs[j].wallet = rs[i].wallet THEN amt[j] ELSE 0
      BY ONLY <2>3, j \in 1..n
    <3>3. amt[j] = IF rs[j].token = token THEN rs[j].amountIn - rs[j].amountOut ELSE 0
      BY ONLY <2>4, j \in 1..n
    <3>4. f[j] = IF rs[j].wallet = rs[i].wallet /\ rs[j].token = token
                 THEN rs[j].amountIn - rs[j].amountOut ELSE 0
      BY ONLY <2>5, j \in 1..n
    <3> QED BY ONLY <3>1, <3>2, <3>3, <3>4
  <2> QED BY <1>1, <2>1, <2>6, <2>7, TotalSame
<1>8. \A i \in 1..n : amt[i] = out[i] + h[i] /\ out[i] \in Int /\ h[i] \in Int
  <2> SUFFICES ASSUME NEW i \in 1..n PROVE amt[i] = out[i] + h[i] /\ out[i] \in Int /\ h[i] \in Int
    OBVIOUS
  <2>1. out[i] = IF bal[i] = 0 THEN amt[i] ELSE 0
    OBVIOUS
  <2>2. h[i] = IF rs[i] \in S THEN amt[i] ELSE 0
    BY <1>3
  <2>3. rs[i].token # token => amt[i] = 0
    BY <1>1
  <2>4. rs[i].token = token => (rs[i] \in S <=> bal[i] # 0)
    BY <1>1, <1>7
  <2>5. amt[i] \in Int
    BY <1>3
  <2> HIDE DEF S, w, amt, out, h, bal
  <2>6. CASE rs[i].token = token
    <3>1. \/ out[i] = amt[i] /\ h[i] = 0
          \/ out[i] = 0 /\ h[i] = amt[i]
      BY <2>1, <2>2, <2>4, <2>6
    <3> QED BY ONLY <2>5, <3>1
  <2>7. CASE rs[i].token # token
    <3>1. amt[i] = 0 /\ out[i] = 0 /\ h[i] = 0
      BY <2>1, <2>2, <2>3, <2>7
    <3> QED BY ONLY <3>1
  <2> QED BY <2>6, <2>7
<1> HIDE DEF amt, out, h, n
<1>9. Total(amt, n) = Total(out, n) + Total(h, n)
  BY <1>1, <1>8, TotalPlus
<1>10. Total(h, n) \in Int
  BY <1>1, <1>8, TotalInt
<1> QED BY ONLY <1>4, <1>5, <1>6, <1>9, <1>10

-----------------------------------------------------------------------------
(* What the rows say.                                                      *)

(* A wallet with swaps of a token that moves outside of exchanges is one   *)
(* that a transfer names.                                                  *)
LEMMA FoundWallet ==
  ASSUME transfers \in Inputs, NEW s \in FoundIn(transfers), TokenOf(s) \in PlainMints,
         MovedOutside(TokenOf(s))
  PROVE  s.wallet \in WalletsMoved
<1>1. PICK k \in 1..Len(transfers) : s \in Elements(Found(transfers, k))
  BY DEF FoundIn
<1>2. PICK t : t = transfers[k]
  OBVIOUS
<1>3. CASE Found(transfers, k) = <<>>
  BY <1>1, <1>3 DEF Elements
<1>4. CASE \E x : /\ Found(transfers, k) = <<x>>
                  /\ \A token : MovedOutside(token) => x.tokenIn # token /\ x.tokenOut # token
  <2>1. PICK x : /\ Found(transfers, k) = <<x>>
                 /\ \A token : MovedOutside(token) => x.tokenIn # token /\ x.tokenOut # token
    BY <1>4
  <2>2. Elements(<<x>>) = {x}
    BY DEF Elements
  <2>3. s = x
    BY <1>1, <2>1, <2>2
  <2>4. TokenOf(s) \in {s.tokenIn, s.tokenOut, NoName}
    BY DEF TokenOf, NoName
  <2>5. TokenOf(s) # NoName
    BY DEF PlainMints, NoName
  <2> QED BY <2>1, <2>3, <2>4, <2>5
<1>5. CASE Found(transfers, k) = <<Receipt(t), Payment(t)>>
  <2>1. PICK r, p : r = Receipt(t) /\ p = Payment(t)
    OBVIOUS
  <2>2. Elements(<<r, p>>) = {r, p}
    BY DEF Elements
  <2>3. r.wallet = t.to /\ p.wallet = t.from
    BY <2>1 DEF Receipt, Payment, NoSwap
  <2>4. t.to \in WalletsMoved /\ t.from \in WalletsMoved
    BY <1>2, TransferFacts DEF WalletsMoved
  <2> QED BY <1>1, <1>5, <2>1, <2>2, <2>3, <2>4
<1>6. \/ Found(transfers, k) = <<>>
      \/ \E x : /\ Found(transfers, k) = <<x>>
                /\ \A token : MovedOutside(token) => x.tokenIn # token /\ x.tokenOut # token
      \/ Found(transfers, k) = <<Receipt(t), Payment(t)>>
  BY <1>2, FoundShape
<1> QED BY <1>3, <1>4, <1>5, <1>6

(* The rows of what is found are a sequence of rows with amounts.          *)
LEMMA BuiltSeq ==
  ASSUME transfers \in Inputs, NEW ss \in Seq(FoundIn(transfers))
  PROVE  LET Y == {RowOf(s) : s \in FoundIn(transfers)}
         IN  Built(ss) \in Seq(Y) /\ \A r \in Y : r.amountIn \in Int /\ r.amountOut \in Int
<1> DEFINE Y == {RowOf(s) : s \in FoundIn(transfers)}
           U == {s \in Elements(ss) : Usable(s)}
<1>1. PICK z : z = Keep(ss, U)
  OBVIOUS
<1>2. z \in Seq(FoundIn(transfers))
  BY <1>1, BuiltRows
<1>3. Built(ss) = [k \in 1..Len(z) |-> RowOf(z[k])]
  BY <1>1 DEF Built
<1>4. Len(z) \in Nat /\ \A k \in 1..Len(z) : RowOf(z[k]) \in Y
  BY <1>2
<1>5. \A r \in Y : r.amountIn \in Int /\ r.amountOut \in Int
  <2>1. \A s : RowOf(s).amountIn = Got(s) /\ RowOf(s).amountOut = Gave(s)
    BY DEF RowOf, Got, Gave
  <2> QED BY <2>1, FoundAmounts
<1> HIDE DEF Y
<1>6. Built(ss) \in Seq(Y)
  BY ONLY <1>3, <1>4
<1> QED BY <1>5, <1>6 DEF Y

(* Where nothing is rounded, every sheet of the token has its sum.         *)
LEMMA SheetsExact ==
  ASSUME transfers \in Inputs, swaps \in Seq(FoundIn(transfers)), NEW token, NothingRounded(token)
  PROVE  \A wallet : Balance(Built(swaps), wallet, token) = Exact(Built(swaps), wallet, token)
<1> SUFFICES ASSUME NEW wallet PROVE Balance(Built(swaps), wallet, token) = Exact(Built(swaps), wallet, token)
  OBVIOUS
<1>1. PICK rs, d : rs = Built(swaps) /\ d = Differences(rs, wallet, token)
  OBVIOUS
<1>2. PICK Y : rs \in Seq(Y) /\ \A r \in Y : r.amountIn \in Int /\ r.amountOut \in Int
  BY <1>1, BuiltSeq
<1>3. Len(rs) \in Nat /\ \A k \in 1..Len(rs) : rs[k] \in Y /\ rs[k] \in Elements(rs)
  BY <1>2 DEF Elements
<1>4. \A k \in 1..Len(rs) : /\ d[k] \in Int
                            /\ rs[k].wallet # wallet => d[k] = 0
  <2> SUFFICES ASSUME NEW k \in 1..Len(rs) PROVE d[k] \in Int /\ (rs[k].wallet # wallet => d[k] = 0)
    OBVIOUS
  <2>1. rs[k].amountIn \in Int /\ rs[k].amountOut \in Int
    BY <1>2, <1>3
  <2>2. d[k] = IF rs[k].wallet = wallet /\ rs[k].token = token
               THEN rs[k].amountIn - rs[k].amountOut ELSE 0
    BY <1>1 DEF Differences
  <2>3. rs[k].amountIn - rs[k].amountOut \in Int /\ 0 \in Int
    BY ONLY <2>1
  <2> QED BY ONLY <2>2, <2>3
<1>5. NoneRounded(rs, wallet, token)
  <2>1. CASE \E k \in 1..Len(rs) : rs[k].wallet = wallet
    <3>1. wallet \in {r.wallet : r \in Elements(rs)}
      BY <1>3, <2>1
    <3> QED BY <1>1, <3>1 DEF NothingRounded, NoneRounded
  <2>2. CASE \A k \in 1..Len(rs) : rs[k].wallet # wallet
    <3>1. \A k \in 1..Len(rs) : d[k] = 0
      BY <1>4, <2>2
    <3>2. \A k \in 1..Len(rs) : Total(d, k) = 0
      <4> SUFFICES ASSUME NEW k \in 1..Len(rs) PROVE Total(d, k) = 0
        OBVIOUS
      <4>1. k \in Nat /\ \A i \in 1..k : i \in 1..Len(rs)
        BY <1>3
      <4> QED BY <3>1, <4>1, TotalOfZeros
    <3>3. Rounded(0) = 0
      BY TransferFacts
    <3> QED BY <1>1, <3>1, <3>2, <3>3 DEF NoneRounded
  <2> QED BY <2>1, <2>2
<1>6. Balance(rs, wallet, token) = Exact(rs, wallet, token)
  BY <1>1, <1>3, <1>4, <1>5, BalanceExact
<1> QED BY <1>1, <1>6

(* A token that was only moved is conserved, where nothing is rounded.     *)
LEMMA MovesHold == SwapInv /\ MoveInv => MovesConserve
<1> SUFFICES ASSUME SwapInv, MoveInv, stage = "insert", NEW token \in MintsMoved,
                    NothingRounded(token), OnlyMoved(token),
                    \A t \in Elements(transfers) : t.mint = token => t.from # "" /\ t.to # "",
                    \A r \in Elements(Built(swaps)) : r.wallet \notin IgnoreToUsers
             PROVE  Moved(finalSwaps, token) = 0
  BY DEF MovesConserve
<1>1. /\ transfers \in Inputs /\ swaps \in Seq(FoundIn(transfers)) /\ Conserves(swaps)
      /\ finalSwaps = Final(Built(swaps))
  BY DEF SwapInv, MoveInv
<1>2. BetweenKnown(token)
  BY DEF BetweenKnown, NoName
<1>3. OnlyMovedBy(swaps, token)
  <2> SUFFICES ASSUME NEW s \in Elements(swaps), Usable(s), TokenOf(s) = token
               PROVE  ActionOf(s) \in {"RECEIVE", "TRANSFER"}
    BY DEF OnlyMovedBy
  <2>1. RowOf(s) \in Elements(Built(swaps))
    BY <1>1, BuiltElements
  <2>2. RowOf(s).token = token /\ RowOf(s).action = ActionOf(s)
    BY DEF RowOf
  <2> QED BY <2>1, <2>2 DEF OnlyMoved
<1>4. Gain(swaps, KnownWallets, token) = 0
  BY <1>1, <1>2, <1>3 DEF Conserves
<1>5. Moved(Built(swaps), token) = 0
  BY <1>1, <1>4, BuiltBalance
<1>6. Moved(Final(Built(swaps)), token) = Moved(Built(swaps), token)
  <2>1. \A wallet : Balance(Built(swaps), wallet, token) = Exact(Built(swaps), wallet, token)
    BY <1>1, SheetsExact
  <2> QED BY <1>1, <2>1, BuiltSeq, FinalMoved
<1> QED BY <1>1, <1>5, <1>6

(* The rows are those of the wallets that end with more or less.           *)
LEMMA NetMoversHold == SwapInv /\ MoveInv => RowsAreNetMovers
<1> SUFFICES ASSUME SwapInv, MoveInv, stage = "insert", NEW token \in PlainMints, MovedOutside(token),
                    NothingRounded(token)
             PROVE  {r.wallet : r \in {q \in Elements(finalSwaps) : q.token = token}}
                      = {w \in WalletsMoved : NetOf(w, token) # 0} \ (IgnoreToUsers \union {NoName})
  BY DEF RowsAreNetMovers, Recorded, WalletsOf, PlainMints, WalletsMoved, NoName
<1>1. /\ transfers \in Inputs /\ swaps \in Seq(FoundIn(transfers)) /\ AddsUp(swaps, Len(transfers))
      /\ finalSwaps = Final(Built(swaps))
  BY DEF SwapInv, MoveInv
<1>2. PICK rs : rs = Built(swaps)
  OBVIOUS
<1>3. PICK Y : rs \in Seq(Y)
  BY <1>1, <1>2, BuiltSeq
<1> DEFINE S == {r \in Elements(rs) : /\ Balance(rs, r.wallet, r.token) # 0
                                      /\ r.wallet \notin IgnoreToUsers}
<1>4. finalSwaps = Keep(rs, S)
  BY <1>1, <1>2 DEF Final
<1>5. ASSUME NEW w \in WalletsMoved \ {NoName} PROVE Balance(rs, w, token) = NetOf(w, token)
  <2>1. Balance(rs, w, token) = Gain(swaps, {w}, token)
    <3>1. Balance(rs, w, token) = Exact(rs, w, token)
      BY <1>1, <1>2, SheetsExact
    <3> QED BY <1>1, <1>2, <3>1, BuiltBalance
  <2>2. Gain(swaps, {w}, token) = Total(Brought(w, token), Len(transfers))
    BY <1>1 DEF AddsUp, HeldExactly, NothingRounded
  <2> QED BY <2>1, <2>2 DEF NetOf, Brought
<1>6. ASSUME NEW q \in Elements(finalSwaps), q.token = token
      PROVE  q.wallet \in WalletsMoved \ {NoName} /\ NetOf(q.wallet, token) # 0 /\ q.wallet \notin IgnoreToUsers
  <2>1. q \in Elements(rs) /\ q \in S
    BY <1>3, <1>4, KeepOnly
  <2>2. PICK s \in Elements(swaps) : Usable(s) /\ q = RowOf(s)
    BY <1>1, <1>2, <2>1, BuiltElements
  <2>3. s \in FoundIn(transfers)
    <3>1. Elements(swaps) \subseteq FoundIn(transfers)
      BY <1>1 DEF Elements
    <3> QED BY <3>1
  <2>4. q.wallet = s.wallet /\ TokenOf(s) = token
    BY <1>6, <2>2 DEF RowOf
  <2>5. q.wallet \in WalletsMoved
    BY <1>1, <2>3, <2>4, FoundWallet
  <2>6. q.wallet # NoName
    BY <2>2, <2>4 DEF Usable, NoName
  <2>7. Balance(rs, q.wallet, token) # 0 /\ q.wallet \notin IgnoreToUsers
    BY <1>6, <2>1
  <2> HIDE DEF S
  <2> QED BY <1>5, <2>5, <2>6, <2>7
<1>7. ASSUME NEW w \in WalletsMoved, NetOf(w, token) # 0, w \notin IgnoreToUsers, w # NoName
      PROVE  \E q \in Elements(finalSwaps) : q.token = token /\ q.wallet = w
  <2>1. Balance(rs, w, token) # 0
    BY <1>5, <1>7
  <2>2. PICK i \in 1..Len(rs) : rs[i].wallet = w /\ rs[i].token = token
    <3> SUFFICES ASSUME \A i \in 1..Len(rs) : ~(rs[i].wallet = w /\ rs[i].token = token)
                 PROVE  Balance(rs, w, token) = 0
      BY <2>1
    <3> DEFINE f == [k \in 1..Len(rs) |-> IF rs[k].wallet = w /\ rs[k].token = token
                                          THEN rs[k].amountIn - rs[k].amountOut ELSE 0]
    <3>1. \A k \in 1..Len(rs) : f[k] = 0
      OBVIOUS
    <3>2. Len(rs) \in Nat
      BY <1>3
    <3>3. Balance(rs, w, token) = Total(f, Len(rs))
      <4>1. Balance(rs, w, token) = Exact(rs, w, token)
        BY <1>1, <1>2, SheetsExact
      <4> QED BY <4>1 DEF Exact, Differences
    <3> HIDE DEF f
    <3> QED BY <3>1, <3>2, <3>3, TotalOfZeros
  <2>3. rs[i] \in S
    BY <1>7, <2>1, <2>2 DEF Elements
  <2> HIDE DEF S
  <2>4. rs[i] \in Elements(finalSwaps)
    BY <1>3, <1>4, <2>3, KeepAll
  <2> QED BY <2>2, <2>4
<1> HIDE DEF S
<1> QED BY <1>6, <1>7

(* For every transaction and every rounding: where it does not touch the   *)
(* sums of a token, the rows conserve it if it is only moved, and where no *)
(* exchange has a part in it, the wallets with rows of it are exactly      *)
(* those that end with more or less of it.                                 *)
THEOREM MovementsStayRecorded == SwapSpec => []MovementsRecorded
<1>1. SwapInv /\ MoveInv => MovementsRecorded
  BY MovesHold, NetMoversHold DEF MovementsRecorded
<1> QED BY <1>1, SwapInvInit, SwapInvStep, MoveInit, MoveStep, PTL DEF SwapSpec
=============================================================================
