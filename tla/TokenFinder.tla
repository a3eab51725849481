---------------------------- MODULE TokenFinder ----------------------------
(***************************************************************************)
(* The lookups behind the token table: the queues of tokenFind.go and      *)
(* pairFind.go (AddToQueue, worker), FindToken and FindPair with the cache *)
(* and the repository, and the goroutine of TxHandler.ProcessTransaction   *)
(* that inserts tokens and counts mints and burns.                         *)
(*                                                                         *)
(* Two processes share the table: the tx processor, whose workers empty    *)
(* the queues, and the API, whose handlers call FindToken and FindPair     *)
(* directly.  A lookup reads the row, asks the node and writes the row in  *)
(* separate steps; any call of it may fail and ends it.                    *)
(***************************************************************************)
EXTENDS Integers, Sequences, FiniteSets

CONSTANTS Tokens, Pairs,   \* addresses that swaps mention
          Adders,          \* queue workers inside HandleSwaps
          TokenWorkers,    \* TokenFinder.worker goroutines (10)
          PairWorkers,     \* PairsService.worker goroutines (10)
          Requests,        \* handlers running in the API process
          Writers,         \* goroutines of ProcessTransaction
          Txs,             \* what transactions do to tokens
          Capacity,        \* of each queue (5000)
          MaxRuns,         \* bound: transactions processed
          MaxFaults,       \* bound: crashes of the tx processor
          Nothing          \* no address

Kinds == {"token", "pair"}
Items(kind) == IF kind = "token" THEN Tokens ELSE Pairs
Names == {"absent", "unnamed", "named"}

(* A transaction creates its token, as PumpFun does with a name or as a    *)
(* mint of unknown metadata, or not, and burns and mints units of it.      *)
TxRecords == [token : Tokens, creates : {"no", "unnamed", "named"},
              burns : Nat, mints : Nat]

ASSUME FinderAssumption ==
    /\ Nothing \notin Tokens \union Pairs
    /\ Txs \subseteq TxRecords
    /\ IsFiniteSet(Requests) /\ Requests \intersect (TokenWorkers \union PairWorkers) = {}
    /\ Capacity \in Nat \ {0} /\ MaxRuns \in Nat /\ MaxFaults \in Nat

VARIABLES name,       \* tokens table: is there a row, and has it a name
          supply,     \* tokens table: the supply of the row
          cache,      \* by process: the name of the cached entry
          seen,       \* by kind: the keys of processor.seen
          queue,      \* by kind: processor.queue
          add,        \* adders: their call of AddToQueue
          job,        \* workers and requests: their call of FindToken or FindPair
          writer,     \* writers: the transaction in hand
          runs,       \* transactions processed so far
          faults,     \* crashes so far
          seeds,      \* history: supplies added by FindToken, by token
          zeroed,     \* history: changes that left a supply of 0, by token
          dropped     \* history: pairs the full queue refused

tableVars == <<name, supply, seeds, zeroed>>
queueVars == <<seen, queue, dropped>>
vars == <<tableVars, cache, queueVars, add, job, writer, runs, faults>>

Workers == TokenWorkers \union PairWorkers
Finders == Workers \union Requests
Process(f) == IF f \in Requests THEN "api" ELSE "processor"

IdleAdd == [pc |-> "idle", kind |-> "token", item |-> Nothing]
IdleJob == [pc |-> "idle", item |-> Nothing, name |-> "absent", supply |-> 0]
IdleWriter == [pc |-> "idle", tx |-> Nothing]

Lookups == {"cache", "repo", "metadata", "supply", "info", "reread", "put"}

TypeOK == /\ name \in [Tokens -> Names]
          /\ supply \in [Tokens -> Int]
          /\ cache \in [{"processor", "api"} -> [Tokens -> Names]]
          /\ DOMAIN seen = Kinds /\ DOMAIN queue = Kinds
          /\ \A kind \in Kinds : /\ seen[kind] \subseteq Items(kind)
                                 /\ queue[kind] \in Seq(Items(kind))
                                 /\ Len(queue[kind]) <= Capacity
          /\ add \in [Adders -> [pc : {"idle", "store", "send"}, kind : Kinds,
                                 item : Tokens \union Pairs \union {Nothing}]]
          /\ job \in [Finders -> [pc : Lookups \union {"idle", "pair", "release"},
                                  item : Tokens \union Pairs \union {Nothing},
                                  name : Names, supply : Int]]
          /\ \A w \in Writers : writer[w].pc \in {"idle", "insert", "burn", "mint"}
          /\ runs \in 0..MaxRuns /\ faults \in 0..MaxFaults
          /\ seeds \in [Tokens -> Nat] /\ zeroed \in [Tokens -> Nat]
          /\ dropped \subseteq Pairs

Init == /\ name = [t \in Tokens |-> "absent"]
        /\ supply = [t \in Tokens |-> 0]
        /\ cache = [p \in {"processor", "api"} |-> [t \in Tokens |-> "absent"]]
        /\ seen = [kind \in Kinds |-> {}]
        /\ queue = [kind \in Kinds |-> <<>>]
        /\ add = [a \in Adders |-> IdleAdd]
        /\ job = [f \in Finders |-> IdleJob]
        /\ writer = [w \in Writers |-> IdleWriter]
        /\ runs = 0 /\ faults = 0
        /\ seeds = [t \in Tokens |-> 0]
        /\ zeroed = [t \in Tokens |-> 0]
        /\ dropped = {}

-----------------------------------------------------------------------------
(* AddToQueue of both services.  LoadOrStore is one step, the send or the  *)
(* discard another.                                                        *)

CallAdd(a) == /\ add[a].pc = "idle"
              /\ \E kind \in Kinds : \E x \in Items(kind) :
                     add' = [add EXCEPT ![a] = [pc |-> "store", kind |-> kind, item |-> x]]
              /\ UNCHANGED <<tableVars, cache, queueVars, job, writer, runs, faults>>

(* Mutant: Store, whatever was there.                                      *)
StoreAlways(a) ==
    /\ add[a].pc = "store"
    /\ seen' = [seen EXCEPT ![add[a].kind] = @ \union {add[a].item}]
    /\ add' = [add EXCEPT ![a].pc = "send"]
    /\ UNCHANGED <<tableVars, cache, queue, dropped, job, writer, runs, faults>>

LoadOrStore(a) ==
    /\ add[a].pc = "store"
    /\ LET kind == add[a].kind
           x == add[a].item
       IN IF x \in seen[kind]
          THEN /\ add' = [add EXCEPT ![a] = IdleAdd]
               /\ UNCHANGED seen
          ELSE /\ add' = [add EXCEPT ![a].pc = "send"]
               /\ seen' = [seen EXCEPT ![kind] = @ \union {x}]
    /\ UNCHANGED <<tableVars, cache, queue, dropped, job, writer, runs, faults>>

SendToQueue(a) ==
    /\ add[a].pc = "send"
    /\ Len(queue[add[a].kind]) < Capacity
    /\ queue' = [queue EXCEPT ![add[a].kind] = Append(@, add[a].item)]
    /\ add' = [add EXCEPT ![a] = IdleAdd]
    /\ UNCHANGED <<tableVars, cache, seen, dropped, job, writer, runs, faults>>

(* The token is deleted from seen.  The pair is not: the key is the        *)
(* address, and Delete is given the whole PairProcessorQueue value.        *)
Discard(a) ==
    /\ add[a].pc = "send"
    /\ Len(queue[add[a].kind]) = Capacity
    /\ IF add[a].kind = "token"
       THEN /\ seen' = [seen EXCEPT !["token"] = @ \ {add[a].item}]
            /\ UNCHANGED dropped
       ELSE /\ dropped' = dropped \union {add[a].item}
            /\ UNCHANGED seen
    /\ add' = [add EXCEPT ![a] = IdleAdd]
    /\ UNCHANGED <<tableVars, cache, queue, job, writer, runs, faults>>

-----------------------------------------------------------------------------
(* The workers and the handlers.                                           *)

KindOf(f) == IF f \in PairWorkers THEN "pair" ELSE "token"

Goto(f, pc) == job' = [job EXCEPT ![f].pc = pc]

(* FindToken and FindPair return: a worker goes on to seen.Delete.         *)
After(f) == IF f \in Workers THEN [job[f] EXCEPT !.pc = "release"] ELSE IdleJob
Return(f) == job' = [job EXCEPT ![f] = After(f)]

(* Mutant: the worker deletes from seen before the lookup.                 *)
TakeForgets(f) ==
    /\ f \in Workers
    /\ job[f].pc = "idle"
    /\ LET kind == KindOf(f)
       IN /\ queue[kind] # <<>>
          /\ queue' = [queue EXCEPT ![kind] = Tail(@)]
          /\ seen' = [seen EXCEPT ![kind] = @ \ {Head(queue[kind])}]
          /\ job' = [job EXCEPT ![f] =
                        [IdleJob EXCEPT !.pc = IF kind = "pair" THEN "pair" ELSE "cache",
                                        !.item = Head(queue[kind])]]
    /\ UNCHANGED <<tableVars, cache, dropped, add, writer, runs, faults>>

Take(f) ==
    /\ f \in Workers
    /\ job[f].pc = "idle"
    /\ LET kind == KindOf(f)
       IN /\ queue[kind] # <<>>
          /\ queue' = [queue EXCEPT ![kind] = Tail(@)]
          /\ job' = [job EXCEPT ![f] =
                        [IdleJob EXCEPT !.pc = IF kind = "pair" THEN "pair" ELSE "cache",
                                        !.item = Head(queue[kind])]]
    /\ UNCHANGED <<tableVars, cache, seen, dropped, add, writer, runs, faults>>

Release(f) ==
    /\ job[f].pc = "release"
    /\ seen' = [seen EXCEPT ![KindOf(f)] = @ \ {job[f].item}]
    /\ job' = [job EXCEPT ![f] = IdleJob]
    /\ UNCHANGED <<tableVars, cache, queue, dropped, add, writer, runs, faults>>

(* The token and bundle handlers call FindToken, the pair handler FindPair. *)
Request(f) ==
    /\ f \in Requests
    /\ job[f].pc = "idle"
    /\ \E x \in Tokens \union Pairs :
           job' = [job EXCEPT ![f] = [IdleJob EXCEPT !.pc = IF x \in Pairs THEN "pair" ELSE "cache",
                                                     !.item = x]]
    /\ UNCHANGED <<tableVars, cache, queueVars, add, writer, runs, faults>>

(* No code calls PutPair or InsertPair: neither the cache nor the table    *)
(* ever holds a pair, and FindPair ends with the error of repo.FindPair.   *)
FindPair(f) ==
    /\ job[f].pc = "pair"
    /\ Return(f)
    /\ UNCHANGED <<tableVars, cache, queueVars, add, writer, runs, faults>>

GetToken(f) ==
    /\ job[f].pc = "cache"
    /\ IF cache[Process(f)][job[f].item] # "absent" THEN Return(f) ELSE Goto(f, "repo")
    /\ UNCHANGED <<tableVars, cache, queueVars, add, writer, runs, faults>>

(* Mutant: the token read first is cached at once.                         *)
ReadRowCaches(f) ==
    /\ job[f].pc = "repo"
    /\ LET t == job[f].item
       IN IF name[t] = "absent" THEN Return(f) /\ UNCHANGED cache
          ELSE /\ cache' = [cache EXCEPT ![Process(f)][t] = name[t]]
               /\ job' = [job EXCEPT ![f] = IF name[t] = "named" THEN After(f)
                                            ELSE [@ EXCEPT !.pc = "metadata", !.supply = supply[t]]]
    /\ UNCHANGED <<tableVars, queueVars, add, writer, runs, faults>>

(* Mutant: a row that is not there yet is waited for.                      *)
ReadRowWaits(f) ==
    /\ job[f].pc = "repo"
    /\ IF name[job[f].item] = "absent" THEN Goto(f, "cache") ELSE Return(f)
    /\ UNCHANGED <<tableVars, cache, queueVars, add, writer, runs, faults>>

(* No row is an error.                                                     *)
ReadRow(f) ==
    /\ job[f].pc = "repo"
    /\ LET t == job[f].item
       IN CASE name[t] = "absent" -> Return(f) /\ UNCHANGED cache
            [] name[t] = "named"  -> /\ cache' = [cache EXCEPT ![Process(f)][t] = "named"]
                                     /\ Return(f)
            [] OTHER -> /\ job' = [job EXCEPT ![f] = [@ EXCEPT !.pc = "metadata", !.supply = supply[t]]]
                        /\ UNCHANGED cache
    /\ UNCHANGED <<tableVars, queueVars, add, writer, runs, faults>>

(* GetMetadata swallows its errors: the answer is a name or nothing.       *)
GetMetadata(f) ==
    /\ job[f].pc = "metadata"
    /\ \E md \in {"unnamed", "named"} :
           job' = [job EXCEPT ![f] = [@ EXCEPT !.pc = "supply", !.name = md]]
    /\ UNCHANGED <<tableVars, cache, queueVars, add, writer, runs, faults>>

SetSupply(t, n) == /\ supply' = [supply EXCEPT ![t] = n]
                   /\ zeroed' = [zeroed EXCEPT ![t] = @ + IF n = 0 /\ supply[t] # 0 THEN 1 ELSE 0]

AfterSupply(f) == IF job[f].name = "named" THEN Goto(f, "info") ELSE Return(f)

KeepSupply(f) ==
    /\ job[f].pc = "supply"
    /\ job[f].supply # 0
    /\ AfterSupply(f)
    /\ UNCHANGED <<tableVars, cache, queueVars, add, writer, runs, faults>>

(* The node's supply, one unit here, is added as if it were a mint.  The   *)
(* update may also commit and report a timeout.                            *)
SeedSupply(f) ==
    /\ job[f].pc = "supply"
    /\ job[f].supply = 0
    /\ LET t == job[f].item
       IN /\ SetSupply(t, supply[t] + 1)
          /\ seeds' = [seeds EXCEPT ![t] = @ + 1]
    /\ AfterSupply(f) \/ Return(f)
    /\ UNCHANGED <<name, cache, queueVars, add, writer, runs, faults>>

UpdateTokenInfo(f) ==
    /\ job[f].pc = "info"
    /\ name' = [name EXCEPT ![job[f].item] = IF @ = "absent" THEN "absent" ELSE "named"]
    /\ Goto(f, "reread")
    /\ UNCHANGED <<supply, seeds, zeroed, cache, queueVars, add, writer, runs, faults>>

ReadAgain(f) ==
    /\ job[f].pc = "reread"
    /\ job' = [job EXCEPT ![f] = [@ EXCEPT !.pc = "put", !.name = name[job[f].item]]]
    /\ UNCHANGED <<tableVars, cache, queueVars, add, writer, runs, faults>>

PutToken(f) ==
    /\ job[f].pc = "put"
    /\ cache' = [cache EXCEPT ![Process(f)][job[f].item] = job[f].name]
    /\ Return(f)
    /\ UNCHANGED <<tableVars, queueVars, add, writer, runs, faults>>

(* A query or the node fails, or 30 seconds are over.                      *)
LookupFails(f) ==
    /\ job[f].pc \in {"repo", "supply", "info", "reread"}
    /\ job[f].pc = "supply" => job[f].supply = 0
    /\ Return(f)
    /\ UNCHANGED <<tableVars, cache, queueVars, add, writer, runs, faults>>

Lookup(f) == \/ FindPair(f) \/ GetToken(f) \/ ReadRow(f) \/ GetMetadata(f) \/ KeepSupply(f)
             \/ SeedSupply(f) \/ UpdateTokenInfo(f) \/ ReadAgain(f) \/ PutToken(f)
             \/ LookupFails(f)

(* Entries live for 60 seconds.                                            *)
Expire == \E p \in DOMAIN cache, t \in Tokens :
              /\ cache[p][t] # "absent"
              /\ cache' = [cache EXCEPT ![p][t] = "absent"]
              /\ UNCHANGED <<tableVars, queueVars, add, job, writer, runs, faults>>

-----------------------------------------------------------------------------
(* The goroutine of ProcessTransaction, which nobody waits for.  A block   *)
(* that is delivered twice runs it twice.                                  *)

ProcessTransaction(w) ==
    /\ writer[w].pc = "idle"
    /\ runs < MaxRuns
    /\ \E x \in Txs : writer' = [writer EXCEPT ![w] = [pc |-> "insert", tx |-> x]]
    /\ runs' = runs + 1
    /\ UNCHANGED <<tableVars, cache, queueVars, add, job, faults>>

(* The address is the primary key: a second insert is an error.  Errors    *)
(* are logged and the goroutine goes on.                                   *)
InsertToken(w) ==
    /\ writer[w].pc = "insert"
    /\ LET x == writer[w].tx
       IN \/ /\ x.creates # "no" /\ name[x.token] = "absent"
             /\ name' = [name EXCEPT ![x.token] = x.creates]
          \/ UNCHANGED name
    /\ writer' = [writer EXCEPT ![w].pc = "burn"]
    /\ UNCHANGED <<supply, seeds, zeroed, cache, queueVars, add, job, runs, faults>>

(* An UPDATE changes the row, if there is one and it does not fail.        *)
UpdateTokenSupply(t, change) ==
    \/ name[t] # "absent" /\ SetSupply(t, supply[t] + change)
    \/ UNCHANGED <<supply, zeroed>>

Burn(w) ==
    /\ writer[w].pc = "burn"
    /\ UpdateTokenSupply(writer[w].tx.token, -writer[w].tx.burns)
    /\ writer' = [writer EXCEPT ![w].pc = "mint"]
    /\ UNCHANGED <<name, seeds, cache, queueVars, add, job, runs, faults>>

Mint(w) ==
    /\ writer[w].pc = "mint"
    /\ UpdateTokenSupply(writer[w].tx.token, writer[w].tx.mints)
    /\ writer' = [writer EXCEPT ![w] = IdleWriter]
    /\ UNCHANGED <<name, seeds, cache, queueVars, add, job, runs, faults>>

Write(w) == InsertToken(w) \/ Burn(w) \/ Mint(w)

(* The tx processor dies with everything it holds in memory.               *)
Crash ==
    /\ faults < MaxFaults
    /\ faults' = faults + 1
    /\ cache' = [cache EXCEPT !["processor"] = [t \in Tokens |-> "absent"]]
    /\ seen' = [kind \in Kinds |-> {}]
    /\ queue' = [kind \in Kinds |-> <<>>]
    /\ dropped' = {}
    /\ add' = [a \in Adders |-> IdleAdd]
    /\ job' = [f \in Finders |-> IF f \in Workers THEN IdleJob ELSE job[f]]
    /\ writer' = [w \in Writers |-> IdleWriter]
    /\ UNCHANGED <<tableVars, runs>>

AddToQueue(a) == LoadOrStore(a) \/ SendToQueue(a) \/ Discard(a)

Next == \/ \E a \in Adders : CallAdd(a) \/ AddToQueue(a)
        \/ \E f \in Finders : Take(f) \/ Release(f) \/ Request(f) \/ Lookup(f)
        \/ Expire
        \/ \E w \in Writers : ProcessTransaction(w) \/ Write(w)
        \/ Crash

Spec == Init /\ [][Next]_vars

(* The Go scheduler runs goroutines that can go on, a lookup is over after *)
(* 30 seconds, and a worker that finds the queue non-empty takes from it.  *)
Fairness == /\ \A a \in Adders : WF_vars(AddToQueue(a))
            /\ \A f \in Workers : WF_vars(Take(f) \/ Release(f) \/ Lookup(f))

FairSpec == Spec /\ Fairness

-----------------------------------------------------------------------------
(* Where an item is on its way from LoadOrStore to seen.Delete.            *)
Places(kind, x) ==
    {<<"add", a>> : a \in {b \in Adders : /\ add[b].pc = "send"
                                          /\ add[b].kind = kind /\ add[b].item = x}}
    \union {<<"queue", n>> : n \in {k \in 1..Len(queue[kind]) : queue[kind][k] = x}}
    \union {<<"job", f>> : f \in {g \in Workers : /\ job[g].pc # "idle"
                                                  /\ KindOf(g) = kind /\ job[g].item = x}}

Stuck(kind) == IF kind = "pair" THEN dropped ELSE {}

(* processor.seen and what is under way agree, for concurrent calls of     *)
(* AddToQueue and any number of workers: an item is under way at most      *)
(* once, and exactly when it is in seen.  The exception are the pairs that *)
(* a full queue refused, whose key stays in seen until the process ends.   *)
EachPendingOnce ==
    \A kind \in Kinds : \A x \in Items(kind) :
        Cardinality(Places(kind, x)) = IF x \in seen[kind] \ Stuck(kind) THEN 1 ELSE 0

(* The lookup queues of FindToken and FindPair are in order.               *)
QueuesInOrder == TypeOK /\ EachPendingOnce

(* Every token and pair that AddToQueue accepts is looked up and can be    *)
(* queued again, except for the pairs a full queue refused: nothing takes  *)
(* their key out of seen.                                                  *)
Released == \A kind \in Kinds : \A x \in Items(kind) :
                x \in seen[kind] ~> x \notin seen[kind] \/ x \in Stuck(kind)

(* FindToken adds the node's supply to a row whose supply it has read as   *)
(* 0, several steps later.  Since seen lets one worker at a time look a    *)
(* token up, a supply of 0 is filled in at most once by the workers and    *)
(* once by each handler the API runs at the same time.                     *)
SeedBound == \A t \in Tokens :
                 seeds[t] <= (1 + zeroed[t]) * (1 + Cardinality(Requests))

(* What the caches of both processes hold has a name, so that a lookup is  *)
(* never answered from the cache with a half-known token, and the table    *)
(* has it too.                                                             *)
CacheHoldsNames == \A p \in DOMAIN cache, t \in Tokens :
                       cache[p][t] # "absent" => cache[p][t] = "named" /\ name[t] = "named"

(* A name, once known, is neither lost from the token table (to a block    *)
(* delivered again or a late lookup) nor hidden by the cache of FindToken. *)
NamesKept ==
    [][/\ CacheHoldsNames'
       /\ \A t \in Tokens : name[t] = "named" => name'[t] = "named"]_vars
=============================================================================
