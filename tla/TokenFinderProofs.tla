------------------------- MODULE TokenFinderProofs -------------------------
(***************************************************************************)
(* Proofs about TokenFinder: for every set of tokens, pairs, goroutines    *)
(* and transactions, every capacity of the queues and every number of      *)
(* crashes.                                                                *)
(***************************************************************************)
EXTENDS TokenFinder, FiniteSetTheorems, SequenceTheorems, TLAPS

Addresses == Tokens \union Pairs \union {Nothing}

AddType == [pc : {"idle", "store", "send"}, kind : Kinds, item : Addresses]
JobType == [pc : Lookups \union {"idle", "pair", "release"}, item : Addresses,
            name : Names, supply : Int]
WriterType == [pc : {"idle", "insert", "burn", "mint"}, tx : Txs \union {Nothing}]

TableTypes == /\ name \in [Tokens -> Names]
              /\ supply \in [Tokens -> Int]
              /\ seeds \in [Tokens -> Nat] /\ zeroed \in [Tokens -> Nat]
              /\ cache \in [{"processor", "api"} -> [Tokens -> Names]]

QueueTypes == /\ seen \in [Kinds -> SUBSET (Tokens \union Pairs)]
              /\ queue \in [Kinds -> Seq(Tokens \union Pairs)]
              /\ \A kind \in Kinds : /\ seen[kind] \subseteq Items(kind)
                                     /\ queue[kind] \in Seq(Items(kind))
                                     /\ Len(queue[kind]) <= Capacity
              /\ dropped \subseteq Pairs

CallTypes == /\ add \in [Adders -> AddType]
             /\ \A a \in Adders : add[a].pc # "idle" => add[a].item \in Items(add[a].kind)
             /\ job \in [Finders -> JobType]
             /\ \A f \in Finders :
                   /\ job[f].pc \in Lookups => job[f].item \in Tokens
                   /\ job[f].pc = "release" => f \in Workers
                   /\ f \in Workers /\ job[f].pc \in Lookups => KindOf(f) = "token"
                   /\ f \in Workers /\ job[f].pc # "idle" => job[f].item \in Items(KindOf(f))

WriterTypes == /\ writer \in [Writers -> WriterType]
               /\ \A w \in Writers : writer[w].pc # "idle" => writer[w].tx \in Txs
               /\ runs \in 0..MaxRuns /\ faults \in 0..MaxFaults

Types == TableTypes /\ QueueTypes /\ CallTypes /\ WriterTypes

(* Names are only ever gained: a lookup that found an unnamed row still    *)
(* has one, and what it puts into the cache is a name.                     *)
NameInv ==
    \A f \in Finders :
        LET t == job[f].item IN
        /\ job[f].pc \in {"metadata", "supply", "info"} => name[t] # "absent"
        /\ job[f].pc = "reread" => name[t] = "named"
        /\ job[f].pc = "put" => name[t] = "named" /\ job[f].name = "named"

NamesInv == NameInv /\ CacheHoldsNames

(* The keys whose item is under way.                                       *)
Pending(kind) == seen[kind] \ Stuck(kind)

(* An item is in one place if its key is pending and nowhere if it is not. *)
Once(kind, x) == IF x \in Pending(kind) THEN \E p \in Places(kind, x) : Places(kind, x) = {p}
                 ELSE Places(kind, x) = {}

PendingInv == /\ dropped \subseteq seen["pair"]
              /\ \A kind \in Kinds : \A x \in Items(kind) : Once(kind, x)

(* The lookups that have read a supply of 0 and will add to it.            *)
Armed(t) == {f \in Finders : /\ job[f].pc \in {"metadata", "supply"}
                             /\ job[f].item = t /\ job[f].supply = 0}

(* The lookups that may look one token up at the same time.                *)
AtOnce == 1 + Cardinality(Requests)

(* While the supply is 0 every lookup may arm itself, but none has added   *)
(* to it; once it is not, those that are armed are all there are.          *)
SeedAt(t) == IF supply[t] = 0 THEN seeds[t] <= zeroed[t] * AtOnce
             ELSE seeds[t] + Cardinality(Armed(t)) <= (1 + zeroed[t]) * AtOnce

SeedInv == \A t \in Tokens : SeedAt(t)

IInv == Types /\ NamesInv /\ PendingInv /\ SeedInv

-----------------------------------------------------------------------------
(* The records of goroutines that do nothing.                              *)
LEMMA IdleTypes ==
  /\ IdleAdd \in AddType /\ IdleAdd.pc = "idle"
  /\ IdleJob \in JobType /\ IdleJob.pc = "idle"
  /\ IdleWriter \in WriterType /\ IdleWriter.pc = "idle"
  BY DEF IdleAdd, AddType, IdleJob, JobType, IdleWriter, WriterType, Addresses, Names, Kinds

(* What a call of FindToken or FindPair is after one of its steps: still   *)
(* about the same address, and still to be released if it is a worker's.   *)
LEMMA LookupJob ==
  ASSUME Types, NEW f \in Finders, Lookup(f)
  PROVE  /\ UNCHANGED <<seen, queue, dropped, add, writer, runs, faults>>
         /\ job[f].pc # "idle"
         /\ \E j \in JobType :
               /\ job' = [job EXCEPT ![f] = j]
               /\ j.item = job[f].item \/ (f \notin Workers /\ j = IdleJob)
               /\ f \in Workers => j.pc # "idle"
               /\ j.pc = "release" => f \in Workers
               /\ j.pc \in Lookups => job[f].pc \in Lookups
<1> USE DEF Types, CallTypes
<1>0. UNCHANGED <<seen, queue, dropped, add, writer, runs, faults>> /\ job[f].pc # "idle"
  BY DEF Lookup, FindPair, GetToken, ReadRow, GetMetadata, KeepSupply, SeedSupply,
         UpdateTokenInfo, ReadAgain, PutToken, LookupFails, queueVars
<1>1. job[f] \in JobType /\ job[f].pc \in Lookups \union {"pair", "release"}
  BY <1>0 DEF JobType
<1>2. CASE Return(f)
  <2>1. After(f) \in JobType /\ (f \in Workers => After(f).pc = "release" /\ After(f).item = job[f].item)
        /\ (f \notin Workers => After(f) = IdleJob)
    BY <1>1, IdleTypes DEF After, JobType
  <2>2. "release" \notin Lookups /\ "idle" \notin Lookups
    BY DEF Lookups
  <2> QED BY <1>0, <1>2, <2>1, <2>2, IdleTypes DEF Return
<1>3. ASSUME NEW p \in Lookups, Goto(f, p), job[f].pc \in Lookups
      PROVE  \E j \in JobType : /\ job' = [job EXCEPT ![f] = j]
                                /\ j.item = job[f].item /\ j.pc \notin {"idle", "release"}
                                /\ j.pc \in Lookups => job[f].pc \in Lookups
  <2> DEFINE j == [job[f] EXCEPT !.pc = p]
  <2>1. j \in JobType /\ j.item = job[f].item /\ j.pc = p
    BY <1>1 DEF JobType
  <2>2. job' = [job EXCEPT ![f] = j]
    BY <1>3 DEF Goto
  <2>3. p \notin {"idle", "release"}
    BY DEF Lookups
  <2> QED BY <1>3, <2>1, <2>2, <2>3
<1>4. CASE FindPair(f) \/ PutToken(f) \/ LookupFails(f)
  BY <1>0, <1>2, <1>4 DEF FindPair, PutToken, LookupFails
<1>5. CASE GetToken(f)
  <2>1. Return(f) \/ Goto(f, "repo")
    BY <1>5 DEF GetToken
  <2> QED BY <1>0, <1>2, <1>3, <1>5, <2>1 DEF GetToken, Lookups
<1>6. CASE KeepSupply(f) \/ SeedSupply(f)
  <2>1. Return(f) \/ Goto(f, "info")
    BY <1>6 DEF KeepSupply, SeedSupply, AfterSupply
  <2> QED BY <1>0, <1>2, <1>3, <1>6, <2>1 DEF KeepSupply, SeedSupply, Lookups
<1>7. CASE UpdateTokenInfo(f)
  BY <1>0, <1>3, <1>7 DEF UpdateTokenInfo, Lookups
<1>8. CASE ReadRow(f)
  <2>1. CASE name[job[f].item] \in {"absent", "named"}
    BY <1>0, <1>2, <1>8, <2>1 DEF ReadRow
  <2>2. CASE name[job[f].item] \notin {"absent", "named"}
    <3>1. job' = [job EXCEPT ![f] = [@ EXCEPT !.pc = "metadata", !.supply = supply[job[f].item]]]
      BY <1>8, <2>2 DEF ReadRow
    <3>2. job[f].pc \in Lookups /\ "metadata" \in Lookups
      BY <1>8 DEF ReadRow, Lookups
    <3>3. supply[job[f].item] \in Int
      BY <3>2 DEF TableTypes
    <3> DEFINE j == [job[f] EXCEPT !.pc = "metadata", !.supply = supply[job[f].item]]
    <3>4. j \in JobType /\ j.item = job[f].item /\ j.pc = "metadata"
      BY <1>1, <3>2, <3>3 DEF JobType
    <3>5. job' = [job EXCEPT ![f] = j]
      BY <3>1
    <3> HIDE DEF j
    <3> QED BY <1>0, <3>2, <3>4, <3>5
  <2> QED BY <2>1, <2>2
<1>9. CASE GetMetadata(f)
  <2>1. PICK md \in {"unnamed", "named"} :
             job' = [job EXCEPT ![f] = [@ EXCEPT !.pc = "supply", !.name = md]]
    BY <1>9 DEF GetMetadata
  <2>2. job[f].pc \in Lookups /\ "supply" \in Lookups /\ md \in Names
    BY <1>9 DEF GetMetadata, Lookups, Names
  <2> DEFINE j == [job[f] EXCEPT !.pc = "supply", !.name = md]
  <2>3. j \in JobType /\ j.item = job[f].item /\ j.pc = "supply"
    BY <1>1, <2>2 DEF JobType
  <2>4. job' = [job EXCEPT ![f] = j]
    BY <2>1
  <2> HIDE DEF j
  <2> QED BY <1>0, <2>2, <2>3, <2>4
<1>10. CASE ReadAgain(f)
  <2>1. job' = [job EXCEPT ![f] = [@ EXCEPT !.pc = "put", !.name = name[job[f].item]]]
    BY <1>10 DEF ReadAgain
  <2>2. job[f].pc \in Lookups /\ "put" \in Lookups
    BY <1>10 DEF ReadAgain, Lookups
  <2>3. name[job[f].item] \in Names
    BY <2>2 DEF TableTypes
  <2> DEFINE j == [job[f] EXCEPT !.pc = "put", !.name = name[job[f].item]]
  <2>4. j \in JobType /\ j.item = job[f].item /\ j.pc = "put"
    BY <1>1, <2>2, <2>3 DEF JobType
  <2>5. job' = [job EXCEPT ![f] = j]
    BY <2>1
  <2> HIDE DEF j
  <2> QED BY <1>0, <2>2, <2>4, <2>5
<1> QED BY <1>4, <1>5, <1>6, <1>7, <1>8, <1>9, <1>10 DEF Lookup

(* The calls stay well typed.                                              *)
LEMMA CallTypesStep == ASSUME Types, [Next]_vars PROVE CallTypes'
<1> USE DEF Types, CallTypes
<1>1. ASSUME UNCHANGED <<add, job>> PROVE CallTypes'
  BY <1>1
<1>2. ASSUME NEW a \in Adders, NEW r \in AddType, UNCHANGED job, add' = [add EXCEPT ![a] = r],
             r.pc # "idle" => r.item \in Items(r.kind)
      PROVE  CallTypes'
  BY <1>2
<1>3. ASSUME NEW f \in Finders, NEW j \in JobType, UNCHANGED add, job' = [job EXCEPT ![f] = j],
             j.pc \in Lookups => j.item \in Tokens,
             j.pc = "release" => f \in Workers,
             f \in Workers /\ j.pc \in Lookups => KindOf(f) = "token",
             f \in Workers /\ j.pc # "idle" => j.item \in Items(KindOf(f))
      PROVE  CallTypes'
  BY <1>3
<1>4. CASE UNCHANGED vars
  BY <1>1, <1>4 DEF vars
<1>5. ASSUME NEW a \in Adders, CallAdd(a) \/ AddToQueue(a) PROVE CallTypes'
  <2>0. add[a] \in AddType
    OBVIOUS
  <2>1. CASE CallAdd(a)
    <3>1. PICK kind \in Kinds : \E x \in Items(kind) :
               add' = [add EXCEPT ![a] = [pc |-> "store", kind |-> kind, item |-> x]]
      BY <2>1 DEF CallAdd
    <3>2. PICK x \in Items(kind) : add' = [add EXCEPT ![a] = [pc |-> "store", kind |-> kind, item |-> x]]
      BY <3>1
    <3> DEFINE r == [pc |-> "store", kind |-> kind, item |-> x]
    <3>3. r \in AddType /\ r.item \in Items(r.kind)
      BY DEF AddType, Addresses, Items, Kinds
    <3>4. add' = [add EXCEPT ![a] = r] /\ UNCHANGED job
      BY <2>1, <3>2 DEF CallAdd
    <3> HIDE DEF r
    <3> QED BY <1>2, <3>3, <3>4
  <2>2. CASE LoadOrStore(a)
    <3>1. CASE add' = [add EXCEPT ![a] = IdleAdd]
      BY <1>2, <2>2, <3>1, IdleTypes DEF LoadOrStore
    <3>2. CASE add' = [add EXCEPT ![a].pc = "send"]
      <4> DEFINE r == [add[a] EXCEPT !.pc = "send"]
      <4>1. r \in AddType /\ r.item = add[a].item /\ r.kind = add[a].kind
        BY <2>0 DEF AddType
      <4>2. add' = [add EXCEPT ![a] = r] /\ UNCHANGED job /\ add[a].pc = "store"
        BY <2>2, <3>2 DEF LoadOrStore
      <4> HIDE DEF r
      <4> QED BY <1>2, <4>1, <4>2
    <3> QED BY <2>2, <3>1, <3>2 DEF LoadOrStore
  <2>3. CASE SendToQueue(a) \/ Discard(a)
    BY <1>2, <2>3, IdleTypes DEF SendToQueue, Discard
  <2> QED BY <1>5, <2>1, <2>2, <2>3 DEF AddToQueue
<1>6. ASSUME NEW f \in Finders, Take(f) PROVE CallTypes'
  <2> DEFINE kind == KindOf(f)
             x == Head(queue[kind])
             j == [IdleJob EXCEPT !.pc = IF kind = "pair" THEN "pair" ELSE "cache", !.item = x]
  <2>1. UNCHANGED add /\ job' = [job EXCEPT ![f] = j] /\ queue[kind] # <<>>
    BY <1>6 DEF Take
  <2>2. kind \in Kinds /\ x \in Items(kind)
    <3>1. kind \in Kinds
      BY DEF KindOf, Kinds
    <3>2. queue[kind] \in Seq(Items(kind))
      BY <3>1 DEF QueueTypes
    <3> QED BY <2>1, <3>1, <3>2
  <2> HIDE DEF x
  <2>3. j \in JobType /\ j.item = x /\ j.pc = IF kind = "pair" THEN "pair" ELSE "cache"
    BY <2>2, IdleTypes DEF JobType, Addresses, Items, Lookups, IdleJob
  <2> HIDE DEF j
  <2>4. j.pc \in Lookups => kind = "token"
    BY <2>2, <2>3 DEF Lookups, Kinds
  <2>5. j.pc \in Lookups => j.item \in Tokens
    BY <2>2, <2>3, <2>4 DEF Items
  <2> QED BY <1>3, <2>1, <2>2, <2>3, <2>4, <2>5
<1>7. ASSUME NEW f \in Finders, Release(f) PROVE CallTypes'
  <2>1. "idle" \notin Lookups
    BY DEF Lookups
  <2> QED BY <1>3, <1>7, <2>1, IdleTypes DEF Release
<1>8. ASSUME NEW f \in Finders, Request(f) PROVE CallTypes'
  <2>1. PICK x \in Tokens \union Pairs :
           job' = [job EXCEPT ![f] = [IdleJob EXCEPT !.pc = IF x \in Pairs THEN "pair" ELSE "cache",
                                                     !.item = x]]
    BY <1>8 DEF Request
  <2> DEFINE j == [IdleJob EXCEPT !.pc = IF x \in Pairs THEN "pair" ELSE "cache", !.item = x]
  <2>2. j \in JobType /\ j.item = x /\ j.pc = IF x \in Pairs THEN "pair" ELSE "cache"
    BY IdleTypes DEF JobType, Addresses, Lookups, IdleJob
  <2>3. job' = [job EXCEPT ![f] = j] /\ UNCHANGED add /\ f \notin Workers
    BY <1>8, <2>1, FinderAssumption DEF Request, Workers
  <2> HIDE DEF j
  <2>4. j.pc \in Lookups => j.item \in Tokens
    BY <2>2 DEF Lookups
  <2> QED BY <1>3, <2>2, <2>3, <2>4
<1>9. ASSUME NEW f \in Finders, Lookup(f) PROVE CallTypes'
  <2>1. PICK j \in JobType :
               /\ job' = [job EXCEPT ![f] = j]
               /\ j.item = job[f].item \/ (f \notin Workers /\ j = IdleJob)
               /\ f \in Workers => j.pc # "idle"
               /\ j.pc = "release" => f \in Workers
               /\ j.pc \in Lookups => job[f].pc \in Lookups
    BY <1>9, LookupJob
  <2>2. UNCHANGED add /\ job[f].pc # "idle"
    BY <1>9, LookupJob
  <2>3. IdleJob.pc \notin Lookups
    BY IdleTypes DEF Lookups
  <2> QED BY <1>3, <2>1, <2>2, <2>3
<1>10. CASE Expire \/ (\E w \in Writers : ProcessTransaction(w) \/ Write(w))
  BY <1>1, <1>10 DEF Expire, ProcessTransaction, Write, InsertToken, Burn, Mint
<1>11. CASE Crash
  <2>1. /\ add' = [a \in Adders |-> IdleAdd]
        /\ job' = [f \in Finders |-> IF f \in Workers THEN IdleJob ELSE job[f]]
    BY <1>11 DEF Crash
  <2>2. "idle" \notin Lookups
    BY DEF Lookups
  <2> QED BY <2>1, <2>2, IdleTypes
<1> QED BY <1>4, <1>5, <1>6, <1>7, <1>8, <1>9, <1>10, <1>11 DEF Next

(* The queues stay well typed and within their capacity.                   *)
LEMMA QueueTypesStep == ASSUME Types, [Next]_vars PROVE QueueTypes'
<1> USE DEF Types, QueueTypes
<1>0. "token" \in Kinds /\ "pair" \in Kinds /\ \A f : KindOf(f) \in Kinds
  BY DEF Kinds, KindOf
<1>1. ASSUME UNCHANGED <<seen, queue, dropped>> PROVE QueueTypes'
  BY <1>1
<1>2. ASSUME NEW kind \in Kinds, NEW S \in SUBSET Items(kind),
             seen' = [seen EXCEPT ![kind] = S], UNCHANGED <<queue, dropped>>
      PROVE  QueueTypes'
  <2>1. S \subseteq Tokens \union Pairs
    BY DEF Items
  <2> QED BY <1>2, <2>1
<1>3. ASSUME NEW a \in Adders, LoadOrStore(a) PROVE QueueTypes'
  <2> DEFINE kind == add[a].kind
             S == seen[kind] \union {add[a].item}
  <2>1. kind \in Kinds /\ add[a].item \in Items(kind)
    BY <1>3 DEF LoadOrStore, CallTypes, AddType
  <2>2. S \in SUBSET Items(kind)
    BY <2>1
  <2>3. UNCHANGED <<queue, dropped>> /\ (UNCHANGED seen \/ seen' = [seen EXCEPT ![kind] = S])
    BY <1>3 DEF LoadOrStore
  <2> HIDE DEF kind, S
  <2> QED BY <1>1, <1>2, <2>1, <2>2, <2>3
<1>4. ASSUME NEW a \in Adders, SendToQueue(a) PROVE QueueTypes'
  <2> DEFINE kind == add[a].kind
             x == add[a].item
  <2>1. kind \in Kinds /\ x \in Items(kind) /\ x \in Tokens \union Pairs
    BY <1>4 DEF SendToQueue, CallTypes, AddType, Items
  <2>2. /\ queue' = [queue EXCEPT ![kind] = Append(@, x)]
        /\ Len(queue[kind]) < Capacity /\ UNCHANGED <<seen, dropped>>
    BY <1>4 DEF SendToQueue
  <2> HIDE DEF kind, x
  <2>3. /\ Append(queue[kind], x) \in Seq(Items(kind))
        /\ Append(queue[kind], x) \in Seq(Tokens \union Pairs)
        /\ Len(Append(queue[kind], x)) = Len(queue[kind]) + 1 /\ Len(queue[kind]) \in Nat
    BY <2>1
  <2>4. Len(queue[kind]) + 1 <= Capacity
    BY <2>2, <2>3, FinderAssumption
  <2> QED BY <2>1, <2>2, <2>3, <2>4
<1>5. ASSUME NEW a \in Adders, Discard(a) PROVE QueueTypes'
  <2>1. add[a].kind \in Kinds /\ add[a].item \in Items(add[a].kind)
    BY <1>5 DEF Discard, CallTypes, AddType
  <2>2. CASE add[a].kind = "token"
    <3>1. UNCHANGED <<queue, dropped>> /\ seen' = [seen EXCEPT !["token"] = @ \ {add[a].item}]
      BY <1>5, <2>2 DEF Discard
    <3> QED BY <1>0, <3>1
  <2>3. CASE add[a].kind # "token"
    <3>1. UNCHANGED <<queue, seen>> /\ dropped' = dropped \union {add[a].item}
      BY <1>5, <2>1, <2>3 DEF Discard
    <3>2. add[a].item \in Pairs
      BY <2>1, <2>3 DEF Items
    <3> QED BY <3>1, <3>2
  <2> QED BY <2>2, <2>3
<1>6. ASSUME NEW f \in Finders, Take(f) PROVE QueueTypes'
  <2> DEFINE kind == KindOf(f)
  <2>1. /\ queue' = [queue EXCEPT ![kind] = Tail(@)] /\ queue[kind] # <<>>
        /\ UNCHANGED <<seen, dropped>>
    BY <1>6 DEF Take
  <2>2. /\ Tail(queue[kind]) \in Seq(Items(kind)) /\ Tail(queue[kind]) \in Seq(Tokens \union Pairs)
        /\ Len(Tail(queue[kind])) = Len(queue[kind]) - 1 /\ Len(queue[kind]) \in Nat
    BY <1>0, <2>1
  <2>3. Len(queue[kind]) - 1 <= Capacity
    BY <1>0, <2>2, FinderAssumption
  <2> QED BY <1>0, <2>1, <2>2, <2>3
<1>7. ASSUME NEW f \in Finders, Release(f) PROVE QueueTypes'
  <2> DEFINE S == seen[KindOf(f)] \ {job[f].item}
  <2>1. seen' = [seen EXCEPT ![KindOf(f)] = S] /\ UNCHANGED <<queue, dropped>>
    BY <1>7 DEF Release
  <2>2. S \in SUBSET Items(KindOf(f))
    BY <1>0
  <2> HIDE DEF S
  <2> QED BY <1>0, <1>2, <2>1, <2>2
<1>8. CASE Crash
  <2>1. /\ seen' = [kind \in Kinds |-> {}] /\ queue' = [kind \in Kinds |-> <<>>] /\ dropped' = {}
    BY <1>8 DEF Crash
  <2> QED BY <2>1, FinderAssumption
<1>9. CASE \E a \in Adders : CallAdd(a)
  BY <1>1, <1>9 DEF CallAdd, queueVars
<1>10. CASE \E f \in Finders : Request(f) \/ Lookup(f)
  BY <1>1, <1>10, LookupJob DEF Request, queueVars
<1>11. CASE Expire \/ (\E w \in Writers : ProcessTransaction(w) \/ Write(w)) \/ UNCHANGED vars
  BY <1>1, <1>11 DEF Expire, ProcessTransaction, Write, InsertToken, Burn, Mint, vars, queueVars
<1> QED BY <1>3, <1>4, <1>5, <1>6, <1>7, <1>8, <1>9, <1>10, <1>11 DEF Next, AddToQueue

(* A supply that is set stays a number, and so does the count of the       *)
(* changes that left 0.                                                    *)
LEMMA SetSupplyTypes ==
  ASSUME TableTypes, NEW t \in Tokens, NEW n \in Int, SetSupply(t, n)
  PROVE  supply' \in [Tokens -> Int] /\ zeroed' \in [Tokens -> Nat]
<1> DEFINE d == IF n = 0 /\ supply[t] # 0 THEN 1 ELSE 0
<1>1. zeroed[t] \in Nat /\ d \in Nat
  BY DEF TableTypes
<1>2. supply' = [supply EXCEPT ![t] = n] /\ zeroed' = [zeroed EXCEPT ![t] = zeroed[t] + d]
  BY DEF SetSupply
<1> HIDE DEF d
<1>3. zeroed[t] + d \in Nat
  BY <1>1
<1> QED BY <1>2, <1>3 DEF TableTypes

(* What a writer's transaction holds.                                      *)
LEMMA TxTypes ==
  ASSUME NEW x \in Txs
  PROVE  /\ x.token \in Tokens /\ x.creates \in {"no", "unnamed", "named"}
         /\ x.burns \in Nat /\ x.mints \in Nat
<1>1. x \in TxRecords
  BY FinderAssumption
<1> QED BY <1>1 DEF TxRecords

(* Every step writes names, numbers and known tokens.                      *)
LEMMA TableTypesStep == ASSUME Types, [Next]_vars PROVE TableTypes'
<1> USE DEF Types, TableTypes
<1>1. ASSUME UNCHANGED <<name, supply, seeds, zeroed, cache>> PROVE TableTypes'
  BY <1>1
<1>2. ASSUME NEW p \in {"processor", "api"}, NEW t \in Tokens, NEW v \in Names,
             cache' = [cache EXCEPT ![p][t] = v], UNCHANGED <<name, supply, seeds, zeroed>>
      PROVE  TableTypes'
  BY <1>2
<1>3. ASSUME NEW f \in Finders, Lookup(f) PROVE TableTypes'
  <2>0. Process(f) \in {"processor", "api"}
    BY DEF Process
  <2>1. CASE UNCHANGED <<tableVars, cache>>
    BY <1>1, <2>1 DEF tableVars
  <2>2. CASE ReadRow(f)
    <3>1. job[f].item \in Tokens /\ "named" \in Names
      BY <2>2 DEF ReadRow, CallTypes, Lookups, Names
    <3>2. UNCHANGED <<name, supply, seeds, zeroed>>
          /\ (UNCHANGED cache \/ cache' = [cache EXCEPT ![Process(f)][job[f].item] = "named"])
      BY <2>2 DEF ReadRow, tableVars
    <3> QED BY <1>1, <1>2, <2>0, <3>1, <3>2
  <2>3. CASE SeedSupply(f)
    <3> DEFINE t == job[f].item
    <3>1. t \in Tokens
      BY <2>3 DEF SeedSupply, CallTypes, Lookups
    <3>2. /\ SetSupply(t, supply[t] + 1) /\ seeds' = [seeds EXCEPT ![t] = @ + 1]
          /\ UNCHANGED <<name, cache>>
      BY <2>3 DEF SeedSupply
    <3> HIDE DEF t
    <3>3. supply[t] + 1 \in Int /\ seeds[t] + 1 \in Nat
      BY <3>1
    <3>4. seeds' \in [Tokens -> Nat]
      BY <3>1, <3>2, <3>3
    <3>5. supply' \in [Tokens -> Int] /\ zeroed' \in [Tokens -> Nat]
      BY <3>1, <3>2, <3>3, SetSupplyTypes
    <3> QED BY <3>2, <3>4, <3>5
  <2>4. CASE UpdateTokenInfo(f)
    <3>1. /\ name' = [name EXCEPT ![job[f].item] = IF @ = "absent" THEN "absent" ELSE "named"]
          /\ UNCHANGED <<supply, seeds, zeroed, cache>>
      BY <2>4 DEF UpdateTokenInfo
    <3> QED BY <3>1 DEF Names
  <2>5. CASE PutToken(f)
    <3>1. job[f].item \in Tokens /\ job[f].name \in Names
      BY <2>5 DEF PutToken, CallTypes, JobType, Lookups
    <3>2. /\ UNCHANGED <<name, supply, seeds, zeroed>>
          /\ cache' = [cache EXCEPT ![Process(f)][job[f].item] = job[f].name]
      BY <2>5 DEF PutToken, tableVars
    <3> QED BY <1>2, <2>0, <3>1, <3>2
  <2> QED BY <1>3, <2>1, <2>2, <2>3, <2>4, <2>5
          DEF Lookup, FindPair, GetToken, GetMetadata, KeepSupply, ReadAgain, LookupFails
<1>4. CASE Expire
  <2>1. PICK p \in DOMAIN cache, t \in Tokens :
               /\ cache' = [cache EXCEPT ![p][t] = "absent"]
               /\ UNCHANGED <<name, supply, seeds, zeroed>>
    BY <1>4 DEF Expire, tableVars
  <2> QED BY <1>2, <2>1 DEF Names
<1>5. ASSUME NEW w \in Writers, Write(w) PROVE TableTypes'
  <2> DEFINE x == writer[w].tx
  <2>1. x \in Txs
    BY <1>5 DEF Write, InsertToken, Burn, Mint, WriterTypes
  <2>2. x.token \in Tokens /\ x.creates \in {"no", "unnamed", "named"} /\ x.burns \in Nat /\ x.mints \in Nat
    BY <2>1, TxTypes
  <2> HIDE DEF x
  <2>3. CASE InsertToken(w)
    <3>1. /\ UNCHANGED <<supply, seeds, zeroed, cache>>
          /\ UNCHANGED name \/ (x.creates # "no" /\ name' = [name EXCEPT ![x.token] = x.creates])
      BY <2>3 DEF InsertToken, x
    <3> QED BY <1>1, <2>2, <3>1 DEF Names
  <2>4. CASE Burn(w) \/ Mint(w)
    <3>1. PICK n \in Int : UpdateTokenSupply(x.token, n) /\ UNCHANGED <<name, seeds, cache>>
      <4>1. -x.burns \in Int /\ x.mints \in Int
        BY <2>2
      <4>2. \/ UpdateTokenSupply(x.token, -x.burns) /\ UNCHANGED <<name, seeds, cache>>
            \/ UpdateTokenSupply(x.token, x.mints) /\ UNCHANGED <<name, seeds, cache>>
        BY <2>4 DEF Burn, Mint, x
      <4> QED BY <4>1, <4>2
    <3>2. supply[x.token] + n \in Int
      BY <2>2
    <3>3. SetSupply(x.token, supply[x.token] + n) \/ UNCHANGED <<supply, zeroed>>
      BY <3>1 DEF UpdateTokenSupply
    <3>4. supply' \in [Tokens -> Int] /\ zeroed' \in [Tokens -> Nat]
      BY <2>2, <3>2, <3>3, SetSupplyTypes
    <3> QED BY <3>1, <3>4
  <2> QED BY <1>5, <2>3, <2>4 DEF Write
<1>6. CASE Crash
  <2>1. /\ UNCHANGED <<name, supply, seeds, zeroed>>
        /\ cache' = [cache EXCEPT !["processor"] = [t \in Tokens |-> "absent"]]
    BY <1>6 DEF Crash, tableVars
  <2> QED BY <2>1 DEF Names
<1>7. CASE \E a \in Adders : CallAdd(a) \/ AddToQueue(a)
  BY <1>1, <1>7 DEF CallAdd, AddToQueue, LoadOrStore, SendToQueue, Discard, tableVars
<1>8. CASE \E f \in Finders : Take(f) \/ Release(f) \/ Request(f)
  BY <1>1, <1>8 DEF Take, Release, Request, tableVars
<1>9. CASE (\E w \in Writers : ProcessTransaction(w)) \/ UNCHANGED vars
  BY <1>1, <1>9 DEF ProcessTransaction, tableVars, vars
<1> QED BY <1>3, <1>4, <1>5, <1>6, <1>7, <1>8, <1>9 DEF Next

(* A writer holds a transaction until it is done with it.                  *)
LEMMA WriterTypesStep == ASSUME Types, [Next]_vars PROVE WriterTypes'
<1> USE DEF Types, WriterTypes
<1>1. ASSUME UNCHANGED <<writer, runs, faults>> PROVE WriterTypes'
  BY <1>1
<1>2. ASSUME NEW w \in Writers, NEW r \in WriterType, writer' = [writer EXCEPT ![w] = r],
             r.pc # "idle" => r.tx \in Txs, UNCHANGED faults, runs' \in 0..MaxRuns
      PROVE  WriterTypes'
  BY <1>2
<1>3. ASSUME NEW w \in Writers, ProcessTransaction(w) PROVE WriterTypes'
  <2>1. PICK x \in Txs : writer' = [writer EXCEPT ![w] = [pc |-> "insert", tx |-> x]]
    BY <1>3 DEF ProcessTransaction
  <2> DEFINE r == [pc |-> "insert", tx |-> x]
  <2>2. r \in WriterType /\ r.tx \in Txs
    BY DEF WriterType
  <2>3. writer' = [writer EXCEPT ![w] = r]
    BY <2>1
  <2>4. UNCHANGED faults /\ runs' \in 0..MaxRuns
    BY <1>3, FinderAssumption DEF ProcessTransaction
  <2> HIDE DEF r
  <2> QED BY <1>2, <2>2, <2>3, <2>4
<1>4. ASSUME NEW w \in Writers, Write(w) PROVE WriterTypes'
  <2>1. CASE Mint(w)
    BY <1>2, <2>1, IdleTypes DEF Mint
  <2>2. ASSUME NEW p \in {"burn", "mint"}, writer' = [writer EXCEPT ![w].pc = p],
               writer[w].pc # "idle", UNCHANGED <<runs, faults>>
        PROVE  WriterTypes'
    <3> DEFINE r == [writer[w] EXCEPT !.pc = p]
    <3>1. writer[w] \in WriterType
      OBVIOUS
    <3>2. r \in WriterType /\ r.tx = writer[w].tx
      BY <3>1 DEF WriterType
    <3>3. writer' = [writer EXCEPT ![w] = r]
      BY <2>2
    <3> HIDE DEF r
    <3> QED BY <1>2, <2>2, <3>2, <3>3
  <2>3. CASE InsertToken(w) \/ Burn(w)
    BY <2>2, <2>3 DEF InsertToken, Burn
  <2> QED BY <1>4, <2>1, <2>3 DEF Write
<1>5. CASE Crash
  <2>1. writer' = [w \in Writers |-> IdleWriter] /\ UNCHANGED runs /\ faults' \in 0..MaxFaults
    BY <1>5, FinderAssumption DEF Crash
  <2> QED BY <2>1, IdleTypes
<1>6. CASE \E a \in Adders : CallAdd(a) \/ AddToQueue(a)
  BY <1>1, <1>6 DEF CallAdd, AddToQueue, LoadOrStore, SendToQueue, Discard
<1>7. CASE \E f \in Finders : Take(f) \/ Release(f) \/ Request(f) \/ Lookup(f)
  BY <1>1, <1>7, LookupJob DEF Take, Release, Request
<1>8. CASE Expire \/ UNCHANGED vars
  BY <1>1, <1>8 DEF Expire, vars
<1> QED BY <1>3, <1>4, <1>5, <1>6, <1>7, <1>8 DEF Next

(* The types are invariant.                                                *)
LEMMA TypesStep == ASSUME Types, [Next]_vars PROVE Types'
  BY TableTypesStep, QueueTypesStep, CallTypesStep, WriterTypesStep DEF Types

-----------------------------------------------------------------------------
(* No step takes a row or a name out of the token table.                   *)
LEMMA NamesOnlyGained ==
  ASSUME Types, [Next]_vars, NEW t \in Tokens
  PROVE  /\ name[t] # "absent" => name'[t] # "absent"
         /\ name[t] = "named" => name'[t] = "named"
<1> USE DEF Types, TableTypes
<1>1. CASE UNCHANGED name
  BY <1>1
<1>2. ASSUME NEW f \in Finders, UpdateTokenInfo(f)
      PROVE  /\ name[t] # "absent" => name'[t] # "absent"
             /\ name[t] = "named" => name'[t] = "named"
  <2>1. name' = [name EXCEPT ![job[f].item] = IF @ = "absent" THEN "absent" ELSE "named"]
    BY <1>2 DEF UpdateTokenInfo
  <2> QED BY <2>1
<1>3. ASSUME NEW w \in Writers, InsertToken(w)
      PROVE  /\ name[t] # "absent" => name'[t] # "absent"
             /\ name[t] = "named" => name'[t] = "named"
  <2> DEFINE x == writer[w].tx
  <2>1. CASE name[x.token] = "absent" /\ name' = [name EXCEPT ![x.token] = x.creates]
    BY <2>1
  <2> QED BY <1>1, <1>3, <2>1 DEF InsertToken
<1>4. UNCHANGED name \/ (\E f \in Finders : UpdateTokenInfo(f)) \/ (\E w \in Writers : InsertToken(w))
  <2>1. CASE \E a \in Adders : CallAdd(a) \/ AddToQueue(a)
    BY <2>1 DEF CallAdd, AddToQueue, LoadOrStore, SendToQueue, Discard, tableVars
  <2>2. CASE \E f \in Finders : Take(f) \/ Release(f) \/ Request(f)
    BY <2>2 DEF Take, Release, Request, tableVars
  <2>3. CASE \E f \in Finders : Lookup(f)
    BY <2>3 DEF Lookup, FindPair, GetToken, ReadRow, GetMetadata, KeepSupply, SeedSupply,
                ReadAgain, PutToken, LookupFails, tableVars
  <2>4. CASE Expire \/ Crash \/ UNCHANGED vars
    BY <2>4 DEF Expire, Crash, vars, tableVars
  <2>5. CASE \E w \in Writers : ProcessTransaction(w) \/ Write(w)
    BY <2>5 DEF ProcessTransaction, Write, Burn, Mint, tableVars
  <2> QED BY <2>1, <2>2, <2>3, <2>4, <2>5 DEF Next
<1> QED BY <1>1, <1>2, <1>3, <1>4

(* A lookup that goes on does so because the row was there.                *)
LEMMA NameInvStep == ASSUME Types, NamesInv, [Next]_vars PROVE NameInv'
<1> USE DEF Types, CallTypes
<1> DEFINE Known(j) ==
      /\ j.pc \in {"metadata", "supply", "info"} => name'[j.item] # "absent"
      /\ j.pc = "reread" => name'[j.item] = "named"
      /\ j.pc = "put" => name'[j.item] = "named" /\ j.name = "named"
<1>1. \A g \in Finders : Known(job[g])
  <2> SUFFICES ASSUME NEW g \in Finders PROVE Known(job[g])
    OBVIOUS
  <2>1. job[g].pc \in {"metadata", "supply", "info", "reread", "put"} => job[g].item \in Tokens
    BY DEF Lookups
  <2> QED BY <2>1, NamesOnlyGained DEF NamesInv, NameInv
<1>2. ASSUME \A g \in Finders : Known(job'[g]) PROVE NameInv'
  BY <1>2 DEF NameInv
<1> HIDE DEF Known
<1>3. ASSUME UNCHANGED job PROVE NameInv'
  BY <1>1, <1>2, <1>3
<1>4. ASSUME NEW f \in Finders, NEW j, job' = [job EXCEPT ![f] = j], Known(j) PROVE NameInv'
  BY <1>1, <1>2, <1>4
<1>5. ASSUME NEW j \in JobType, j.pc \in {"idle", "pair", "cache", "repo", "release"} PROVE Known(j)
  BY <1>5 DEF Known
<1>6. ASSUME NEW f \in Finders, Return(f) PROVE NameInv'
  <2>1. job[f] \in JobType
    OBVIOUS
  <2>2. After(f) \in JobType /\ After(f).pc \in {"idle", "release"}
    BY <2>1, IdleTypes DEF After, JobType
  <2> QED BY <1>4, <1>5, <1>6, <2>2 DEF Return
<1>7. ASSUME NEW f \in Finders, NEW p \in Lookups, Goto(f, p), Known([job[f] EXCEPT !.pc = p]) PROVE NameInv'
  BY <1>4, <1>7 DEF Goto
<1>8. CASE \E a \in Adders : CallAdd(a) \/ AddToQueue(a)
  BY <1>3, <1>8 DEF CallAdd, AddToQueue, LoadOrStore, SendToQueue, Discard
<1>9. CASE Expire \/ (\E w \in Writers : ProcessTransaction(w) \/ Write(w)) \/ UNCHANGED vars
  BY <1>3, <1>9 DEF Expire, ProcessTransaction, Write, InsertToken, Burn, Mint, vars
<1>10. ASSUME NEW f \in Finders, Take(f) \/ Release(f) \/ Request(f) PROVE NameInv'
  <2>1. PICK j : /\ job' = [job EXCEPT ![f] = j]
                 /\ j.pc \in {"idle", "pair", "cache"}
    <3>1. CASE Take(f)
      <4> DEFINE kind == KindOf(f)
                 j == [IdleJob EXCEPT !.pc = IF kind = "pair" THEN "pair" ELSE "cache",
                                      !.item = Head(queue[kind])]
      <4>1. job' = [job EXCEPT ![f] = j]
        BY <3>1 DEF Take
      <4>2. j.pc \in {"idle", "pair", "cache"}
        BY DEF IdleJob
      <4> HIDE DEF j
      <4> QED BY <4>1, <4>2
    <3>2. CASE Request(f)
      <4>1. PICK x \in Tokens \union Pairs :
               job' = [job EXCEPT ![f] = [IdleJob EXCEPT !.pc = IF x \in Pairs THEN "pair" ELSE "cache",
                                                         !.item = x]]
        BY <3>2 DEF Request
      <4> DEFINE j == [IdleJob EXCEPT !.pc = IF x \in Pairs THEN "pair" ELSE "cache", !.item = x]
      <4>2. job' = [job EXCEPT ![f] = j]
        BY <4>1
      <4>3. j.pc \in {"idle", "pair", "cache"}
        BY DEF IdleJob
      <4> HIDE DEF j
      <4> QED BY <4>2, <4>3
    <3> QED BY <1>10, <3>1, <3>2, IdleTypes DEF Release
  <2> QED BY <1>4, <2>1 DEF Known
<1>11. ASSUME NEW f \in Finders, Lookup(f) PROVE NameInv'
  <2>0. job[f] \in JobType /\ "repo" \in Lookups /\ "info" \in Lookups /\ "reread" \in Lookups
    BY DEF Lookups
  <2>1. CASE FindPair(f) \/ PutToken(f) \/ LookupFails(f)
    BY <1>6, <2>1 DEF FindPair, PutToken, LookupFails
  <2>2. CASE GetToken(f)
    <3>1. Known([job[f] EXCEPT !.pc = "repo"])
      BY <2>0, <1>5 DEF JobType
    <3> QED BY <1>6, <1>7, <2>0, <2>2, <3>1 DEF GetToken
  <2>3. CASE KeepSupply(f) \/ SeedSupply(f)
    <3>1. Return(f) \/ Goto(f, "info")
      BY <2>3 DEF KeepSupply, SeedSupply, AfterSupply
    <3>2. job[f].pc = "supply"
      BY <2>3 DEF KeepSupply, SeedSupply
    <3>3. Known([job[f] EXCEPT !.pc = "info"])
      BY <1>1, <2>0, <3>2 DEF Known, JobType
    <3> QED BY <1>6, <1>7, <2>0, <3>1, <3>3
  <2>4. CASE UpdateTokenInfo(f)
    <3>1. job[f].pc = "info" /\ Goto(f, "reread")
          /\ name' = [name EXCEPT ![job[f].item] = IF @ = "absent" THEN "absent" ELSE "named"]
      BY <2>4 DEF UpdateTokenInfo
    <3>2. job[f].item \in Tokens /\ name[job[f].item] # "absent"
      BY <3>1 DEF NamesInv, NameInv, Lookups
    <3>3. name'[job[f].item] = "named"
      BY <3>1, <3>2 DEF TableTypes
    <3>4. Known([job[f] EXCEPT !.pc = "reread"])
      BY <2>0, <3>3 DEF Known, JobType
    <3> QED BY <1>7, <2>0, <3>1, <3>4
  <2>5. CASE ReadRow(f)
    <3>1. CASE name[job[f].item] \in {"absent", "named"}
      BY <1>6, <2>5, <3>1 DEF ReadRow
    <3>2. CASE name[job[f].item] \notin {"absent", "named"}
      <4> DEFINE j == [job[f] EXCEPT !.pc = "metadata", !.supply = supply[job[f].item]]
      <4>1. job' = [job EXCEPT ![f] = j]
        BY <2>5, <3>2 DEF ReadRow
      <4>2. UNCHANGED name
        BY <2>5 DEF ReadRow, tableVars
      <4>3. j.pc = "metadata" /\ j.item = job[f].item
        BY <2>0 DEF JobType
      <4> HIDE DEF j
      <4>4. Known(j)
        BY <3>2, <4>2, <4>3 DEF Known
      <4> QED BY <1>4, <4>1, <4>4
    <3> QED BY <3>1, <3>2
  <2>6. CASE GetMetadata(f)
    <3>1. PICK md : job' = [job EXCEPT ![f] = [@ EXCEPT !.pc = "supply", !.name = md]]
      BY <2>6 DEF GetMetadata
    <3> DEFINE j == [job[f] EXCEPT !.pc = "supply", !.name = md]
    <3>2. job' = [job EXCEPT ![f] = j] /\ job[f].pc = "metadata"
      BY <2>6, <3>1 DEF GetMetadata
    <3>3. j.pc = "supply" /\ j.item = job[f].item
      BY <2>0 DEF JobType
    <3> HIDE DEF j
    <3>4. Known(j)
      BY <1>1, <3>2, <3>3 DEF Known
    <3> QED BY <1>4, <3>2, <3>4
  <2>7. CASE ReadAgain(f)
    <3> DEFINE j == [job[f] EXCEPT !.pc = "put", !.name = name[job[f].item]]
    <3>1. job' = [job EXCEPT ![f] = j] /\ job[f].pc = "reread" /\ UNCHANGED name
      BY <2>7 DEF ReadAgain, tableVars
    <3>2. j.pc = "put" /\ j.item = job[f].item /\ j.name = name[job[f].item]
      BY <2>0 DEF JobType
    <3> HIDE DEF j
    <3>3. name[job[f].item] = "named"
      BY <3>1 DEF NamesInv, NameInv
    <3>4. Known(j)
      BY <3>1, <3>2, <3>3 DEF Known
    <3> QED BY <1>4, <3>1, <3>4
  <2> QED BY <1>11, <2>1, <2>2, <2>3, <2>4, <2>5, <2>6, <2>7 DEF Lookup
<1>12. CASE Crash
  <2>1. job' = [f \in Finders |-> IF f \in Workers THEN IdleJob ELSE job[f]]
    BY <1>12 DEF Crash
  <2>2. Known(IdleJob)
    BY <1>5, IdleTypes
  <2> QED BY <1>1, <1>2, <2>1, <2>2
<1> QED BY <1>8, <1>9, <1>10, <1>11, <1>12 DEF Next

(* Only names get into the caches, and the table has them.                 *)
LEMMA CacheStep == ASSUME Types, NamesInv, [Next]_vars PROVE CacheHoldsNames'
<1> USE DEF Types, TableTypes, NamesInv, CacheHoldsNames
<1>1. ASSUME UNCHANGED cache PROVE CacheHoldsNames'
  BY <1>1, NamesOnlyGained
<1>2. ASSUME NEW p \in {"processor", "api"}, NEW t \in Tokens, NEW v,
             v # "absent" => v = "named" /\ name[t] = "named",
             cache' = [cache EXCEPT ![p][t] = v]
      PROVE  CacheHoldsNames'
  BY <1>2, NamesOnlyGained
<1>3. ASSUME NEW f \in Finders, ReadRow(f) \/ PutToken(f) PROVE CacheHoldsNames'
  <2>0. Process(f) \in {"processor", "api"} /\ job[f].item \in Tokens
    BY <1>3 DEF Process, ReadRow, PutToken, CallTypes, Lookups
  <2>1. CASE ReadRow(f)
    <3>1. UNCHANGED cache \/ (name[job[f].item] = "named"
                              /\ cache' = [cache EXCEPT ![Process(f)][job[f].item] = "named"])
      BY <2>1 DEF ReadRow
    <3>2. CASE UNCHANGED cache
      BY <1>1, <3>2
    <3>3. CASE name[job[f].item] = "named" /\ cache' = [cache EXCEPT ![Process(f)][job[f].item] = "named"]
      BY ONLY <1>2, <2>0, <3>3
    <3> QED BY ONLY <3>1, <3>2, <3>3
  <2>2. CASE PutToken(f)
    <3>1. /\ cache' = [cache EXCEPT ![Process(f)][job[f].item] = job[f].name]
          /\ job[f].name = "named" /\ name[job[f].item] = "named"
      BY <2>2 DEF PutToken, NameInv
    <3> QED BY <1>2, <2>0, <3>1
  <2> QED BY <1>3, <2>1, <2>2
<1>4. CASE Expire
  <2>1. PICK p \in DOMAIN cache, t \in Tokens : cache' = [cache EXCEPT ![p][t] = "absent"]
    BY <1>4 DEF Expire
  <2>2. DOMAIN cache = {"processor", "api"}
    OBVIOUS
  <2>3. PICK v : v = "absent"
    OBVIOUS
  <2>4. /\ p \in {"processor", "api"} /\ t \in Tokens /\ cache' = [cache EXCEPT ![p][t] = v]
        /\ v # "absent" => v = "named" /\ name[t] = "named"
    BY ONLY <2>1, <2>2, <2>3, p \in DOMAIN cache, t \in Tokens
  <2> QED BY ONLY <1>2, <2>4
<1>5. CASE Crash
  <2>1. cache' = [cache EXCEPT !["processor"] = [t \in Tokens |-> "absent"]]
    BY <1>5 DEF Crash
  <2> QED BY <2>1, NamesOnlyGained
<1>6. CASE \E a \in Adders : CallAdd(a) \/ AddToQueue(a)
  BY <1>1, <1>6 DEF CallAdd, AddToQueue, LoadOrStore, SendToQueue, Discard
<1>7. CASE \E f \in Finders : Take(f) \/ Release(f) \/ Request(f)
  BY <1>1, <1>7 DEF Take, Release, Request
<1>8. CASE \E f \in Finders : Lookup(f)
  BY <1>1, <1>3, <1>8 DEF Lookup, FindPair, GetToken, GetMetadata, KeepSupply, SeedSupply,
                          UpdateTokenInfo, ReadAgain, LookupFails
<1>9. CASE (\E w \in Writers : ProcessTransaction(w) \/ Write(w)) \/ UNCHANGED vars
  BY <1>1, <1>9 DEF ProcessTransaction, Write, InsertToken, Burn, Mint, vars
<1> QED BY <1>3, <1>4, <1>5, <1>6, <1>7, <1>8, <1>9 DEF Next

-----------------------------------------------------------------------------
(* The three kinds of places an item can be in.                            *)
AddAt(a, kind, x)   == add[a].pc = "send" /\ add[a].kind = kind /\ add[a].item = x
QueueAt(n, kind, x) == n \in 1..Len(queue[kind]) /\ queue[kind][n] = x
JobAt(f, kind, x)   == job[f].pc # "idle" /\ KindOf(f) = kind /\ job[f].item = x

(* What is in Places.                                                      *)
LEMMA InPlaces ==
  ASSUME NEW kind, NEW x, NEW p
  PROVE  p \in Places(kind, x) <=> \/ \E a \in Adders : AddAt(a, kind, x) /\ p = <<"add", a>>
                                   \/ \E n \in Nat : QueueAt(n, kind, x) /\ p = <<"queue", n>>
                                   \/ \E f \in Workers : JobAt(f, kind, x) /\ p = <<"job", f>>
<1>1. p \in {<<"queue", n>> : n \in {m \in 1..Len(queue[kind]) : queue[kind][m] = x}}
        <=> \E n \in Nat : QueueAt(n, kind, x) /\ p = <<"queue", n>>
  <2>1. ASSUME NEW n \in 1..Len(queue[kind]) PROVE n \in Nat
    OBVIOUS
  <2> QED BY <2>1 DEF QueueAt
<1> QED BY <1>1 DEF Places, AddAt, JobAt

(* What is in Places after a step.                                         *)
LEMMA InPlacesNext ==
  ASSUME NEW kind, NEW x, NEW p
  PROVE  p \in Places(kind, x)' <=> \/ \E a \in Adders : AddAt(a, kind, x)' /\ p = <<"add", a>>
                                    \/ \E n \in Nat : QueueAt(n, kind, x)' /\ p = <<"queue", n>>
                                    \/ \E f \in Workers : JobAt(f, kind, x)' /\ p = <<"job", f>>
<1>1. p \in {<<"queue", n>> : n \in {m \in 1..Len(queue'[kind]) : queue'[kind][m] = x}}
        <=> \E n \in Nat : QueueAt(n, kind, x)' /\ p = <<"queue", n>>
  <2>1. ASSUME NEW n \in 1..Len(queue'[kind]) PROVE n \in Nat
    OBVIOUS
  <2> QED BY <2>1 DEF QueueAt
<1> QED BY <1>1 DEF Places, AddAt, JobAt

(* A step that moves nothing from where it is.                             *)
LEMMA PlacesKept ==
  ASSUME NEW kind, NEW x,
         \A a \in Adders : AddAt(a, kind, x)' <=> AddAt(a, kind, x),
         \A n \in Nat : QueueAt(n, kind, x)' <=> QueueAt(n, kind, x),
         \A f \in Workers : JobAt(f, kind, x)' <=> JobAt(f, kind, x)
  PROVE  Places(kind, x)' = Places(kind, x)
<1>1. ASSUME NEW p PROVE p \in Places(kind, x)' <=> p \in Places(kind, x)
  BY InPlaces, InPlacesNext
<1> QED BY <1>1

(* A key that a step neither adds nor takes, of an item it does not move.  *)
LEMMA OnceKept ==
  ASSUME NEW kind, NEW x, Once(kind, x), Places(kind, x)' = Places(kind, x),
         (x \in Pending(kind))' <=> x \in Pending(kind)
  PROVE  Once(kind, x)'
  BY DEF Once

(* The steps that touch neither seen nor anything that is under way.       *)
LEMMA PendingFrame ==
  ASSUME PendingInv, UNCHANGED <<seen, queue, dropped>>,
         \A a \in Adders : \A kind, x : AddAt(a, kind, x)' <=> AddAt(a, kind, x),
         \A f \in Workers : \A kind, x : JobAt(f, kind, x)' <=> JobAt(f, kind, x)
  PROVE  PendingInv'
<1>1. ASSUME NEW kind \in Kinds, NEW x \in Items(kind) PROVE Once(kind, x)'
  <2>1. \A n \in Nat : QueueAt(n, kind, x)' <=> QueueAt(n, kind, x)
    BY DEF QueueAt
  <2>2. Places(kind, x)' = Places(kind, x)
    BY <2>1, PlacesKept
  <2>3. (x \in Pending(kind))' <=> x \in Pending(kind)
    BY DEF Pending, Stuck
  <2>4. Once(kind, x)
    BY DEF PendingInv
  <2> QED BY <2>2, <2>3, <2>4, OnceKept
<1> QED BY <1>1 DEF PendingInv

(* The other items, when a step is about item x of kind k.                 *)
LEMMA PendingOne ==
  ASSUME PendingInv, NEW k \in Kinds, NEW x \in Items(k),
         dropped' \subseteq seen'["pair"], Once(k, x)',
         \A kind \in Kinds : \A y \in Items(kind) : <<kind, y>> # <<k, x>> =>
             /\ (y \in Pending(kind))' <=> y \in Pending(kind)
             /\ \A a \in Adders : AddAt(a, kind, y)' <=> AddAt(a, kind, y)
             /\ \A n \in Nat : QueueAt(n, kind, y)' <=> QueueAt(n, kind, y)
             /\ \A f \in Workers : JobAt(f, kind, y)' <=> JobAt(f, kind, y)
  PROVE  PendingInv'
<1>1. ASSUME NEW kind \in Kinds, NEW y \in Items(kind), <<kind, y>> # <<k, x>> PROVE Once(kind, y)'
  <2>1. Places(kind, y)' = Places(kind, y)
    BY <1>1, PlacesKept
  <2>2. Once(kind, y)
    BY DEF PendingInv
  <2> QED BY <1>1, <2>1, <2>2, OnceKept
<1> QED BY <1>1 DEF PendingInv

(* LoadOrStore of a key that is not in seen: its item is nowhere else.     *)
LEMMA PendingLoadOrStore ==
  ASSUME Types, PendingInv, NEW a \in Adders, LoadOrStore(a)
  PROVE  PendingInv'
<1>. PICK k, x : k = add[a].kind /\ x = add[a].item
  OBVIOUS
<1>0. /\ add \in [Adders -> AddType] /\ add[a] \in AddType /\ k \in Kinds /\ x \in Items(k)
      /\ seen \in [Kinds -> SUBSET (Tokens \union Pairs)]
      /\ add[a].pc = "store" /\ UNCHANGED <<queue, dropped, job>>
  BY DEF LoadOrStore, AddType, Types, CallTypes, QueueTypes
<1>1. CASE x \in seen[k]
  <2>1. UNCHANGED seen /\ add' = [add EXCEPT ![a] = IdleAdd]
    BY <1>1 DEF LoadOrStore
  <2>2. \A b \in Adders : \A kind, y : AddAt(b, kind, y)' <=> AddAt(b, kind, y)
    BY <1>0, <2>1, IdleTypes DEF AddAt
  <2>3. \A f \in Workers : \A kind, y : JobAt(f, kind, y)' <=> JobAt(f, kind, y)
    BY <1>0 DEF JobAt
  <2> QED BY <1>0, <2>1, <2>2, <2>3, PendingFrame
<1>2. CASE x \notin seen[k]
  <2>1. seen' = [seen EXCEPT ![k] = @ \union {x}] /\ add' = [add EXCEPT ![a].pc = "send"]
    BY <1>2 DEF LoadOrStore
  <2>2. add'[a].pc = "send" /\ add'[a].kind = k /\ add'[a].item = x
    BY <1>0, <2>1 DEF AddType
  <2>3. \A b \in Adders : \A kind, y :
            AddAt(b, kind, y)' <=> AddAt(b, kind, y) \/ (b = a /\ kind = k /\ y = x)
    <3>1. \A b \in Adders : b # a => add'[b] = add[b]
      BY <1>0, <2>1
    <3> QED BY <1>0, <2>2, <3>1 DEF AddAt
  <2>4. /\ \A f \in Workers : \A kind, y : JobAt(f, kind, y)' <=> JobAt(f, kind, y)
        /\ \A n \in Nat : \A kind, y : QueueAt(n, kind, y)' <=> QueueAt(n, kind, y)
    BY <1>0 DEF JobAt, QueueAt
  <2>5. x \notin Pending(k) /\ (k = "pair" => x \notin dropped) /\ dropped' \subseteq seen'["pair"]
    BY <1>0, <1>2, <2>1 DEF Pending, PendingInv, Kinds
  <2>6. \A kind \in Kinds : \A y \in Items(kind) :
            (y \in Pending(kind))' <=> y \in Pending(kind) \/ (kind = k /\ y = x)
    BY <1>0, <2>1, <2>5 DEF Pending, Stuck
  <2>7. Places(k, x)' = {<<"add", a>>}
    <3>1. Places(k, x) = {}
      BY <1>0, <2>5 DEF PendingInv, Once
    <3>2. ASSUME NEW p PROVE p \in Places(k, x)' <=> p \in Places(k, x) \/ p = <<"add", a>>
      BY <2>3, <2>4, InPlaces, InPlacesNext
    <3> QED BY <3>1, <3>2
  <2>8. Once(k, x)'
    BY <1>0, <2>6, <2>7 DEF Once
  <2> QED BY <1>0, <2>3, <2>4, <2>5, <2>6, <2>8, PendingOne
<1> QED BY <1>1, <1>2

(* The send moves the item to the end of the queue.                        *)
LEMMA PendingSend ==
  ASSUME Types, PendingInv, NEW a \in Adders, SendToQueue(a)
  PROVE  PendingInv'
<1>. PICK k, x, e : k = add[a].kind /\ x = add[a].item /\ e = Len(queue[k]) + 1
  OBVIOUS
<1>1. /\ add \in [Adders -> AddType] /\ k \in Kinds /\ x \in Items(k) /\ add[a].pc = "send"
      /\ queue \in [Kinds -> Seq(Tokens \union Pairs)] /\ queue[k] \in Seq(Tokens \union Pairs)
      /\ queue' = [queue EXCEPT ![k] = Append(@, x)]
      /\ add' = [add EXCEPT ![a] = IdleAdd] /\ UNCHANGED <<seen, dropped, job>>
  BY DEF SendToQueue, AddType, Types, CallTypes, QueueTypes
<1>2. \A n \in Nat : \A kind \in Kinds : \A y :
          QueueAt(n, kind, y)' <=> QueueAt(n, kind, y) \/ (n = e /\ kind = k /\ y = x)
  <2>1. x \in Tokens \union Pairs
    BY <1>1 DEF Items
  <2>2. /\ Len(Append(queue[k], x)) = e /\ Append(queue[k], x)[e] = x
        /\ \A n \in 1..Len(queue[k]) : Append(queue[k], x)[n] = queue[k][n]
    BY <1>1, <2>1
  <2>3. Len(queue[k]) \in Nat
    BY <1>1
  <2>4. \A n \in Nat : n \in 1..e <=> n \in 1..Len(queue[k]) \/ n = e
    BY <2>3
  <2>5. e \in Nat /\ e \notin 1..Len(queue[k])
    BY <2>3
  <2>6. queue'[k] = Append(queue[k], x) /\ \A kind \in Kinds : kind # k => queue'[kind] = queue[kind]
    BY <1>1
  <2>7. \A n \in Nat : \A y : QueueAt(n, k, y)' <=> QueueAt(n, k, y) \/ (n = e /\ y = x)
    <3> TAKE n \in Nat
    <3>1. CASE n = e
      BY ONLY <2>2, <2>4, <2>5, <2>6, <3>1, n \in Nat DEF QueueAt
    <3>2. CASE n # e
      BY ONLY <2>2, <2>4, <2>6, <3>2, n \in Nat DEF QueueAt
    <3> QED BY ONLY <3>1, <3>2
  <2>8. \A n \in Nat : \A kind \in Kinds : kind # k => \A y : QueueAt(n, kind, y)' <=> QueueAt(n, kind, y)
    BY ONLY <2>6 DEF QueueAt
  <2> QED BY ONLY <2>7, <2>8
<1>3. e \in Nat
  <2>1. Len(queue[k]) \in Nat
    BY <1>1
  <2> QED BY <2>1
<1>4. \A b \in Adders : \A kind, y :
          AddAt(b, kind, y)' <=> AddAt(b, kind, y) /\ ~(b = a)
  BY <1>1, IdleTypes DEF AddAt
<1>5. \A kind, y : AddAt(a, kind, y) <=> kind = k /\ y = x
  BY <1>1 DEF AddAt
<1>6. \A f \in Workers : \A kind, y : JobAt(f, kind, y)' <=> JobAt(f, kind, y)
  BY <1>1 DEF JobAt
<1>7. \A kind \in Kinds : \A y : (y \in Pending(kind))' <=> y \in Pending(kind)
  BY <1>1 DEF Pending, Stuck
<1>8. x \in Pending(k) /\ Places(k, x) = {<<"add", a>>}
  <2>1. <<"add", a>> \in Places(k, x)
    BY <1>5, InPlaces
  <2> QED BY <1>1, <2>1 DEF PendingInv, Once
<1>9. Places(k, x)' = {<<"queue", e>>}
  <2>1. ASSUME NEW p PROVE p \in Places(k, x)' <=> p = <<"queue", e>>
    <3>1. p \in Places(k, x) <=> p = <<"add", a>>
      BY <1>8
    <3>2. \A b \in Adders : AddAt(b, k, x) => b = a
      <4> TAKE b \in Adders
      <4>1. AddAt(b, k, x) => <<"add", b>> \in Places(k, x)
        BY InPlaces
      <4> QED BY <1>8, <4>1
    <3>3. \A n \in Nat : ~QueueAt(n, k, x)
      <4> TAKE n \in Nat
      <4>1. QueueAt(n, k, x) => <<"queue", n>> \in Places(k, x)
        BY InPlaces
      <4> QED BY <1>8, <4>1
    <3>4. \A f \in Workers : ~JobAt(f, k, x)
      <4> TAKE f \in Workers
      <4>1. JobAt(f, k, x) => <<"job", f>> \in Places(k, x)
        BY InPlaces
      <4> QED BY <1>8, <4>1
    <3>5. \A b \in Adders : ~AddAt(b, k, x)'
      BY ONLY <1>4, <3>2
    <3>6. \A n \in Nat : QueueAt(n, k, x)' <=> n = e
      <4>1. k \in Kinds
        BY <1>1
      <4> QED BY ONLY <1>2, <3>3, <4>1
    <3>7. \A f \in Workers : ~JobAt(f, k, x)'
      BY <1>1, <1>6, <3>4
    <3>8. p \in Places(k, x)' <=> \E n \in Nat : QueueAt(n, k, x)' /\ p = <<"queue", n>>
      BY ONLY <3>5, <3>7, InPlacesNext
    <3> QED BY ONLY <1>3, <3>6, <3>8
  <2> QED BY <2>1
<1>10. Once(k, x)'
  BY <1>1, <1>7, <1>8, <1>9 DEF Once
<1>11. dropped' \subseteq seen'["pair"]
  BY <1>1 DEF PendingInv
<1>12. k \in Kinds /\ x \in Items(k)
  BY <1>1
<1>13. ASSUME NEW kind \in Kinds, NEW y \in Items(kind), <<kind, y>> # <<k, x>>
       PROVE  /\ (y \in Pending(kind))' <=> y \in Pending(kind)
              /\ \A b \in Adders : AddAt(b, kind, y)' <=> AddAt(b, kind, y)
              /\ \A n \in Nat : QueueAt(n, kind, y)' <=> QueueAt(n, kind, y)
              /\ \A f \in Workers : JobAt(f, kind, y)' <=> JobAt(f, kind, y)
  <2>1. kind # k \/ y # x
    BY ONLY <1>13
  <2>2. \A b \in Adders : AddAt(b, kind, y)' <=> AddAt(b, kind, y)
    BY ONLY <1>4, <1>5, <2>1
  <2>3. \A n \in Nat : QueueAt(n, kind, y)' <=> QueueAt(n, kind, y)
    BY ONLY <1>2, <2>1, kind \in Kinds
  <2> QED BY ONLY <1>6, <1>7, <2>2, <2>3, kind \in Kinds
<1> QED BY ONLY PendingInv, <1>10, <1>11, <1>12, <1>13, PendingOne

(* A full queue: a token's key is deleted, a pair's stays and is stuck.    *)
LEMMA PendingDiscard ==
  ASSUME Types, PendingInv, NEW a \in Adders, Discard(a)
  PROVE  PendingInv'
<1>. PICK k, x : k = add[a].kind /\ x = add[a].item
  OBVIOUS
<1>1. /\ add \in [Adders -> AddType] /\ k \in Kinds /\ x \in Items(k) /\ add[a].pc = "send"
      /\ seen \in [Kinds -> SUBSET (Tokens \union Pairs)]
      /\ add' = [add EXCEPT ![a] = IdleAdd] /\ UNCHANGED <<queue, job>>
  BY DEF Discard, AddType, Types, CallTypes, QueueTypes
<1>2. \A b \in Adders : \A kind, y : AddAt(b, kind, y)' <=> AddAt(b, kind, y) /\ ~(b = a)
  BY <1>1, IdleTypes DEF AddAt
<1>3. \A kind, y : AddAt(a, kind, y) <=> kind = k /\ y = x
  BY <1>1 DEF AddAt
<1>4. /\ \A f \in Workers : \A kind, y : JobAt(f, kind, y)' <=> JobAt(f, kind, y)
      /\ \A n \in Nat : \A kind, y : QueueAt(n, kind, y)' <=> QueueAt(n, kind, y)
  BY <1>1 DEF JobAt, QueueAt
<1>5. x \in Pending(k) /\ Places(k, x) = {<<"add", a>>}
  <2>1. <<"add", a>> \in Places(k, x)
    BY <1>3, InPlaces
  <2> QED BY <1>1, <2>1 DEF PendingInv, Once
<1>6. /\ \A kind \in Kinds : \A y : (y \in Pending(kind))' <=> y \in Pending(kind) /\ ~(kind = k /\ y = x)
      /\ dropped' \subseteq seen'["pair"]
  <2>1. CASE k = "token"
    <3>1. seen' = [seen EXCEPT !["token"] = @ \ {x}] /\ UNCHANGED dropped
      BY <2>1 DEF Discard
    <3>2. seen'["token"] = seen["token"] \ {x} /\ seen'["pair"] = seen["pair"]
      BY <1>1, <3>1 DEF Kinds
    <3> QED BY <1>1, <2>1, <3>1, <3>2 DEF Pending, Stuck, Kinds, PendingInv
  <2>2. CASE k = "pair"
    <3>1. dropped' = dropped \union {x} /\ UNCHANGED seen
      BY <2>2 DEF Discard
    <3>2. x \in seen["pair"]
      BY <1>5, <2>2 DEF Pending
    <3> QED BY <1>1, <2>2, <3>1, <3>2 DEF Pending, Stuck, Kinds, PendingInv
  <2> QED BY <1>1, <2>1, <2>2 DEF Kinds
<1>7. Places(k, x)' = {}
  <2>1. ASSUME NEW p \in Places(k, x)' PROVE FALSE
    <3>1. p \in Places(k, x) /\ p # <<"add", a>>
      BY <1>2, <1>4, <2>1, InPlaces, InPlacesNext
    <3> QED BY <1>5, <3>1
  <2> QED BY <2>1
<1>8. Once(k, x)'
  BY <1>1, <1>6, <1>7 DEF Once
<1> QED BY <1>1, <1>2, <1>3, <1>4, <1>6, <1>8, PendingOne

(* The worker deletes the key of what it alone was working on.             *)
LEMMA PendingRelease ==
  ASSUME Types, PendingInv, NEW f \in Workers, Release(f)
  PROVE  PendingInv'
<1>. PICK k, x : k = KindOf(f) /\ x = job[f].item
  OBVIOUS
<1>1. /\ k \in Kinds /\ x \in Items(k) /\ job[f].pc # "idle" /\ job \in [Finders -> JobType] /\ f \in Finders
      /\ seen \in [Kinds -> SUBSET (Tokens \union Pairs)]
      /\ seen' = [seen EXCEPT ![k] = @ \ {x}] /\ job' = [job EXCEPT ![f] = IdleJob]
      /\ UNCHANGED <<queue, dropped, add>>
  <2>1. job[f].pc = "release" /\ f \in Finders /\ k \in Kinds
    BY DEF Release, Finders, KindOf, Kinds
  <2> QED BY <2>1 DEF Release, Types, CallTypes, QueueTypes
<1>2. \A g \in Workers : \A kind, y : JobAt(g, kind, y)' <=> JobAt(g, kind, y) /\ ~(g = f)
  <2>1. \A g \in Workers : g # f => job'[g] = job[g]
    BY <1>1 DEF Finders
  <2>2. job'[f].pc = "idle"
    BY <1>1, IdleTypes
  <2> QED BY <2>1, <2>2 DEF JobAt
<1>3. \A kind, y : JobAt(f, kind, y) <=> kind = k /\ y = x
  BY <1>1 DEF JobAt
<1>4. /\ \A a \in Adders : \A kind, y : AddAt(a, kind, y)' <=> AddAt(a, kind, y)
      /\ \A n \in Nat : \A kind, y : QueueAt(n, kind, y)' <=> QueueAt(n, kind, y)
  BY <1>1 DEF AddAt, QueueAt
<1>5. x \in Pending(k) /\ Places(k, x) = {<<"job", f>>}
  <2>1. <<"job", f>> \in Places(k, x)
    BY <1>3, InPlaces
  <2> QED BY <1>1, <2>1 DEF PendingInv, Once
<1>6. /\ \A kind \in Kinds : \A y : (y \in Pending(kind))' <=> y \in Pending(kind) /\ ~(kind = k /\ y = x)
      /\ dropped' \subseteq seen'["pair"]
  <2>1. \A kind \in Kinds : \A y : y \in seen'[kind] <=> y \in seen[kind] /\ ~(kind = k /\ y = x)
    BY <1>1
  <2>2. \A kind \in Kinds : Stuck(kind)' = Stuck(kind)
    BY <1>1 DEF Stuck
  <2>3. dropped' \subseteq seen'["pair"]
    BY <1>1, <1>5, <2>1 DEF Pending, Stuck, PendingInv, Kinds
  <2> QED BY <2>1, <2>2, <2>3 DEF Pending
<1>7. Places(k, x)' = {}
  <2>1. ASSUME NEW p \in Places(k, x)' PROVE FALSE
    <3>1. p \in Places(k, x) /\ p # <<"job", f>>
      BY <1>2, <1>4, <2>1, InPlaces, InPlacesNext
    <3> QED BY <1>5, <3>1
  <2> QED BY <2>1
<1>8. Once(k, x)'
  BY <1>1, <1>6, <1>7 DEF Once
<1> QED BY <1>1, <1>2, <1>3, <1>4, <1>6, <1>8, PendingOne

(* A worker takes the first of the queue, and the others move up.          *)
LEMMA PendingTake ==
  ASSUME Types, PendingInv, NEW f \in Workers, Take(f)
  PROVE  PendingInv'
<1>. PICK k, x : k = KindOf(f) /\ x = Head(queue[k])
  OBVIOUS
<1>1. /\ k \in Kinds /\ job[f].pc = "idle" /\ job \in [Finders -> JobType] /\ f \in Finders
      /\ queue \in [Kinds -> Seq(Tokens \union Pairs)] /\ queue[k] \in Seq(Items(k)) /\ queue[k] # <<>>
      /\ queue' = [queue EXCEPT ![k] = Tail(@)] /\ UNCHANGED <<seen, dropped, add>>
  <2>1. f \in Finders /\ k \in Kinds
    BY DEF Finders, KindOf, Kinds
  <2> QED BY <2>1 DEF Take, Types, CallTypes, QueueTypes
<1>2. x \in Items(k) /\ x = queue[k][1] /\ Len(queue[k]) \in Nat /\ Len(queue[k]) # 0
  BY <1>1
<1>3. \A g \in Workers : \A kind, y : JobAt(g, kind, y)' <=> JobAt(g, kind, y) \/ (g = f /\ kind = k /\ y = x)
  <2>. PICK j : j = [IdleJob EXCEPT !.pc = IF k = "pair" THEN "pair" ELSE "cache", !.item = x]
    OBVIOUS
  <2>1. job' = [job EXCEPT ![f] = j]
    BY DEF Take
  <2>2. j.pc # "idle" /\ j.item = x
    BY DEF IdleJob
  <2>3. job'[f] = j /\ \A g \in Workers : g # f => job'[g] = job[g]
    BY <1>1, <2>1 DEF Finders
  <2> QED BY <1>1, <2>2, <2>3 DEF JobAt
<1>4. \A a \in Adders : \A kind, y : AddAt(a, kind, y)' <=> AddAt(a, kind, y)
  BY <1>1 DEF AddAt
<1>5. \A kind \in Kinds : \A y : (y \in Pending(kind))' <=> y \in Pending(kind)
  BY <1>1 DEF Pending, Stuck
<1>6. \A n \in Nat : \A y : QueueAt(n, k, y)' <=> n # 0 /\ QueueAt(n + 1, k, y)
  <2>1. /\ Len(Tail(queue[k])) = Len(queue[k]) - 1
        /\ \A n \in 1..(Len(queue[k]) - 1) : Tail(queue[k])[n] = queue[k][n + 1]
    BY <1>1, <1>2
  <2>2. queue'[k] = Tail(queue[k])
    BY <1>1
  <2>3. \A n \in Nat : n \in 1..(Len(queue[k]) - 1) <=> n # 0 /\ n + 1 \in 1..Len(queue[k])
    BY <1>2
  <2> QED BY <2>1, <2>2, <2>3 DEF QueueAt
<1>7. /\ \A y : QueueAt(1, k, y) <=> y = x
      /\ \A n \in Nat : \A y : QueueAt(n, k, y) => n # 0
  BY <1>2 DEF QueueAt
<1>8. ASSUME NEW kind \in Kinds, NEW y \in Items(kind) PROVE Once(kind, y)'
  <2>0. Once(kind, y)
    BY DEF PendingInv
  <2>1. CASE kind # k
    <3>1. \A n \in Nat : QueueAt(n, kind, y)' <=> QueueAt(n, kind, y)
      BY <1>1, <2>1 DEF QueueAt
    <3>2. Places(kind, y)' = Places(kind, y)
      BY <1>3, <1>4, <2>1, <3>1, PlacesKept
    <3> QED BY <1>5, <2>0, <3>2, OnceKept
  <2>2. CASE kind = k /\ y = x
    <3>1. Places(k, x) = {<<"queue", 1>>} /\ x \in Pending(k)
      <4>1. <<"queue", 1>> \in Places(k, x)
        BY <1>7, InPlaces
      <4> QED BY <2>0, <2>2, <4>1 DEF Once
    <3>2. \A a \in Adders : ~AddAt(a, k, x)
      <4> TAKE a \in Adders
      <4>1. AddAt(a, k, x) => <<"add", a>> \in Places(k, x)
        BY InPlaces
      <4> QED BY <3>1, <4>1
    <3>3. \A n \in Nat : QueueAt(n, k, x) => n = 1
      <4> TAKE n \in Nat
      <4>1. QueueAt(n, k, x) => <<"queue", n>> \in Places(k, x)
        BY InPlaces
      <4> QED BY <3>1, <4>1
    <3>4. \A g \in Workers : ~JobAt(g, k, x)
      <4> TAKE g \in Workers
      <4>1. JobAt(g, k, x) => <<"job", g>> \in Places(k, x)
        BY InPlaces
      <4> QED BY <3>1, <4>1
    <3>5. \A n \in Nat : ~QueueAt(n, k, x)'
      BY <1>6, <3>3
    <3>6. ASSUME NEW p PROVE p \in Places(k, x)' <=> p = <<"job", f>>
      BY <1>3, <1>4, <3>2, <3>4, <3>5, InPlacesNext
    <3>7. Places(k, x)' = {<<"job", f>>}
      BY <3>6
    <3> QED BY <1>5, <2>2, <3>1, <3>7 DEF Once
  <2>3. CASE kind = k /\ y # x
    <3>1. \A g \in Workers : JobAt(g, k, y)' <=> JobAt(g, k, y)
      BY <1>3, <2>3
    <3>2. \A n \in Nat : QueueAt(n, k, y) => n # 0 /\ n # 1 /\ n - 1 \in Nat /\ QueueAt(n - 1, k, y)'
      <4> SUFFICES ASSUME NEW n \in Nat, QueueAt(n, k, y)
                   PROVE  n # 0 /\ n # 1 /\ n - 1 \in Nat /\ QueueAt(n - 1, k, y)'
        OBVIOUS
      <4>1. n # 0 /\ n # 1
        BY <1>7, <2>3
      <4>2. n - 1 \in Nat /\ n - 1 # 0 /\ (n - 1) + 1 = n
        BY <4>1
      <4> QED BY <1>6, <4>1, <4>2
    <3>3. CASE Places(k, y) = {}
      <4>1. ASSUME NEW p \in Places(k, y)' PROVE \E q : q \in Places(k, y)
        <5>1. CASE \E n \in Nat : QueueAt(n, k, y)'
          <6>1. PICK n \in Nat : QueueAt(n, k, y)'
            BY <5>1
          <6>2. QueueAt(n + 1, k, y) /\ n + 1 \in Nat
            BY <1>6, <6>1
          <6>3. <<"queue", n + 1>> \in Places(k, y)
            BY <6>2, InPlaces
          <6> QED BY <6>3
        <5>2. CASE ~\E n \in Nat : QueueAt(n, k, y)'
          <6>1. p \in Places(k, y)
            BY <1>4, <3>1, <4>1, <5>2, InPlaces, InPlacesNext
          <6> QED BY <6>1
        <5> QED BY <5>1, <5>2
      <4>2. Places(k, y)' = {}
        BY <3>3, <4>1
      <4> QED BY <1>5, <2>0, <2>3, <3>3, <4>2 DEF Once
    <3>4. ASSUME NEW p \in Places(k, y), Places(k, y) = {p} PROVE Once(kind, y)'
      <4>1. /\ \A a \in Adders : AddAt(a, k, y) => p = <<"add", a>>
            /\ \A n \in Nat : QueueAt(n, k, y) => p = <<"queue", n>>
            /\ \A g \in Workers : JobAt(g, k, y) => p = <<"job", g>>
        <5>1. \A a \in Adders : AddAt(a, k, y) => <<"add", a>> \in Places(k, y)
          BY InPlaces
        <5>2. \A n \in Nat : QueueAt(n, k, y) => <<"queue", n>> \in Places(k, y)
          BY InPlaces
        <5>3. \A g \in Workers : JobAt(g, k, y) => <<"job", g>> \in Places(k, y)
          BY InPlaces
        <5> QED BY <3>4, <5>1, <5>2, <5>3
      <4>2. y \in Pending(k)
        BY <2>0, <2>3, <3>4 DEF Once
      <4>3. CASE \E m \in Nat : QueueAt(m, k, y) /\ p = <<"queue", m>>
        <5>1. PICK m \in Nat : QueueAt(m, k, y) /\ p = <<"queue", m>>
          BY <4>3
        <5>2. QueueAt(m - 1, k, y)' /\ m - 1 \in Nat
          BY <3>2, <5>1
        <5>3. /\ \A a \in Adders : ~AddAt(a, k, y)'
              /\ \A g \in Workers : ~JobAt(g, k, y)'
          BY <1>4, <3>1, <4>1, <5>1
        <5>4. \A n \in Nat : QueueAt(n, k, y)' => n = m - 1
          <6> SUFFICES ASSUME NEW n \in Nat, QueueAt(n, k, y)' PROVE n = m - 1
            OBVIOUS
          <6>1. QueueAt(n + 1, k, y) /\ n + 1 \in Nat
            BY <1>6
          <6>2. <<"queue", n + 1>> = <<"queue", m>>
            BY <4>1, <5>1, <6>1
          <6>3. n + 1 = m
            BY <6>2
          <6> QED BY <6>3
        <5>. PICK l : l = m - 1
          OBVIOUS
        <5>5. ASSUME NEW q PROVE q \in Places(k, y)' <=> q = <<"queue", l>>
          BY <5>2, <5>3, <5>4, InPlacesNext
        <5>6. Places(k, y)' = {<<"queue", l>>}
          BY <5>5
        <5> QED BY <1>5, <2>3, <4>2, <5>6 DEF Once
      <4>4. CASE ~\E m \in Nat : QueueAt(m, k, y) /\ p = <<"queue", m>>
        <5>1. \A n \in Nat : ~QueueAt(n, k, y)
          BY <4>1, <4>4
        <5>2. \A n \in Nat : ~QueueAt(n, k, y)'
          <6> SUFFICES ASSUME NEW n \in Nat, QueueAt(n, k, y)' PROVE FALSE
            OBVIOUS
          <6>1. QueueAt(n + 1, k, y) /\ n + 1 \in Nat
            BY <1>6
          <6> QED BY <5>1, <6>1
        <5>3. Places(k, y)' = Places(k, y)
          BY <1>4, <3>1, <5>1, <5>2, PlacesKept
        <5> QED BY <1>5, <2>0, <2>3, <5>3, OnceKept
      <4> QED BY <4>3, <4>4
    <3> QED BY <2>0, <2>3, <3>3, <3>4 DEF Once
  <2> QED BY <2>1, <2>2, <2>3
<1>9. dropped' \subseteq seen'["pair"]
  BY <1>1 DEF PendingInv
<1> QED BY <1>8, <1>9 DEF PendingInv

(* What is under way and what is in seen agree after every step.           *)
LEMMA PendingStep == ASSUME Types, PendingInv, [Next]_vars PROVE PendingInv'
<1>1. ASSUME UNCHANGED <<seen, queue, dropped, add, job>> PROVE PendingInv'
  <2>1. /\ \A a \in Adders : \A kind, x : AddAt(a, kind, x)' <=> AddAt(a, kind, x)
        /\ \A f \in Workers : \A kind, x : JobAt(f, kind, x)' <=> JobAt(f, kind, x)
    BY <1>1 DEF AddAt, JobAt
  <2> QED BY <1>1, <2>1, PendingFrame
<1>2. ASSUME NEW a \in Adders, CallAdd(a) PROVE PendingInv'
  <2>1. PICK r : add' = [add EXCEPT ![a] = r] /\ r.pc = "store"
    <3>1. PICK kind, x : add' = [add EXCEPT ![a] = [pc |-> "store", kind |-> kind, item |-> x]]
      BY <1>2 DEF CallAdd
    <3>2. PICK r : r = [pc |-> "store", kind |-> kind, item |-> x]
      OBVIOUS
    <3>3. add' = [add EXCEPT ![a] = r] /\ r.pc = "store"
      BY <3>1, <3>2
    <3> QED BY <3>3
  <2>2. add[a].pc = "idle" /\ UNCHANGED <<seen, queue, dropped, job>>
    BY <1>2 DEF CallAdd, queueVars
  <2>3. \A b \in Adders : \A kind, x : AddAt(b, kind, x)' <=> AddAt(b, kind, x)
    BY <2>1, <2>2 DEF AddAt, Types, CallTypes
  <2>4. \A f \in Workers : \A kind, x : JobAt(f, kind, x)' <=> JobAt(f, kind, x)
    BY <2>2 DEF JobAt
  <2> QED BY <2>2, <2>3, <2>4, PendingFrame
<1>3. ASSUME NEW f \in Finders, NEW j, job' = [job EXCEPT ![f] = j], UNCHANGED <<seen, queue, dropped, add>>,
             f \in Workers => job[f].pc # "idle" /\ j.pc # "idle" /\ j.item = job[f].item
      PROVE  PendingInv'
  <2>1. \A a \in Adders : \A kind, x : AddAt(a, kind, x)' <=> AddAt(a, kind, x)
    BY <1>3 DEF AddAt
  <2>2. \A g \in Workers : \A kind, x : JobAt(g, kind, x)' <=> JobAt(g, kind, x)
    BY <1>3 DEF JobAt, Types, CallTypes, Finders
  <2> QED BY <1>3, <2>1, <2>2, PendingFrame
<1>4. ASSUME NEW f \in Finders, Lookup(f) PROVE PendingInv'
  <2>1. PICK j \in JobType :
               /\ job' = [job EXCEPT ![f] = j]
               /\ j.item = job[f].item \/ (f \notin Workers /\ j = IdleJob)
               /\ f \in Workers => j.pc # "idle"
    BY <1>4, LookupJob
  <2>2. UNCHANGED <<seen, queue, dropped, add>> /\ job[f].pc # "idle"
    BY <1>4, LookupJob
  <2> QED BY <1>3, <2>1, <2>2
<1>5. ASSUME NEW f \in Finders, Request(f) PROVE PendingInv'
  <2>1. f \notin Workers /\ UNCHANGED <<seen, queue, dropped, add>>
    BY <1>5, FinderAssumption DEF Request, queueVars, Workers
  <2>2. PICK j : job' = [job EXCEPT ![f] = j]
    BY <1>5 DEF Request
  <2> QED BY <1>3, <2>1, <2>2
<1>6. ASSUME NEW f \in Finders, Release(f) PROVE PendingInv'
  <2>1. f \in Workers
    BY <1>6 DEF Release, Types, CallTypes
  <2> QED BY <1>6, <2>1, PendingRelease
<1>7. CASE Crash
  <2>1. /\ seen' = [kind \in Kinds |-> {}] /\ queue' = [kind \in Kinds |-> <<>>] /\ dropped' = {}
        /\ add' = [a \in Adders |-> IdleAdd]
        /\ job' = [f \in Finders |-> IF f \in Workers THEN IdleJob ELSE job[f]]
    BY <1>7 DEF Crash
  <2>2. ASSUME NEW kind \in Kinds, NEW x \in Items(kind) PROVE Once(kind, x)'
    <3>1. \A a \in Adders : ~AddAt(a, kind, x)'
      BY <2>1, IdleTypes DEF AddAt
    <3>2. \A f \in Workers : ~JobAt(f, kind, x)'
      BY <2>1, IdleTypes DEF JobAt, Finders
    <3>3. \A n \in Nat : ~QueueAt(n, kind, x)'
      BY <2>1 DEF QueueAt
    <3>4. Places(kind, x)' = {}
      BY <3>1, <3>2, <3>3, InPlacesNext
    <3>5. ~(x \in Pending(kind))'
      BY <2>1 DEF Pending
    <3> QED BY <3>4, <3>5 DEF Once
  <2>3. dropped' \subseteq seen'["pair"]
    BY <2>1 
  <2> QED BY <2>2, <2>3 DEF PendingInv
<1>8. CASE Expire \/ (\E w \in Writers : ProcessTransaction(w) \/ Write(w)) \/ UNCHANGED vars
  BY <1>1, <1>8 DEF Expire, ProcessTransaction, Write, InsertToken, Burn, Mint, vars, queueVars
<1>9. ASSUME NEW f \in Finders, Take(f) PROVE PendingInv'
  BY <1>9, PendingTake DEF Take
<1>10. ASSUME NEW a \in Adders, AddToQueue(a) PROVE PendingInv'
  BY <1>10, PendingLoadOrStore, PendingSend, PendingDiscard DEF AddToQueue
<1> QED BY <1>2, <1>4, <1>5, <1>6, <1>7, <1>8, <1>9, <1>10 DEF Next

-----------------------------------------------------------------------------
(* A token's lookups that will add to its supply are one worker's, since   *)
(* the token is in one place, and those of the API's handlers.             *)
LEMMA ArmedBound ==
  ASSUME Types, PendingInv, NEW t \in Tokens
  PROVE  IsFiniteSet(Armed(t)) /\ Cardinality(Armed(t)) \in Nat /\ Cardinality(Armed(t)) <= AtOnce
<1>1. ASSUME NEW f \in Armed(t) \ Requests, NEW g \in Armed(t) \ Requests PROVE f = g
  <2>1. f \in Workers /\ g \in Workers /\ f \in Finders /\ g \in Finders
    BY DEF Armed, Finders
  <2>2. KindOf(f) = "token" /\ KindOf(g) = "token"
    BY <2>1 DEF Armed, Types, CallTypes, Lookups
  <2>3. JobAt(f, "token", t) /\ JobAt(g, "token", t)
    BY <2>2 DEF JobAt, Armed
  <2>4. <<"job", f>> \in Places("token", t) /\ <<"job", g>> \in Places("token", t)
    BY <2>1, <2>3, InPlaces
  <2>5. Once("token", t)
    BY DEF PendingInv, Kinds, Items
  <2>6. <<"job", f>> = <<"job", g>>
    BY <2>4, <2>5 DEF Once
  <2> QED BY <2>6
<1>2. PICK w : Armed(t) \subseteq Requests \union {w}
  <2>1. CASE Armed(t) \ Requests = {}
    BY <2>1
  <2>2. CASE Armed(t) \ Requests # {}
    BY <1>1, <2>2
  <2> QED BY <2>1, <2>2
<1>3. /\ IsFiniteSet(Requests \union {w}) /\ Cardinality(Requests) \in Nat
      /\ Cardinality(Requests \union {w}) \in Nat /\ Cardinality(Requests \union {w}) <= AtOnce
  <2>1. IsFiniteSet(Requests)
    BY FinderAssumption
  <2>2. /\ IsFiniteSet(Requests \union {w})
        /\ Cardinality(Requests \union {w})
             = IF w \in Requests THEN Cardinality(Requests) ELSE Cardinality(Requests) + 1
    BY <2>1, FS_AddElement
  <2>3. Cardinality(Requests) \in Nat /\ Cardinality(Requests \union {w}) \in Nat
    BY <2>1, <2>2, FS_CardinalityType
  <2> QED BY <2>2, <2>3 DEF AtOnce
<1>4. /\ IsFiniteSet(Armed(t))
      /\ Cardinality(Armed(t)) <= Cardinality(Requests \union {w})
  BY <1>2, <1>3, FS_Subset
<1>5. Cardinality(Armed(t)) \in Nat
  BY <1>4, FS_CardinalityType
<1>6. AtOnce \in Nat
  BY <1>3 DEF AtOnce
<1> QED BY ONLY <1>3, <1>4, <1>5, <1>6

(* Among those armed after the step are only ones that were before, unless *)
(* the supply is 0; and one that adds is no longer armed.                  *)
LEMMA ArmedShrinks ==
  ASSUME Types, [Next]_vars, NEW t \in Tokens
  PROVE  /\ supply[t] # 0 => Armed(t)' \subseteq Armed(t)
         /\ \A f \in Finders : SeedSupply(f) /\ job[f].item = t =>
                /\ Armed(t)' \subseteq Armed(t) \ {f} /\ f \in Armed(t)
<1> USE DEF Types, CallTypes
<1>1. ASSUME UNCHANGED job PROVE Armed(t)' = Armed(t)
  BY <1>1 DEF Armed
<1>2. ASSUME NEW f \in Finders, NEW j, job' = [job EXCEPT ![f] = j], j.pc \notin {"metadata", "supply"}
      PROVE  Armed(t)' \subseteq Armed(t) \ {f}
  BY <1>2 DEF Armed
<1>3. ASSUME NEW f \in Finders, Return(f) PROVE Armed(t)' \subseteq Armed(t) \ {f}
  <2>1. job[f] \in JobType
    OBVIOUS
  <2>2. After(f).pc \in {"idle", "release"}
    BY <2>1, IdleTypes DEF After, JobType
  <2> QED BY <1>2, <1>3, <2>2 DEF Return
<1>4. ASSUME NEW f \in Finders, NEW p \in {"repo", "info", "reread"}, Goto(f, p)
      PROVE  Armed(t)' \subseteq Armed(t) \ {f}
  <2>. PICK j : j = [job[f] EXCEPT !.pc = p]
    OBVIOUS
  <2>1. job[f] \in JobType
    OBVIOUS
  <2>2. j.pc = p
    BY <2>1 DEF JobType
  <2>3. job' = [job EXCEPT ![f] = j]
    BY <1>4 DEF Goto
  <2> QED BY <1>2, <2>2, <2>3
<1>5. ASSUME NEW f \in Finders, Lookup(f), supply[t] # 0 PROVE Armed(t)' \subseteq Armed(t)
  <2>0. job[f] \in JobType
    OBVIOUS
  <2>1. CASE Return(f)
    BY <1>3, <2>1
  <2>2. CASE Goto(f, "repo") \/ Goto(f, "info") \/ Goto(f, "reread")
    BY <1>4, <2>2
  <2>3. CASE ReadRow(f)
    <3>1. CASE name[job[f].item] \notin {"absent", "named"}
      <4>. PICK j : j = [job[f] EXCEPT !.pc = "metadata", !.supply = supply[job[f].item]]
        OBVIOUS
      <4>1. job' = [job EXCEPT ![f] = j]
        BY <2>3, <3>1 DEF ReadRow
      <4>2. j.item = job[f].item /\ j.supply = supply[job[f].item]
        BY <2>0 DEF JobType
      <4>3. f \notin Armed(t)'
        BY <1>5, <4>1, <4>2 DEF Armed
      <4>4. \A g \in Finders : g # f => job'[g] = job[g]
        BY <4>1
      <4> QED BY <4>3, <4>4 DEF Armed
    <3> QED BY <2>1, <2>3, <3>1 DEF ReadRow
  <2>4. CASE GetMetadata(f)
    <3>1. PICK md : job' = [job EXCEPT ![f] = [@ EXCEPT !.pc = "supply", !.name = md]]
      BY <2>4 DEF GetMetadata
    <3>. PICK j : j = [job[f] EXCEPT !.pc = "supply", !.name = md]
      OBVIOUS
    <3>2. job' = [job EXCEPT ![f] = j] /\ job[f].pc = "metadata"
      BY <2>4, <3>1 DEF GetMetadata
    <3>3. j.pc = "supply" /\ j.item = job[f].item /\ j.supply = job[f].supply
      BY <2>0 DEF JobType
    <3>4. \A g \in Finders : g # f => job'[g] = job[g]
      BY <3>2
    <3>5. job'[f] = j
      BY <3>2
    <3> QED BY <3>2, <3>3, <3>4, <3>5 DEF Armed
  <2>5. CASE ReadAgain(f)
    <3>. PICK j : j = [job[f] EXCEPT !.pc = "put", !.name = name[job[f].item]]
      OBVIOUS
    <3>1. job' = [job EXCEPT ![f] = j]
      BY <2>5 DEF ReadAgain
    <3>2. j.pc = "put"
      BY <2>0 DEF JobType
    <3> QED BY <1>2, <3>1, <3>2
  <2> QED BY <1>5, <2>1, <2>2, <2>3, <2>4, <2>5
          DEF Lookup, FindPair, GetToken, KeepSupply, SeedSupply, AfterSupply, UpdateTokenInfo,
              PutToken, LookupFails
<1>6. ASSUME NEW f \in Finders, SeedSupply(f), job[f].item = t
      PROVE  Armed(t)' \subseteq Armed(t) \ {f} /\ f \in Armed(t)
  <2>1. Return(f) \/ Goto(f, "info")
    BY <1>6 DEF SeedSupply, AfterSupply
  <2>2. f \in Armed(t)
    BY <1>6 DEF SeedSupply, Armed
  <2> QED BY <1>3, <1>4, <2>1, <2>2
<1>7. supply[t] # 0 => Armed(t)' \subseteq Armed(t)
  <2> SUFFICES ASSUME supply[t] # 0 PROVE Armed(t)' \subseteq Armed(t)
    OBVIOUS
  <2>1. CASE \E a \in Adders : CallAdd(a) \/ AddToQueue(a)
    BY <1>1, <2>1 DEF CallAdd, AddToQueue, LoadOrStore, SendToQueue, Discard
  <2>2. CASE Expire \/ (\E w \in Writers : ProcessTransaction(w) \/ Write(w)) \/ UNCHANGED vars
    BY <1>1, <2>2 DEF Expire, ProcessTransaction, Write, InsertToken, Burn, Mint, vars
  <2>3. ASSUME NEW f \in Finders, Take(f) \/ Release(f) \/ Request(f) PROVE Armed(t)' \subseteq Armed(t)
    <3>1. CASE Take(f)
      <4>. PICK k : k = KindOf(f)
        OBVIOUS
      <4>. PICK j : j = [IdleJob EXCEPT !.pc = IF k = "pair" THEN "pair" ELSE "cache", !.item = Head(queue[k])]
        OBVIOUS
      <4>1. job' = [job EXCEPT ![f] = j]
        BY <3>1 DEF Take
      <4>2. j.pc \in {"pair", "cache"}
        BY DEF IdleJob
      <4> QED BY <1>2, <4>1, <4>2
    <3>2. CASE Request(f)
      <4>1. PICK x : job' = [job EXCEPT ![f] = [IdleJob EXCEPT !.pc = IF x \in Pairs THEN "pair" ELSE "cache",
                                                               !.item = x]]
        BY <3>2 DEF Request
      <4>. PICK j : j = [IdleJob EXCEPT !.pc = IF x \in Pairs THEN "pair" ELSE "cache", !.item = x]
        OBVIOUS
      <4>2. job' = [job EXCEPT ![f] = j]
        BY <4>1
      <4>3. j.pc \in {"pair", "cache"}
        BY DEF IdleJob
      <4> QED BY <1>2, <4>2, <4>3
    <3>3. CASE Release(f)
      BY <1>2, <3>3, IdleTypes DEF Release
    <3> QED BY <2>3, <3>1, <3>2, <3>3
  <2>4. CASE Crash
    <3>1. job' = [f \in Finders |-> IF f \in Workers THEN IdleJob ELSE job[f]]
      BY <2>4 DEF Crash
    <3> QED BY <3>1, IdleTypes DEF Armed
  <2> QED BY <1>5, <2>1, <2>2, <2>3, <2>4 DEF Next
<1> QED BY <1>6, <1>7

(* A step that adds d seeds (one or none) to a token's supply and leaves   *)
(* it at n: of the lookups that are armed, d have added.                   *)
LEMMA SeedOne ==
  ASSUME Types, PendingInv, NEW t \in Tokens, SeedAt(t), NEW n \in Int, NEW d \in {0, 1},
         supply'[t] = n, seeds'[t] = seeds[t] + d,
         zeroed'[t] = zeroed[t] + IF n = 0 /\ supply[t] # 0 THEN 1 ELSE 0,
         d = 1 => n = supply[t] + 1,
         supply[t] # 0 \/ n # 0 =>
             /\ IsFiniteSet(Armed(t)')
             /\ Cardinality(Armed(t)') + d <= Cardinality(Armed(t))
  PROVE  SeedAt(t)'
<1>1. AtOnce \in Nat
  <2>1. Cardinality(Requests) \in Nat
    BY FinderAssumption, FS_CardinalityType
  <2> QED BY <2>1 DEF AtOnce
<1>2. Cardinality(Armed(t)) \in Nat /\ Cardinality(Armed(t)) <= AtOnce
  BY ArmedBound
<1>3. seeds[t] \in Nat /\ zeroed[t] \in Nat /\ supply[t] \in Int
  BY DEF Types, TableTypes
<1>. PICK a, c, cc, s, z, m : /\ a = AtOnce /\ c = Cardinality(Armed(t)) /\ cc = Cardinality(Armed(t)')
                              /\ s = seeds[t] /\ z = zeroed[t] /\ m = supply[t]
  OBVIOUS
<1>4. a \in Nat /\ c \in Nat /\ c <= a /\ s \in Nat /\ z \in Nat /\ m \in Int
  BY <1>1, <1>2, <1>3
<1>. PICK b : b = z * a
  OBVIOUS
<1>5. b \in Nat /\ (1 + z) * a = b + a /\ (z + 1) * a = b + a
  BY ONLY <1>4, b = z * a
<1>6. IF m = 0 THEN s <= b ELSE s + c <= b + a
  BY <1>5 DEF SeedAt
<1>7. (m # 0 \/ n # 0) => cc \in Nat /\ cc + d <= c
  BY FS_CardinalityType
<1>8. CASE n = 0 /\ m # 0
  <2>1. zeroed'[t] = z + 1 /\ seeds'[t] = s + d /\ supply'[t] = 0
    BY <1>8
  <2>2. s + d <= b + a
    BY ONLY <1>4, <1>5, <1>6, <1>7, <1>8, d \in {0, 1}
  <2> QED BY <1>5, <2>1, <2>2 DEF SeedAt
<1>9. CASE n = 0 /\ m = 0
  <2>1. d = 0
    BY <1>9
  <2>2. zeroed'[t] = z /\ seeds'[t] = s /\ supply'[t] = 0
    BY <1>4, <1>9, <2>1
  <2> QED BY <1>6, <1>9, <2>2 DEF SeedAt
<1>10. CASE n # 0
  <2>1. zeroed'[t] = z /\ seeds'[t] = s + d /\ supply'[t] # 0
    BY <1>4, <1>10
  <2>2. (s + d) + cc <= b + a
    BY ONLY <1>4, <1>5, <1>6, <1>7, <1>10, d \in {0, 1}
  <2>3. seeds'[t] + Cardinality(Armed(t)') <= (1 + zeroed'[t]) * AtOnce
    BY <1>5, <2>1, <2>2
  <2> QED BY <2>1, <2>3 DEF SeedAt
<1> QED BY <1>4, <1>8, <1>9, <1>10

(* The supplies that FindToken adds stay within what the zeros allow.      *)
LEMMA SeedStep == ASSUME Types, PendingInv, SeedInv, [Next]_vars PROVE SeedInv'
<1> USE DEF Types, TableTypes
<1>1. ASSUME NEW t \in Tokens, supply'[t] = supply[t], seeds'[t] = seeds[t], zeroed'[t] = zeroed[t]
      PROVE  SeedAt(t)'
  <2>1. supply[t] \in Int /\ seeds[t] + 0 = seeds[t] /\ zeroed[t] + 0 = zeroed[t]
    OBVIOUS
  <2>2. ASSUME supply[t] # 0
        PROVE  IsFiniteSet(Armed(t)') /\ Cardinality(Armed(t)') + 0 <= Cardinality(Armed(t))
    <3>1. Armed(t)' \subseteq Armed(t)
      BY <2>2, ArmedShrinks
    <3>2. IsFiniteSet(Armed(t)') /\ Cardinality(Armed(t)') <= Cardinality(Armed(t))
      BY <3>1, ArmedBound, FS_Subset
    <3>3. Cardinality(Armed(t)') \in Nat
      BY <3>2, FS_CardinalityType
    <3> QED BY <3>2, <3>3
  <2>3. SeedAt(t)
    BY DEF SeedInv
  <2>4. zeroed'[t] = zeroed[t] + IF supply[t] = 0 /\ supply[t] # 0 THEN 1 ELSE 0
    BY <1>1, <2>1
  <2>5. seeds'[t] = seeds[t] + 0
    BY <1>1, <2>1
  <2>6. 0 \in {0, 1} /\ (0 = 1 => supply[t] = supply[t] + 1)
    OBVIOUS
  <2> QED BY ONLY <1>1, <2>1, <2>2, <2>3, <2>4, <2>5, <2>6, SeedOne, Types, PendingInv, t \in Tokens
<1>2. ASSUME UNCHANGED <<supply, seeds, zeroed>> PROVE SeedInv'
  BY <1>1, <1>2 DEF SeedInv
<1>3. ASSUME NEW f \in Finders, SeedSupply(f) PROVE SeedInv'
  <2>. PICK u : u = job[f].item
    OBVIOUS
  <2>1. u \in Tokens
    BY <1>3 DEF SeedSupply, CallTypes, Lookups
  <2>2. SetSupply(u, supply[u] + 1) /\ seeds' = [seeds EXCEPT ![u] = @ + 1]
    BY <1>3 DEF SeedSupply
  <2>. PICK n : n = supply[u] + 1
    OBVIOUS
  <2>3. n \in Int
    BY <2>1
  <2>4. /\ supply'[u] = n /\ seeds'[u] = seeds[u] + 1
        /\ zeroed'[u] = zeroed[u] + IF n = 0 /\ supply[u] # 0 THEN 1 ELSE 0
    BY <2>1, <2>2 DEF SetSupply
  <2>5. \A t \in Tokens : t # u => supply'[t] = supply[t] /\ seeds'[t] = seeds[t] /\ zeroed'[t] = zeroed[t]
    BY <2>1, <2>2 DEF SetSupply
  <2>6. Armed(u)' \subseteq Armed(u) \ {f} /\ f \in Armed(u)
    BY <1>3, <2>1, ArmedShrinks
  <2>7. IsFiniteSet(Armed(u)') /\ Cardinality(Armed(u)') + 1 <= Cardinality(Armed(u))
    <3>1. IsFiniteSet(Armed(u)) /\ Cardinality(Armed(u)) \in Nat
      BY <2>1, ArmedBound
    <3>2. IsFiniteSet(Armed(u) \ {f}) /\ Cardinality(Armed(u) \ {f}) = Cardinality(Armed(u)) - 1
      BY <2>6, <3>1, FS_RemoveElement
    <3>3. IsFiniteSet(Armed(u)') /\ Cardinality(Armed(u)') <= Cardinality(Armed(u) \ {f})
      BY <2>6, <3>2, FS_Subset
    <3>4. Cardinality(Armed(u)') \in Nat
      BY <3>3, FS_CardinalityType
    <3> QED BY ONLY <3>1, <3>2, <3>3, <3>4
  <2>8. SeedAt(u)
    BY <2>1 DEF SeedInv
  <2>9. SeedAt(u)'
    BY ONLY <2>1, <2>3, <2>4, <2>7, <2>8, n = supply[u] + 1, 1 \in {0, 1}, SeedOne, Types, PendingInv
  <2> QED BY <1>1, <2>5, <2>9 DEF SeedInv
<1>4. ASSUME NEW w \in Writers, Burn(w) \/ Mint(w) PROVE SeedInv'
  <2>. PICK x : x = writer[w].tx
    OBVIOUS
  <2>1. x \in Txs
    BY <1>4 DEF Burn, Mint, WriterTypes
  <2>2. x.token \in Tokens /\ x.burns \in Nat /\ x.mints \in Nat
    BY <2>1, TxTypes
  <2>3. PICK ch \in Int : UpdateTokenSupply(x.token, ch)
    <3>1. -x.burns \in Int /\ x.mints \in Int
      BY <2>2
    <3>2. UpdateTokenSupply(x.token, -x.burns) \/ UpdateTokenSupply(x.token, x.mints)
      BY <1>4 DEF Burn, Mint
    <3> QED BY <3>1, <3>2
  <2>4. UNCHANGED <<seeds, job>>
    BY <1>4 DEF Burn, Mint
  <2>5. CASE UNCHANGED <<supply, zeroed>>
    BY <1>2, <2>4, <2>5
  <2>. PICK u, n : u = x.token /\ n = supply[u] + ch
    OBVIOUS
  <2>6. CASE SetSupply(u, n)
    <3>1. u \in Tokens /\ n \in Int
      BY <2>2, <2>3
    <3>2. /\ supply'[u] = n /\ seeds'[u] = seeds[u] + 0
          /\ zeroed'[u] = zeroed[u] + IF n = 0 /\ supply[u] # 0 THEN 1 ELSE 0
      BY <2>4, <2>6, <3>1 DEF SetSupply
    <3>3. \A t \in Tokens : t # u => supply'[t] = supply[t] /\ seeds'[t] = seeds[t] /\ zeroed'[t] = zeroed[t]
      BY <2>4, <2>6, <3>1 DEF SetSupply
    <3>4. Armed(u)' = Armed(u)
      BY <2>4 DEF Armed
    <3>5. IsFiniteSet(Armed(u)') /\ Cardinality(Armed(u)') + 0 <= Cardinality(Armed(u))
      <4>1. IsFiniteSet(Armed(u)) /\ Cardinality(Armed(u)) \in Nat
        BY <3>1, ArmedBound
      <4> QED BY ONLY <3>4, <4>1
    <3>6. SeedAt(u)
      BY <3>1 DEF SeedInv
    <3>7. 0 \in {0, 1} /\ (0 = 1 => n = supply[u] + 1)
      OBVIOUS
    <3>8. SeedAt(u)'
      BY ONLY <3>1, <3>2, <3>5, <3>6, <3>7, SeedOne, Types, PendingInv
    <3> QED BY <1>1, <3>3, <3>8 DEF SeedInv
  <2> QED BY <2>3, <2>5, <2>6 DEF UpdateTokenSupply
<1>5. CASE \E a \in Adders : CallAdd(a) \/ AddToQueue(a)
  BY <1>2, <1>5 DEF CallAdd, AddToQueue, LoadOrStore, SendToQueue, Discard, tableVars
<1>6. CASE \E f \in Finders : Take(f) \/ Release(f) \/ Request(f)
  BY <1>2, <1>6 DEF Take, Release, Request, tableVars
<1>7. CASE \E f \in Finders : Lookup(f)
  BY <1>2, <1>3, <1>7 DEF Lookup, FindPair, GetToken, ReadRow, GetMetadata, KeepSupply,
                          UpdateTokenInfo, ReadAgain, PutToken, LookupFails, tableVars
<1>8. CASE Expire \/ Crash \/ (\E w \in Writers : ProcessTransaction(w) \/ InsertToken(w)) \/ UNCHANGED vars
  BY <1>2, <1>8 DEF Expire, Crash, ProcessTransaction, InsertToken, tableVars, vars
<1> QED BY <1>4, <1>5, <1>6, <1>7, <1>8 DEF Next, Write

-----------------------------------------------------------------------------
(* The initial state: nothing is known and nothing is under way.           *)
LEMMA InitIInv == Init => IInv
<1> SUFFICES ASSUME Init PROVE IInv
  OBVIOUS
<1> USE DEF Init
<1>1. TableTypes
  BY DEF TableTypes, Names
<1>2. QueueTypes
  BY FinderAssumption DEF QueueTypes
<1>3. CallTypes
  <2>1. "idle" \notin Lookups /\ "idle" # "release"
    BY DEF Lookups
  <2> QED BY <2>1, IdleTypes DEF CallTypes
<1>4. WriterTypes
  BY IdleTypes, FinderAssumption DEF WriterTypes
<1>5. NamesInv
  BY IdleTypes DEF NamesInv, NameInv, CacheHoldsNames
<1>6. PendingInv
  <2>1. ASSUME NEW kind \in Kinds, NEW x \in Items(kind) PROVE Once(kind, x)
    <3>1. \A a \in Adders : ~AddAt(a, kind, x)
      BY IdleTypes DEF AddAt
    <3>2. \A f \in Workers : ~JobAt(f, kind, x)
      BY IdleTypes DEF JobAt, Finders
    <3>3. \A n \in Nat : ~QueueAt(n, kind, x)
      BY DEF QueueAt
    <3>4. Places(kind, x) = {}
      BY <3>1, <3>2, <3>3, InPlaces
    <3>5. ~(x \in Pending(kind))
      BY DEF Pending
    <3> QED BY <3>4, <3>5 DEF Once
  <2> QED BY <2>1 DEF PendingInv
<1>7. SeedInv
  <2>1. AtOnce \in Nat
    <3>1. Cardinality(Requests) \in Nat
      BY FinderAssumption, FS_CardinalityType
    <3> QED BY <3>1 DEF AtOnce
  <2>2. 0 <= 0 * AtOnce
    BY <2>1
  <2> QED BY <2>2 DEF SeedInv, SeedAt
<1> QED BY <1>1, <1>2, <1>3, <1>4, <1>5, <1>6, <1>7 DEF IInv, Types

(* Every step keeps the inductive invariant.                               *)
LEMMA NextIInv == IInv /\ [Next]_vars => IInv'
  BY TypesStep, NameInvStep, CacheStep, PendingStep, SeedStep DEF IInv, NamesInv

(* What the inductive invariant says of the queues.                        *)
LEMMA IInvQueues == IInv => QueuesInOrder
<1> SUFFICES ASSUME IInv PROVE QueuesInOrder
  OBVIOUS
<1> USE DEF IInv, Types
<1>1. TypeOK
  <2>1. /\ name \in [Tokens -> Names] /\ supply \in [Tokens -> Int]
        /\ cache \in [{"processor", "api"} -> [Tokens -> Names]]
        /\ seeds \in [Tokens -> Nat] /\ zeroed \in [Tokens -> Nat]
    BY DEF TableTypes
  <2>2. /\ DOMAIN seen = Kinds /\ DOMAIN queue = Kinds
        /\ \A kind \in Kinds : /\ seen[kind] \subseteq Items(kind)
                               /\ queue[kind] \in Seq(Items(kind))
                               /\ Len(queue[kind]) <= Capacity
        /\ dropped \subseteq Pairs
    BY DEF QueueTypes
  <2>3. /\ add \in [Adders -> [pc : {"idle", "store", "send"}, kind : Kinds,
                               item : Tokens \union Pairs \union {Nothing}]]
        /\ job \in [Finders -> [pc : Lookups \union {"idle", "pair", "release"},
                                item : Tokens \union Pairs \union {Nothing},
                                name : Names, supply : Int]]
    BY DEF CallTypes, AddType, JobType, Addresses
  <2>4. /\ \A w \in Writers : writer[w].pc \in {"idle", "insert", "burn", "mint"}
        /\ runs \in 0..MaxRuns /\ faults \in 0..MaxFaults
    BY DEF WriterTypes, WriterType
  <2> QED BY ONLY <2>1, <2>2, <2>3, <2>4 DEF TypeOK
<1>2. ASSUME NEW kind \in Kinds, NEW x \in Items(kind)
      PROVE  Cardinality(Places(kind, x)) = IF x \in seen[kind] \ Stuck(kind) THEN 1 ELSE 0
  <2>1. Once(kind, x)
    BY DEF PendingInv
  <2> QED BY <2>1, FS_Singleton, FS_EmptySet DEF Once, Pending
<1> QED BY <1>1, <1>2 DEF QueuesInOrder, EachPendingOnce

(* What it says of the supplies.                                           *)
LEMMA IInvSeeds == IInv => SeedBound
<1> SUFFICES ASSUME IInv, NEW t \in Tokens
             PROVE  seeds[t] <= (1 + zeroed[t]) * (1 + Cardinality(Requests))
  BY DEF SeedBound
<1>1. Cardinality(Requests) \in Nat
  BY FinderAssumption, FS_CardinalityType
<1>2. Cardinality(Armed(t)) \in Nat
  BY ArmedBound DEF IInv
<1>3. seeds[t] \in Nat /\ zeroed[t] \in Nat
  BY DEF IInv, Types, TableTypes
<1>. PICK a, c, s, z : a = AtOnce /\ c = Cardinality(Armed(t)) /\ s = seeds[t] /\ z = zeroed[t]
  OBVIOUS
<1>4. a \in Nat /\ c \in Nat /\ s \in Nat /\ z \in Nat /\ a = 1 + Cardinality(Requests)
  BY <1>1, <1>2, <1>3 DEF AtOnce
<1>5. s <= z * a \/ s + c <= (1 + z) * a
  BY DEF IInv, SeedInv, SeedAt
<1>6. z * a \in Nat /\ (1 + z) * a = z * a + a
  BY ONLY <1>4
<1>7. s <= (1 + z) * a
  BY ONLY <1>4, <1>5, <1>6
<1> QED BY <1>4, <1>7

(* The inductive invariant holds throughout.                               *)
LEMMA AlwaysIInv == Spec => []IInv
  BY InitIInv, NextIInv, PTL DEF Spec

(* For any number of concurrent calls of AddToQueue and of workers, and    *)
(* whatever the capacity: what processor.seen holds and what is under way  *)
(* agree, an item is never under way twice, and the one exception are the  *)
(* pairs a full queue refused.                                             *)
THEOREM QueuesStayInOrder == Spec => []QueuesInOrder
  BY AlwaysIInv, IInvQueues, PTL

(* A supply of 0 is filled in from the node at most once by the workers    *)
(* and once by each handler the API runs at the same time.                 *)
THEOREM SeedsStayBounded == Spec => []SeedBound
  BY AlwaysIInv, IInvSeeds, PTL

(* No step loses a name from the token table, and the caches of both       *)
(* processes answer with names the table has.                              *)
THEOREM NamesStayKept == Spec => NamesKept
<1>1. IInv /\ [Next]_vars => [/\ CacheHoldsNames'
                              /\ \A t \in Tokens : name[t] = "named" => name'[t] = "named"]_vars
  <2> SUFFICES ASSUME IInv, [Next]_vars
               PROVE  CacheHoldsNames' /\ \A t \in Tokens : name[t] = "named" => name'[t] = "named"
    OBVIOUS
  <2> QED BY CacheStep, NamesOnlyGained DEF IInv
<1> QED BY <1>1, AlwaysIInv, PTL DEF Spec, NamesKept
=============================================================================
