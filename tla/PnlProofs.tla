------------------------------ MODULE PnlProofs ------------------------------
(***************************************************************************)
(* Proofs about Pnl, for any wallet, any number of tokens, any capacity of *)
(* sem and any size of a page: the goroutines, channel, WaitGroup and      *)
(* mutexes bring all of the tokens into the answer, once, and the figures  *)
(* are those of the rows.  The first invariant, PnlInv, is about the       *)
(* goroutines; the second, FigureInv, about what they compute.             *)
(*                                                                         *)
(* At the end, proofs about PriceTracker, whose cache gives the prices.    *)
(***************************************************************************)
EXTENDS Pnl, PriceTracker, ListTheorems, FiniteSetTheorems, SequenceTheorems, TLAPS

Places == {"none", "price", "fetch", "trades", "load", "store", "calc", "append", "lock", "add",
           "exit", "left", "over"}

Active  == {t \in Tokens : g[t].pc \notin {"none", "left", "over"}}
Started == {t \in Tokens : g[t].pc \notin {"none", "over"}}

(* The tokens whose figures are in the answer.                             *)
Finished == {t \in Tokens : g[t].pc \in {"exit", "left", "over"} /\ Listed(t)}
Winners  == {t \in Finished : g[t].res.realized > 0}
Hits(t)  == {k \in 1..Len(results) : results[k].token = t}

IsWork(r) == r = [pc |-> r.pc, usd |-> r.usd, next |-> r.next, reg |-> r.reg, res |-> r.res,
                  snapshot |-> r.snapshot]
IsSeq(s) == s \in Seq({s[k] : k \in 1..Len(s)})

-----------------------------------------------------------------------------
(* The inductive invariant, in parts.                                      *)

(* What has a type.                                                        *)
Types == /\ handler \in Handlers /\ pc \in {"spawn", "wait", "done"}
         /\ rows \in Inputs
         /\ todo \subseteq Tokens
         /\ mu \in Tokens \union {""}
         /\ priceCache \in Prices \union {0}
         /\ counts \in [{"BUY", "SELL"} -> Nat]
         /\ IsSeq(results) /\ \A k \in 1..Len(results) : results[k].token \in Tokens
         /\ g = [t \in Tokens |-> g[t]]

(* Where a goroutine can be, and what it knows there: a price once it has  *)
(* passed the cache, trades once it calculates.                            *)
WorkOf(r, h, s) ==
    /\ IsWork(r)
    /\ r.pc \in Places
    /\ r.reg \in Nat
    /\ r.pc \in {"none", "price", "fetch"} => r.usd = 0
    /\ r.pc \in {"trades", "load", "store", "calc", "append", "lock", "add"} => r.usd # 0
    /\ r.pc \in {"calc", "append", "lock", "add"} => HasTrade(s)
    /\ r.pc \in {"load", "store", "lock", "add"} => h = "aggregated"
    /\ r.pc = "append" => h = "token"
WorkInv == \A t \in Tokens : WorkOf(g[t], handler, Group(t))

(* The loop has started what is neither in todo nor without rows.          *)
LoopInv ==
    /\ \A t \in Tokens : g[t].pc = "none" <=> (handler = "holdings" \/ t \notin Grouped \/ t \in todo)
    /\ todo \subseteq Grouped
    /\ todo # {} => IF handler = "holdings" THEN pc = "done" ELSE pc = "spawn"
    /\ pc = "done" => wg = 0

(* sem and wg count the goroutines.                                        *)
CountInv == /\ sem = Cardinality(Active) /\ sem <= Limit
            /\ wg = Cardinality(Started)

(* Who adds holds mu and has seen the current totals, and who asks for a   *)
(* price in TokenPnlHandler holds mu.                                      *)
LockInv == \A t \in Tokens :
               /\ g[t].pc = "add" => mu = t /\ g[t].snapshot = totals
               /\ g[t].pc = "fetch" /\ handler = "token" => mu = t

(* What AggregatedPnlHandler has added up so far.                          *)
TotalInv == handler = "aggregated" =>
                /\ totals.wins = Cardinality(Winners)
                /\ totals.pairs = {Group(t)[1].pair : t \in Finished}

(* What TokenPnlHandler has appended so far, and its order in the end.     *)
ResultInv ==
    handler = "token" =>
        /\ \A t \in Tokens : Hits(t) # {} <=> t \in Finished
        /\ \A j, k \in 1..Len(results) : j # k => results[j].token # results[k].token
        /\ pc = "done" => \A j, k \in 1..Len(results) :
                              j < k => Rank[results[j].token] <= Rank[results[k].token]

PnlInv == Types /\ WorkInv /\ LoopInv /\ CountInv /\ LockInv /\ TotalInv /\ ResultInv

-----------------------------------------------------------------------------
(* Lemmas about records and groups.                                        *)

(* The rows of a wallet are rows, and their tokens are tokens.             *)
LEMMA WalletRows ==
    ASSUME rows \in Inputs
    PROVE  rows \in Seq(RowType) /\ Grouped \subseteq Tokens
<1>1. rows \in Seq(RowType)
  BY PnlAssumption
<1>2. \A k \in 1..Len(rows) : rows[k] \in RowType
  BY <1>1
<1>3. \A r \in RowType : r.token \in Tokens
  BY DEF RowType
<1> QED BY <1>1, <1>2, <1>3 DEF Grouped

(* Every token has a rank of its own.                                      *)
LEMMA RankFacts ==
    /\ Cardinality(Tokens) \in Nat
    /\ Rank \in [Tokens -> 1..Cardinality(Tokens)]
    /\ \A t, u \in Tokens : Rank[t] = Rank[u] => t = u
    /\ \A k \in 1..Cardinality(Tokens) : \E t \in Tokens : Rank[t] = k
<1>1. IsFiniteSet(Tokens) /\ Rank \in Bijection(Tokens, 1..Cardinality(Tokens))
  BY PnlAssumption
<1>2. Cardinality(Tokens) \in Nat
  BY <1>1, FS_CardinalityType
<1> QED BY <1>1, <1>2 DEF Bijection, Injection, Surjection, IsInjective

(* A goroutine that is somewhere else keeps the rest of its record.        *)
LEMMA GotoRecord ==
    ASSUME NEW r, IsWork(r), NEW where, NEW z, z = [r EXCEPT !.pc = where]
    PROVE  /\ IsWork(z) /\ z.pc = where
           /\ z.usd = r.usd /\ z.next = r.next /\ z.reg = r.reg /\ z.res = r.res
           /\ z.snapshot = r.snapshot
BY DEF IsWork

(* The goroutine of one token has moved, the others have not.              *)
LEMMA OneMoves ==
    ASSUME Types, NEW t \in Tokens, NEW r, g' = [g EXCEPT ![t] = r]
    PROVE  /\ g' = [u \in Tokens |-> g'[u]]
           /\ g'[t] = r
           /\ \A u \in Tokens \ {t} : g'[u] = g[u]
BY DEF Types

(* Group by group nothing changes while the rows stay.                     *)
LEMMA SameGroups ==
    ASSUME rows' = rows
    PROVE  /\ \A t : Group(t)' = Group(t)
           /\ Grouped' = Grouped
BY DEF Group, Grouped

(* A goroutine that works and goes on working changes no counter.          *)
LEMMA StaysAtWork ==
    ASSUME Types, WorkInv, LoopInv, CountInv, UNCHANGED <<handler, rows, pc, todo, sem, wg>>,
           NEW t \in Tokens, NEW r, g' = [g EXCEPT ![t] = r],
           g[t].pc \notin {"none", "left", "over"}, r.pc \notin {"none", "left", "over"},
           WorkOf(r, handler, Group(t))
    PROVE  WorkInv' /\ LoopInv' /\ CountInv'
<1>1. /\ g'[t] = r
      /\ \A u \in Tokens \ {t} : g'[u] = g[u]
  BY OneMoves
<1>2. (\A u : Group(u)' = Group(u)) /\ Grouped' = Grouped
  BY SameGroups
<1>3. WorkInv'
  <2> SUFFICES ASSUME NEW u \in Tokens
               PROVE  WorkOf(g'[u], handler', Group(u)')
    BY DEF WorkInv
  <2>1. CASE u = t
    BY <2>1, <1>1, <1>2
  <2>2. CASE u # t
    BY <2>2, <1>1, <1>2 DEF WorkInv
  <2> QED BY <2>1, <2>2
<1>4. LoopInv'
  BY <1>1, <1>2 DEF LoopInv
<1>5. Active' = Active /\ Started' = Started
  BY <1>1 DEF Active, Started
<1>6. CountInv'
  BY <1>5 DEF CountInv
<1> QED BY <1>3, <1>4, <1>6

(* A goroutine that does not come to the end of its work, or has nothing   *)
(* for the answer, changes nothing in it.                                  *)
LEMMA NothingToAdd ==
    ASSUME Types, TotalInv, ResultInv, UNCHANGED <<handler, rows, pc, totals, results>>,
           NEW t \in Tokens, NEW r, g' = [g EXCEPT ![t] = r],
           g[t].pc \notin {"exit", "left", "over"},
           r.pc \in {"exit", "left", "over"} => ~HasTrade(Group(t)) \/ r.usd = 0
    PROVE  TotalInv' /\ ResultInv'
<1>1. /\ g'[t] = r
      /\ \A u \in Tokens \ {t} : g'[u] = g[u]
  BY OneMoves
<1>2. (\A u : Group(u)' = Group(u)) /\ Grouped' = Grouped
  BY SameGroups
<1>3. Finished' = Finished /\ t \notin Finished
  BY <1>1, <1>2 DEF Finished, Listed
<1>4. Winners' = Winners
  BY <1>1, <1>3 DEF Winners, Finished
<1>5. TotalInv'
  BY <1>2, <1>3, <1>4 DEF TotalInv
<1>6. ResultInv'
  BY <1>3 DEF ResultInv, Hits
<1> QED BY <1>5, <1>6

(* A goroutine on its way out leaves the answer as it is.                  *)
LEMMA OnItsWayOut ==
    ASSUME Types, TotalInv, ResultInv, UNCHANGED <<handler, rows, pc, totals, results>>,
           NEW t \in Tokens, NEW r, g' = [g EXCEPT ![t] = r],
           g[t].pc \in {"exit", "left", "over"}, r.pc \in {"exit", "left", "over"},
           r.usd = g[t].usd, r.res = g[t].res
    PROVE  TotalInv' /\ ResultInv'
<1>1. /\ g'[t] = r
      /\ \A u \in Tokens \ {t} : g'[u] = g[u]
  BY OneMoves
<1>2. (\A u : Group(u)' = Group(u)) /\ Grouped' = Grouped
  BY SameGroups
<1>3. Finished' = Finished
  BY <1>1, <1>2 DEF Finished, Listed
<1>4. Winners' = Winners
  BY <1>1, <1>3 DEF Winners
<1>5. TotalInv'
  BY <1>2, <1>3, <1>4 DEF TotalInv
<1>6. ResultInv'
  BY <1>3 DEF ResultInv, Hits
<1> QED BY <1>5, <1>6

(* Nobody else is adding while mu is free or held by t.                    *)
LEMMA LockKept ==
    ASSUME Types, LockInv, UNCHANGED <<handler>>, mu \in Tokens \union {""},
           NEW t \in Tokens, NEW r, g' = [g EXCEPT ![t] = r],
           \/ mu' = mu /\ totals' = totals
           \/ mu \in {"", t},
           r.pc = "add" => mu' = t /\ r.snapshot = totals',
           r.pc = "fetch" /\ handler = "token" => mu' = t
    PROVE  LockInv'
<1>1. /\ g'[t] = r
      /\ \A u \in Tokens \ {t} : g'[u] = g[u]
  BY OneMoves
<1>2. "" \notin Tokens
  BY PnlAssumption
<1> SUFFICES ASSUME NEW u \in Tokens
             PROVE  /\ g'[u].pc = "add" => mu' = u /\ g'[u].snapshot = totals'
                    /\ g'[u].pc = "fetch" /\ handler' = "token" => mu' = u
  BY DEF LockInv
<1>3. CASE u = t
  BY <1>1, <1>3
<1>4. CASE u # t
  BY <1>1, <1>2, <1>4 DEF LockInv
<1> QED BY <1>3, <1>4

(* Sets of goroutines are finite.                                          *)
LEMMA FiniteWork ==
    /\ IsFiniteSet(Active) /\ IsFiniteSet(Started) /\ IsFiniteSet(Winners)
    /\ Cardinality(Active) \in Nat /\ Cardinality(Started) \in Nat /\ Cardinality(Winners) \in Nat
    /\ Cardinality(Started) <= Cardinality(Tokens) /\ Cardinality(Tokens) \in Nat
<1>1. IsFiniteSet(Tokens)
  BY PnlAssumption
<1>2. Active \subseteq Tokens /\ Started \subseteq Tokens /\ Winners \subseteq Tokens
  BY DEF Active, Started, Winners, Finished
<1>3. IsFiniteSet(Active) /\ IsFiniteSet(Started) /\ IsFiniteSet(Winners)
  BY <1>1, <1>2, FS_Subset
<1> QED BY <1>1, <1>2, <1>3, FS_Subset, FS_CardinalityType

(* append leaves the earlier results where they are.                       *)
Extended(s, e, z) == /\ IsSeq(z) /\ Len(s) \in Nat /\ Len(z) = Len(s) + 1
                     /\ z[Len(s) + 1] = e
                     /\ \A k \in 1..Len(s) : z[k] = s[k]

(* append of Go, as TokenPnlHandler uses it on results.                    *)
LEMMA AppendExtends == \A s, e : IsSeq(s) => Extended(s, e, Append(s, e))
<1> SUFFICES ASSUME NEW s, IsSeq(s), NEW e
             PROVE  Extended(s, e, Append(s, e))
  OBVIOUS
<1> PICK z : z = Append(s, e)
  OBVIOUS
<1> PICK S : S = {s[k] : k \in 1..Len(s)}
  OBVIOUS
<1>1. s \in Seq(S \union {e})
  <2>1. s \in Seq(S)
    BY DEF IsSeq
  <2> QED BY <2>1
<1>2. /\ z \in Seq(S \union {e}) /\ Len(s) \in Nat /\ Len(z) = Len(s) + 1
      /\ z[Len(s) + 1] = e
      /\ \A k \in 1..Len(s) : z[k] = s[k]
  BY <1>1
<1>3. IsSeq(z)
  <2>1. \A k \in 1..Len(z) : z[k] \in {z[j] : j \in 1..Len(z)}
    OBVIOUS
  <2> QED BY <1>2, <2>1 DEF IsSeq
<1> QED BY <1>2, <1>3 DEF Extended

-----------------------------------------------------------------------------
(* One lemma per operation.                                                *)

(* Init.                                                                   *)
LEMMA PnlInvInit == Init => PnlInv
<1> SUFFICES ASSUME Init
             PROVE  PnlInv
  OBVIOUS
<1> USE DEF Init
<1>1. \A t \in Tokens : g[t] = NoWork
  OBVIOUS
<1>2. Grouped \subseteq Tokens
  BY WalletRows
<1>3. IsSeq(results) /\ 1..Len(results) = {}
  <2>1. results = <<>> /\ Len(results) = 0
    OBVIOUS
  <2>2. 1..Len(results) = {}
    BY ONLY <2>1
  <2>3. <<>> \in Seq({results[k] : k \in 1..Len(results)})
    BY ONLY EmptySeq
  <2> QED BY ONLY <2>1, <2>2, <2>3 DEF IsSeq
<1>4. Types
  <2>1. counts \in [{"BUY", "SELL"} -> Nat]
    OBVIOUS
  <2>2. g = [t \in Tokens |-> g[t]]
    OBVIOUS
  <2>3. todo \subseteq Tokens
    BY <1>2
  <2> QED BY <1>3, <2>1, <2>2, <2>3 DEF Types
<1>5. WorkInv
  BY <1>1 DEF WorkInv, WorkOf, IsWork, NoWork, Places
<1>6. LoopInv
  BY <1>1, <1>2 DEF LoopInv, NoWork
<1>7. Active = {} /\ Started = {} /\ Finished = {} /\ Winners = {}
  BY <1>1 DEF Active, Started, Finished, Winners, NoWork
<1>8. CountInv
  <2>1. Limit \in Nat /\ sem = 0 /\ wg = 0
    BY PnlAssumption
  <2> QED BY ONLY <2>1, <1>7, FS_EmptySet DEF CountInv
<1>9. LockInv
  BY <1>1 DEF LockInv, NoWork
<1>10. TotalInv
  BY <1>7, FS_EmptySet DEF TotalInv, ZeroTotals
<1>11. ResultInv
  BY <1>3, <1>7 DEF ResultInv, Hits
<1> QED BY <1>4, <1>5, <1>6, <1>8, <1>9, <1>10, <1>11 DEF PnlInv

(* The loop takes a place in sem and starts a goroutine.                   *)
LEMMA SpawnStep ==
    ASSUME PnlInv, NEW t \in Tokens, Spawn(t)
    PROVE  PnlInv'
<1> USE DEF PnlInv
<1>1. PICK r : r = [g[t] EXCEPT !.pc = "price"]
  OBVIOUS
<1>2. g' = [g EXCEPT ![t] = r]
  BY <1>1 DEF Spawn, Goto
<1>3. /\ g'[t] = r
      /\ \A u \in Tokens \ {t} : g'[u] = g[u]
      /\ g' = [u \in Tokens |-> g'[u]]
  BY <1>2, OneMoves
<1>4. (\A u : Group(u)' = Group(u)) /\ Grouped' = Grouped
  BY SameGroups DEF Spawn
<1>5. WorkOf(g[t], handler, Group(t)) /\ IsWork(g[t])
  BY DEF WorkInv, WorkOf
<1>6. /\ IsWork(r) /\ r.pc = "price" /\ r.usd = g[t].usd /\ r.reg = g[t].reg
  BY <1>1, <1>5, GotoRecord
<1>7. g[t].pc = "none"
  BY DEF Spawn, LoopInv
<1>8. Types'
  BY <1>3 DEF Types, Spawn, shared
<1>9. WorkOf(r, handler, Group(t))
  BY <1>5, <1>6, <1>7 DEF WorkOf, Places
<1>10. WorkInv'
  <2> SUFFICES ASSUME NEW u \in Tokens
               PROVE  WorkOf(g'[u], handler', Group(u)')
    BY DEF WorkInv
  <2>1. CASE u = t
    BY <2>1, <1>3, <1>4, <1>9 DEF Spawn
  <2>2. CASE u # t
    BY <2>2, <1>3, <1>4 DEF WorkInv, Spawn
  <2> QED BY <2>1, <2>2
<1>11. t \in Grouped /\ handler # "holdings"
  <2>1. t \in todo /\ pc = "spawn"
    BY DEF Spawn
  <2> QED BY <2>1 DEF LoopInv
<1>12. LoopInv'
  BY <1>3, <1>4, <1>6, <1>11 DEF LoopInv, Spawn
<1>13. Active' = Active \union {t} /\ t \notin Active /\ Started' = Started \union {t} /\ t \notin Started
  BY <1>3, <1>6, <1>7 DEF Active, Started
<1>14. /\ Cardinality(Active') = Cardinality(Active) + 1
       /\ Cardinality(Started') = Cardinality(Started) + 1
  BY <1>13, FiniteWork, FS_AddElement
<1>15. CountInv'
  <2>1. Limit \in Nat /\ sem < Limit /\ sem' = sem + 1 /\ wg' = wg + 1
    BY PnlAssumption DEF Spawn
  <2>2. /\ sem = Cardinality(Active) /\ sem \in Nat
        /\ wg = Cardinality(Started) /\ wg \in Nat
    BY FiniteWork DEF CountInv
  <2> QED BY ONLY <2>1, <2>2, <1>14 DEF CountInv
<1>16. LockInv'
  BY <1>2, <1>6, LockKept DEF Spawn, shared, Types
<1>17. TotalInv' /\ ResultInv'
  BY <1>2, <1>6, <1>7, NothingToAdd DEF Spawn, shared
<1> QED BY <1>8, <1>10, <1>12, <1>15, <1>16, <1>17

(* A step of a working goroutine that adds nothing to the answer.          *)
LEMMA WorkingStep ==
    ASSUME PnlInv, UNCHANGED <<handler, rows, pc, todo, sem, wg, totals, results>>,
           mu' \in Tokens \union {""}, priceCache' \in Prices \union {0},
           counts' \in [{"BUY", "SELL"} -> Nat],
           NEW t \in Tokens, NEW r, g' = [g EXCEPT ![t] = r],
           g[t].pc \notin {"none", "exit", "left", "over"}, r.pc \notin {"none", "left", "over"},
           WorkOf(r, handler, Group(t)),
           r.pc = "exit" => ~HasTrade(Group(t)) \/ r.usd = 0,
           mu' = mu \/ mu \in {"", t},
           r.pc = "add" => mu' = t /\ r.snapshot = totals,
           r.pc = "fetch" /\ handler = "token" => mu' = t
    PROVE  PnlInv'
<1> USE DEF PnlInv
<1>1. g' = [u \in Tokens |-> g'[u]]
  BY OneMoves
<1>2. Types'
  BY <1>1 DEF Types
<1>3. WorkInv' /\ LoopInv' /\ CountInv'
  BY StaysAtWork
<1>4. TotalInv' /\ ResultInv'
  BY NothingToAdd
<1>5. LockInv'
  BY LockKept DEF Types
<1> QED BY <1>2, <1>3, <1>4, <1>5

(* A goroutine finds the price in the cache, or is about to ask for it.    *)
LEMMA LookAtCacheStep ==
    ASSUME PnlInv, NEW t \in Tokens, LookAtCache(t)
    PROVE  PnlInv'
<1>1. /\ g[t].pc = "price" /\ mu = ""
      /\ UNCHANGED <<handler, rows, pc, todo, sem, wg, totals, results, priceCache, counts>>
  BY DEF LookAtCache, shared
<1>2. WorkOf(g[t], handler, Group(t)) /\ Types
  BY DEF PnlInv, WorkInv
<1>3. IsWork(g[t]) /\ g[t].usd = 0 /\ g[t].reg \in Nat
  BY <1>1, <1>2 DEF WorkOf
<1>4. /\ priceCache' \in Prices \union {0} /\ counts' \in [{"BUY", "SELL"} -> Nat]
  BY <1>1, <1>2 DEF Types
<1>5. CASE priceCache # 0
  <2>1. PICK r : r = [g[t] EXCEPT !.pc = "trades", !.usd = priceCache]
    OBVIOUS
  <2>2. g' = [g EXCEPT ![t] = r] /\ mu' = mu
    BY <1>5, <2>1 DEF LookAtCache
  <2>3. IsWork(r) /\ r.pc = "trades" /\ r.usd = priceCache /\ r.reg = g[t].reg
    BY <2>1, <1>3 DEF IsWork
  <2>4. WorkOf(r, handler, Group(t))
    BY <2>3, <1>3, <1>5 DEF WorkOf, Places
  <2> QED BY <1>1, <1>4, <2>2, <2>3, <2>4, WorkingStep
<1>6. CASE priceCache = 0
  <2>1. PICK r : r = [g[t] EXCEPT !.pc = "fetch"]
    OBVIOUS
  <2>2. g' = [g EXCEPT ![t] = r] /\ mu' = IF handler = "token" THEN t ELSE ""
    BY <1>6, <2>1 DEF LookAtCache, Goto
  <2>3. IsWork(r) /\ r.pc = "fetch" /\ r.usd = g[t].usd /\ r.reg = g[t].reg
    BY <2>1, <1>3, GotoRecord
  <2>4. WorkOf(r, handler, Group(t))
    BY <2>3, <1>3 DEF WorkOf, Places
  <2> QED BY <1>1, <1>4, <2>2, <2>3, <2>4, WorkingStep
<1> QED BY <1>5, <1>6

(* No price: the goroutine gives mu back and ends.                         *)
LEMMA FetchPriceFailsStep ==
    ASSUME PnlInv, NEW t \in Tokens, FetchPriceFails(t)
    PROVE  PnlInv'
<1>1. /\ g[t].pc = "fetch" /\ mu' = IF mu = t THEN "" ELSE mu
      /\ UNCHANGED <<handler, rows, pc, todo, sem, wg, totals, results, priceCache, counts>>
  BY DEF FetchPriceFails, shared
<1>2. WorkOf(g[t], handler, Group(t)) /\ Types
  BY DEF PnlInv, WorkInv
<1>3. IsWork(g[t]) /\ g[t].usd = 0 /\ g[t].reg \in Nat
  BY <1>1, <1>2 DEF WorkOf
<1>4. /\ priceCache' \in Prices \union {0} /\ counts' \in [{"BUY", "SELL"} -> Nat]
      /\ mu' \in Tokens \union {""}
  BY <1>1, <1>2 DEF Types
<1>5. PICK r : r = [g[t] EXCEPT !.pc = "exit"]
  OBVIOUS
<1>6. g' = [g EXCEPT ![t] = r]
  BY <1>5 DEF FetchPriceFails, Goto
<1>7. IsWork(r) /\ r.pc = "exit" /\ r.usd = 0 /\ r.reg = g[t].reg
  BY <1>5, <1>3, GotoRecord
<1>8. WorkOf(r, handler, Group(t))
  BY <1>3, <1>7 DEF WorkOf, Places
<1> QED BY <1>1, <1>4, <1>6, <1>7, <1>8, WorkingStep

(* The price goes into the cache.                                          *)
LEMMA FetchPriceStep ==
    ASSUME PnlInv, NEW t \in Tokens, FetchPrice(t)
    PROVE  PnlInv'
<1>1. /\ g[t].pc = "fetch" /\ mu \in {"", t} /\ mu' = ""
      /\ UNCHANGED <<handler, rows, pc, todo, sem, wg, totals, results, counts>>
  BY DEF FetchPrice
<1>2. PICK p \in Prices \ {0} :
          /\ priceCache' = p
          /\ g' = [g EXCEPT ![t] = [@ EXCEPT !.pc = "trades", !.usd = p]]
  BY DEF FetchPrice
<1>3. WorkOf(g[t], handler, Group(t)) /\ Types
  BY DEF PnlInv, WorkInv
<1>4. IsWork(g[t]) /\ g[t].reg \in Nat
  BY <1>3 DEF WorkOf
<1>5. /\ priceCache' \in Prices \union {0} /\ counts' \in [{"BUY", "SELL"} -> Nat]
  BY <1>1, <1>2, <1>3 DEF Types
<1>6. PICK r : r = [g[t] EXCEPT !.pc = "trades", !.usd = p]
  OBVIOUS
<1>7. g' = [g EXCEPT ![t] = r]
  BY <1>2, <1>6
<1>8. IsWork(r) /\ r.pc = "trades" /\ r.usd = p /\ r.reg = g[t].reg
  BY <1>4, <1>6 DEF IsWork
<1>9. WorkOf(r, handler, Group(t))
  BY <1>4, <1>8 DEF WorkOf, Places
<1> QED BY <1>1, <1>5, <1>7, <1>8, <1>9, WorkingStep

(* A goroutine knows what to calculate, or that there is nothing.          *)
LEMMA LookForTradesStep ==
    ASSUME PnlInv, NEW t \in Tokens, LookForTrades(t)
    PROVE  PnlInv'
<1>1. /\ g[t].pc = "trades" /\ mu' = mu
      /\ UNCHANGED <<handler, rows, pc, todo, sem, wg, totals, results, priceCache, counts>>
  BY DEF LookForTrades, shared
<1>2. WorkOf(g[t], handler, Group(t)) /\ Types
  BY DEF PnlInv, WorkInv
<1>3. IsWork(g[t]) /\ g[t].usd # 0 /\ g[t].reg \in Nat
  BY <1>1, <1>2 DEF WorkOf
<1>4. /\ priceCache' \in Prices \union {0} /\ counts' \in [{"BUY", "SELL"} -> Nat]
      /\ mu' \in Tokens \union {""}
  BY <1>1, <1>2 DEF Types
<1>5. PICK where, r : /\ where = (IF handler = "aggregated" THEN "load"
                                  ELSE IF HasTrade(Group(t)) THEN "calc" ELSE "exit")
                      /\ r = [g[t] EXCEPT !.pc = where]
  OBVIOUS
<1>6. g' = [g EXCEPT ![t] = r]
  BY <1>5 DEF LookForTrades, Goto
<1>7. IsWork(r) /\ r.pc = where /\ r.usd = g[t].usd /\ r.reg = g[t].reg
  BY <1>5, <1>3, GotoRecord
<1>8. /\ where \in {"load", "calc", "exit"}
      /\ where = "load" => handler = "aggregated"
      /\ where = "calc" => HasTrade(Group(t))
      /\ where = "exit" => ~HasTrade(Group(t))
  BY <1>5
<1>9. WorkOf(r, handler, Group(t))
  BY <1>3, <1>7, <1>8 DEF WorkOf, Places
<1> QED BY <1>1, <1>4, <1>6, <1>7, <1>8, <1>9, WorkingStep

(* The counting loop reads a counter, passes over a row or ends.           *)
LEMMA LoadCountStep ==
    ASSUME PnlInv, NEW t \in Tokens, LoadCount(t)
    PROVE  PnlInv'
<1>1. /\ g[t].pc = "load" /\ mu' = mu
      /\ UNCHANGED <<handler, rows, pc, todo, sem, wg, totals, results, priceCache, counts>>
  BY DEF LoadCount, shared
<1>2. WorkOf(g[t], handler, Group(t)) /\ Types
  BY DEF PnlInv, WorkInv
<1>3. IsWork(g[t]) /\ g[t].usd # 0 /\ g[t].reg \in Nat /\ handler = "aggregated"
  BY <1>1, <1>2 DEF WorkOf
<1>4. /\ priceCache' \in Prices \union {0} /\ counts' \in [{"BUY", "SELL"} -> Nat]
      /\ mu' \in Tokens \union {""}
  BY <1>1, <1>2 DEF Types
<1>5. CASE g[t].next > Len(Group(t))
  <2>1. PICK where, r : /\ where = (IF HasTrade(Group(t)) THEN "calc" ELSE "exit")
                        /\ r = [g[t] EXCEPT !.pc = where]
    OBVIOUS
  <2>2. g' = [g EXCEPT ![t] = r]
    BY <1>5, <2>1 DEF LoadCount, Goto
  <2>3. IsWork(r) /\ r.pc = where /\ r.usd = g[t].usd /\ r.reg = g[t].reg
    BY <2>1, <1>3, GotoRecord
  <2>4. /\ where \in {"calc", "exit"}
        /\ where = "calc" => HasTrade(Group(t))
        /\ where = "exit" => ~HasTrade(Group(t))
    BY <2>1
  <2>5. WorkOf(r, handler, Group(t))
    BY <1>3, <2>3, <2>4 DEF WorkOf, Places
  <2> QED BY <1>1, <1>4, <2>2, <2>3, <2>4, <2>5, WorkingStep
<1>6. CASE ~(g[t].next > Len(Group(t)))
  <2>1. PICK row : row = Group(t)[g[t].next]
    OBVIOUS
  <2>2. CASE IsTrade(row)
    <3>1. PICK r : r = [g[t] EXCEPT !.pc = "store", !.reg = counts[row.action]]
      OBVIOUS
    <3>2. g' = [g EXCEPT ![t] = r]
      BY <1>6, <2>1, <2>2, <3>1 DEF LoadCount
    <3>3. counts[row.action] \in Nat
      BY <1>2, <2>2 DEF Types, IsTrade
    <3>4. IsWork(r) /\ r.pc = "store" /\ r.usd = g[t].usd /\ r.reg = counts[row.action]
      BY <1>3, <3>1 DEF IsWork
    <3>5. WorkOf(r, handler, Group(t))
      BY <1>3, <3>3, <3>4 DEF WorkOf, Places
    <3> QED BY <1>1, <1>4, <3>2, <3>4, <3>5, WorkingStep
  <2>3. CASE ~IsTrade(row)
    <3>1. PICK r : r = [g[t] EXCEPT !.next = g[t].next + 1]
      OBVIOUS
    <3>2. g' = [g EXCEPT ![t] = r]
      BY <1>6, <2>1, <2>3, <3>1 DEF LoadCount
    <3>3. IsWork(r) /\ r.pc = "load" /\ r.usd = g[t].usd /\ r.reg = g[t].reg
      BY <1>1, <1>3, <3>1 DEF IsWork
    <3>4. WorkOf(r, handler, Group(t))
      BY <1>3, <3>3 DEF WorkOf, Places
    <3> QED BY <1>1, <1>4, <3>2, <3>3, <3>4, WorkingStep
  <2> QED BY <2>2, <2>3
<1> QED BY <1>5, <1>6

(* The counter is written.                                                 *)
LEMMA StoreCountStep ==
    ASSUME PnlInv, NEW t \in Tokens, StoreCount(t)
    PROVE  PnlInv'
<1>1. /\ g[t].pc = "store" /\ mu' = mu
      /\ UNCHANGED <<handler, rows, pc, todo, sem, wg, totals, results, priceCache>>
  BY DEF StoreCount
<1>2. WorkOf(g[t], handler, Group(t)) /\ Types
  BY DEF PnlInv, WorkInv
<1>3. IsWork(g[t]) /\ g[t].usd # 0 /\ g[t].reg \in Nat /\ handler = "aggregated"
  BY <1>1, <1>2 DEF WorkOf
<1>4. counts' \in [{"BUY", "SELL"} -> Nat]
  <2>1. PICK a : counts' = [counts EXCEPT ![a] = g[t].reg + 1]
    BY DEF StoreCount
  <2>2. g[t].reg + 1 \in Nat
    BY <1>3
  <2> QED BY <1>2, <2>1, <2>2 DEF Types
<1>5. /\ priceCache' \in Prices \union {0} /\ mu' \in Tokens \union {""}
  BY <1>1, <1>2 DEF Types
<1>6. PICK r : r = [g[t] EXCEPT !.pc = "load", !.next = g[t].next + 1]
  OBVIOUS
<1>7. g' = [g EXCEPT ![t] = r]
  BY <1>6 DEF StoreCount
<1>8. IsWork(r) /\ r.pc = "load" /\ r.usd = g[t].usd /\ r.reg = g[t].reg
  BY <1>3, <1>6 DEF IsWork
<1>9. WorkOf(r, handler, Group(t))
  BY <1>3, <1>8 DEF WorkOf, Places
<1> QED BY <1>1, <1>4, <1>5, <1>7, <1>8, <1>9, WorkingStep

(* The figures of a token, whatever they are.                              *)
LEMMA CalculateStep ==
    ASSUME PnlInv, NEW t \in Tokens, Calculate(t)
    PROVE  PnlInv'
<1>1. /\ g[t].pc = "calc" /\ mu' = mu
      /\ UNCHANGED <<handler, rows, pc, todo, sem, wg, totals, results, priceCache, counts>>
  BY DEF Calculate, shared
<1>2. WorkOf(g[t], handler, Group(t)) /\ Types
  BY DEF PnlInv, WorkInv
<1>3. IsWork(g[t]) /\ g[t].usd # 0 /\ g[t].reg \in Nat /\ HasTrade(Group(t))
  BY <1>1, <1>2 DEF WorkOf
<1>4. /\ priceCache' \in Prices \union {0} /\ counts' \in [{"BUY", "SELL"} -> Nat]
      /\ mu' \in Tokens \union {""}
  BY <1>1, <1>2 DEF Types
<1>5. PICK where : where = IF handler = "token" THEN "append" ELSE "lock"
  OBVIOUS
<1>6. PICK res : g' = [g EXCEPT ![t] = [@ EXCEPT !.pc = where, !.res = res]]
  BY <1>5 DEF Calculate
<1>7. PICK r : r = [g[t] EXCEPT !.pc = where, !.res = res]
  OBVIOUS
<1>8. g' = [g EXCEPT ![t] = r]
  BY <1>6, <1>7
<1>9. IsWork(r) /\ r.pc = where /\ r.usd = g[t].usd /\ r.reg = g[t].reg
  BY <1>3, <1>7 DEF IsWork
<1>10. handler # "holdings"
  BY <1>1 DEF PnlInv, LoopInv
<1>11. /\ where \in {"append", "lock"}
       /\ where = "append" => handler = "token"
       /\ where = "lock" => handler = "aggregated"
  BY <1>2, <1>5, <1>10 DEF Types, Handlers
<1>12. WorkOf(r, handler, Group(t))
  BY <1>3, <1>9, <1>11 DEF WorkOf, Places
<1> QED BY <1>1, <1>4, <1>8, <1>9, <1>11, <1>12, WorkingStep

(* mu is taken for the totals.                                             *)
LEMMA LockStep ==
    ASSUME PnlInv, NEW t \in Tokens, Lock(t)
    PROVE  PnlInv'
<1>1. /\ g[t].pc = "lock" /\ mu = "" /\ mu' = t
      /\ UNCHANGED <<handler, rows, pc, todo, sem, wg, totals, results, priceCache, counts>>
  BY DEF Lock, shared
<1>2. WorkOf(g[t], handler, Group(t)) /\ Types
  BY DEF PnlInv, WorkInv
<1>3. IsWork(g[t]) /\ g[t].usd # 0 /\ g[t].reg \in Nat /\ HasTrade(Group(t)) /\ handler = "aggregated"
  BY <1>1, <1>2 DEF WorkOf
<1>4. /\ priceCache' \in Prices \union {0} /\ counts' \in [{"BUY", "SELL"} -> Nat]
  BY <1>1, <1>2 DEF Types
<1>5. PICK r : r = [g[t] EXCEPT !.pc = "add", !.snapshot = totals]
  OBVIOUS
<1>6. g' = [g EXCEPT ![t] = r]
  BY <1>5 DEF Lock
<1>7. IsWork(r) /\ r.pc = "add" /\ r.usd = g[t].usd /\ r.reg = g[t].reg /\ r.snapshot = totals
  BY <1>3, <1>5 DEF IsWork
<1>8. WorkOf(r, handler, Group(t))
  BY <1>3, <1>7 DEF WorkOf, Places
<1> QED BY <1>1, <1>4, <1>6, <1>7, <1>8, WorkingStep

(* The figures of a token are added: with mu held, to the current totals.  *)
LEMMA AddTotalsStep ==
    ASSUME PnlInv, NEW t \in Tokens, AddTotals(t)
    PROVE  PnlInv'
<1> USE DEF PnlInv
<1>1. /\ g[t].pc = "add" /\ mu' = IF mu = t THEN "" ELSE mu
      /\ totals' = Plus(g[t].snapshot, g[t].res, Group(t)[1].pair)
      /\ UNCHANGED <<handler, rows, pc, todo, sem, wg, results, priceCache, counts>>
  BY DEF AddTotals
<1>2. WorkOf(g[t], handler, Group(t))
  BY DEF WorkInv
<1>3. IsWork(g[t]) /\ g[t].usd # 0 /\ g[t].reg \in Nat /\ HasTrade(Group(t)) /\ handler = "aggregated"
  BY <1>1, <1>2 DEF WorkOf
<1>4. mu = t /\ g[t].snapshot = totals /\ mu' = ""
  BY <1>1 DEF LockInv
<1>5. PICK r : r = [g[t] EXCEPT !.pc = "exit"]
  OBVIOUS
<1>6. g' = [g EXCEPT ![t] = r]
  BY <1>5 DEF AddTotals, Goto
<1>7. IsWork(r) /\ r.pc = "exit" /\ r.usd = g[t].usd /\ r.reg = g[t].reg /\ r.res = g[t].res
  BY <1>5, <1>3, GotoRecord
<1>8. WorkOf(r, handler, Group(t))
  BY <1>3, <1>7 DEF WorkOf, Places
<1>9. /\ g'[t] = r
      /\ \A u \in Tokens \ {t} : g'[u] = g[u]
      /\ g' = [u \in Tokens |-> g'[u]]
  BY <1>6, OneMoves
<1>10. \A u : Group(u)' = Group(u)
  BY <1>1, SameGroups
<1>11. Types'
  BY <1>1, <1>4, <1>9 DEF Types
<1>12. WorkInv' /\ LoopInv' /\ CountInv'
  BY <1>1, <1>6, <1>7, <1>8, StaysAtWork
<1>13. LockInv'
  BY <1>1, <1>4, <1>6, <1>7, LockKept DEF Types
<1>14. Finished' = Finished \union {t} /\ t \notin Finished
  BY <1>1, <1>3, <1>7, <1>9, <1>10 DEF Finished, Listed
<1>15. Winners' = (IF g[t].res.realized > 0 THEN Winners \union {t} ELSE Winners) /\ t \notin Winners
  BY <1>7, <1>9, <1>14 DEF Winners, Finished
<1>16. totals.wins = Cardinality(Winners) /\ totals.pairs = {Group(u)[1].pair : u \in Finished}
  BY <1>3 DEF TotalInv
<1>17. /\ totals'.wins = totals.wins + (IF g[t].res.realized > 0 THEN 1 ELSE 0)
       /\ totals'.pairs = totals.pairs \union {Group(t)[1].pair}
  BY <1>1, <1>4 DEF Plus
<1>18. totals'.wins = Cardinality(Winners')
  <2>1. CASE g[t].res.realized > 0
    <3>1. Cardinality(Winners \union {t}) = Cardinality(Winners) + 1
      BY <1>15, FiniteWork, FS_AddElement
    <3> QED BY <1>15, <1>16, <1>17, <2>1, <3>1
  <2>2. CASE ~(g[t].res.realized > 0)
    BY <1>15, <1>16, <1>17, <2>2, FiniteWork
  <2> QED BY <2>1, <2>2
<1>19. totals'.pairs = {Group(u)[1].pair : u \in Finished}'
  BY <1>10, <1>14, <1>16, <1>17
<1>20. TotalInv'
  BY <1>18, <1>19 DEF TotalInv
<1>21. ResultInv'
  BY <1>1, <1>3 DEF ResultInv
<1> QED BY <1>11, <1>12, <1>13, <1>20, <1>21

(* A result is appended.                                                   *)
LEMMA AppendResultStep ==
    ASSUME PnlInv, NEW t \in Tokens, AppendResult(t)
    PROVE  PnlInv'
<1> USE DEF PnlInv
<1>1. /\ g[t].pc = "append" /\ results' = Append(results, [token |-> t, pnl |-> g[t].res])
      /\ UNCHANGED <<handler, rows, pc, todo, sem, wg, mu, priceCache, counts, totals>>
  BY DEF AppendResult
<1>2. WorkOf(g[t], handler, Group(t))
  BY DEF WorkInv
<1>3. IsWork(g[t]) /\ g[t].usd # 0 /\ g[t].reg \in Nat /\ HasTrade(Group(t)) /\ handler = "token"
  BY <1>1, <1>2 DEF WorkOf
<1>4. PICK r : r = [g[t] EXCEPT !.pc = "exit"]
  OBVIOUS
<1>5. g' = [g EXCEPT ![t] = r]
  BY <1>4 DEF AppendResult, Goto
<1>6. IsWork(r) /\ r.pc = "exit" /\ r.usd = g[t].usd /\ r.reg = g[t].reg /\ r.res = g[t].res
  BY <1>3, <1>4, GotoRecord
<1>7. WorkOf(r, handler, Group(t))
  BY <1>3, <1>6 DEF WorkOf, Places
<1>8. /\ g'[t] = r
      /\ \A u \in Tokens \ {t} : g'[u] = g[u]
      /\ g' = [u \in Tokens |-> g'[u]]
  BY <1>5, OneMoves
<1>9. \A u : Group(u)' = Group(u)
  BY <1>1, SameGroups
<1>10. PICK n : n = Len(results)
  OBVIOUS
<1>11. /\ IsSeq(results') /\ n \in Nat /\ Len(results') = n + 1
       /\ results'[n + 1] = [token |-> t, pnl |-> g[t].res]
       /\ \A k \in 1..n : results'[k] = results[k]
  <2>1. IsSeq(results)
    BY DEF Types
  <2>2. PICK e, z : e = [token |-> t, pnl |-> g[t].res] /\ z = results'
    OBVIOUS
  <2>3. Extended(results, e, Append(results, e))
    BY <2>1, AppendExtends
  <2>4. Append(results, e) = z
    BY <1>1, <2>2
  <2>5. Extended(results, e, z)
    BY <2>3, <2>4, Zenon
  <2> QED BY ONLY <1>10, <2>2, <2>5 DEF Extended
<1>12. /\ results'[n + 1].token = t
       /\ \A k \in 1..(n + 1) : k = n + 1 \/ (k \in 1..n /\ results'[k] = results[k])
       /\ \A k \in 1..n : k \in 1..(n + 1)
       /\ n + 1 \in 1..(n + 1) /\ n + 1 \notin 1..n
  BY <1>11
<1>13. Types'
  <2>1. \A k \in 1..Len(results') : results'[k].token \in Tokens
    BY <1>10, <1>11, <1>12 DEF Types
  <2> QED BY <1>1, <1>8, <1>11, <2>1 DEF Types
<1>14. WorkInv' /\ LoopInv' /\ CountInv'
  BY <1>1, <1>5, <1>6, <1>7, StaysAtWork
<1>15. LockInv'
  BY <1>1, <1>5, <1>6, LockKept DEF Types
<1>16. Finished' = Finished \union {t} /\ t \notin Finished
  BY <1>1, <1>3, <1>6, <1>8, <1>9 DEF Finished, Listed
<1>17. TotalInv'
  BY <1>1, <1>3 DEF TotalInv
<1>18. pc # "done"
  <2>1. t \in Started
    BY <1>1 DEF Started
  <2>2. Cardinality(Started) # 0
    BY <2>1, FiniteWork, FS_EmptySet
  <2> QED BY <2>2 DEF LoopInv, CountInv
<1>19. /\ \A u \in Tokens : (\E k \in 1..n : results[k].token = u) <=> u \in Finished
       /\ \A j, k \in 1..n : j # k => results[j].token # results[k].token
  BY <1>3, <1>10 DEF ResultInv, Hits
<1>20. \A u \in Tokens : (\E k \in 1..(n + 1) : results'[k].token = u) <=> u \in Finished'
  BY <1>12, <1>16, <1>19
<1>21. \A j, k \in 1..(n + 1) : j # k => results'[j].token # results'[k].token
  BY <1>12, <1>16, <1>19
<1>22. ResultInv'
  BY <1>1, <1>11, <1>18, <1>20, <1>21 DEF ResultInv, Hits
<1> QED BY <1>13, <1>14, <1>15, <1>17, <1>22

(* A goroutine leaves sem.                                                 *)
LEMMA LeaveSemStep ==
    ASSUME PnlInv, NEW t \in Tokens, LeaveSem(t)
    PROVE  PnlInv'
<1> USE DEF PnlInv
<1>1. /\ g[t].pc = "exit" /\ sem' = sem - 1
      /\ UNCHANGED <<handler, rows, pc, todo, wg, mu, priceCache, counts, totals, results>>
  BY DEF LeaveSem, shared
<1>2. WorkOf(g[t], handler, Group(t)) /\ IsWork(g[t])
  BY DEF WorkInv, WorkOf
<1>3. PICK r : r = [g[t] EXCEPT !.pc = "left"]
  OBVIOUS
<1>4. g' = [g EXCEPT ![t] = r]
  BY <1>3 DEF LeaveSem, Goto
<1>5. IsWork(r) /\ r.pc = "left" /\ r.usd = g[t].usd /\ r.reg = g[t].reg /\ r.res = g[t].res
  BY <1>2, <1>3, GotoRecord
<1>6. WorkOf(r, handler, Group(t))
  BY <1>2, <1>5 DEF WorkOf, Places
<1>7. /\ g'[t] = r
      /\ \A u \in Tokens \ {t} : g'[u] = g[u]
      /\ g' = [u \in Tokens |-> g'[u]]
  BY <1>4, OneMoves
<1>8. (\A u : Group(u)' = Group(u)) /\ Grouped' = Grouped
  BY <1>1, SameGroups
<1>9. Types'
  BY <1>1, <1>7 DEF Types
<1>10. WorkInv'
  <2> SUFFICES ASSUME NEW u \in Tokens
               PROVE  WorkOf(g'[u], handler', Group(u)')
    BY DEF WorkInv
  <2>1. CASE u = t
    BY <2>1, <1>1, <1>6, <1>7, <1>8
  <2>2. CASE u # t
    BY <2>2, <1>1, <1>7, <1>8 DEF WorkInv
  <2> QED BY <2>1, <2>2
<1>11. LoopInv'
  BY <1>1, <1>5, <1>7, <1>8 DEF LoopInv
<1>12. CountInv'
  <2>1. Active' = Active \ {t} /\ t \in Active /\ Started' = Started
    BY <1>1, <1>5, <1>7 DEF Active, Started
  <2>2. Cardinality(Active') = Cardinality(Active) - 1
    BY <2>1, FiniteWork, FS_RemoveElement
  <2>3. Limit \in Nat /\ Cardinality(Active) \in Nat
    BY PnlAssumption, FiniteWork
  <2> QED BY <1>1, <2>1, <2>2, <2>3 DEF CountInv
<1>13. LockInv'
  BY <1>1, <1>4, <1>5, LockKept DEF Types
<1>14. TotalInv' /\ ResultInv'
  BY <1>1, <1>4, <1>5, OnItsWayOut
<1> QED BY <1>9, <1>10, <1>11, <1>12, <1>13, <1>14

(* A goroutine tells the WaitGroup that it is done.                        *)
LEMMA DoneStep ==
    ASSUME PnlInv, NEW t \in Tokens, Done(t)
    PROVE  PnlInv'
<1> USE DEF PnlInv
<1>1. /\ g[t].pc = "left" /\ wg' = wg - 1
      /\ UNCHANGED <<handler, rows, pc, todo, sem, mu, priceCache, counts, totals, results>>
  BY DEF Done, shared
<1>2. WorkOf(g[t], handler, Group(t)) /\ IsWork(g[t])
  BY DEF WorkInv, WorkOf
<1>3. PICK r : r = [g[t] EXCEPT !.pc = "over"]
  OBVIOUS
<1>4. g' = [g EXCEPT ![t] = r]
  BY <1>3 DEF Done, Goto
<1>5. IsWork(r) /\ r.pc = "over" /\ r.usd = g[t].usd /\ r.reg = g[t].reg /\ r.res = g[t].res
  BY <1>2, <1>3, GotoRecord
<1>6. WorkOf(r, handler, Group(t))
  BY <1>2, <1>5 DEF WorkOf, Places
<1>7. /\ g'[t] = r
      /\ \A u \in Tokens \ {t} : g'[u] = g[u]
      /\ g' = [u \in Tokens |-> g'[u]]
  BY <1>4, OneMoves
<1>8. (\A u : Group(u)' = Group(u)) /\ Grouped' = Grouped
  BY <1>1, SameGroups
<1>9. Types'
  BY <1>1, <1>7 DEF Types
<1>10. WorkInv'
  <2> SUFFICES ASSUME NEW u \in Tokens
               PROVE  WorkOf(g'[u], handler', Group(u)')
    BY DEF WorkInv
  <2>1. CASE u = t
    BY <2>1, <1>1, <1>6, <1>7, <1>8
  <2>2. CASE u # t
    BY <2>2, <1>1, <1>7, <1>8 DEF WorkInv
  <2> QED BY <2>1, <2>2
<1>11. Started' = Started \ {t} /\ t \in Started /\ Active' = Active
  BY <1>1, <1>5, <1>7 DEF Active, Started
<1>12. Cardinality(Started') = Cardinality(Started) - 1
  BY <1>11, FiniteWork, FS_RemoveElement
<1>13. Cardinality(Started) # 0
  BY <1>11, FiniteWork, FS_EmptySet
<1>14. LoopInv'
  <2>1. pc # "done"
    BY <1>13 DEF LoopInv, CountInv
  <2> QED BY <1>1, <1>5, <1>7, <1>8, <2>1 DEF LoopInv
<1>15. CountInv'
  BY <1>1, <1>11, <1>12 DEF CountInv
<1>16. LockInv'
  BY <1>1, <1>4, <1>5, LockKept DEF Types
<1>17. TotalInv' /\ ResultInv'
  BY <1>1, <1>4, <1>5, OnItsWayOut
<1> QED BY <1>9, <1>10, <1>14, <1>15, <1>16, <1>17

(* The handler moves while its goroutines stay where they are.             *)
LEMMA HandlerMoves ==
    ASSUME PnlInv, UNCHANGED <<handler, rows, g, sem, wg, mu, totals>>
    PROVE  /\ WorkInv' /\ CountInv' /\ LockInv' /\ TotalInv'
           /\ Finished' = Finished /\ Grouped' = Grouped
<1> USE DEF PnlInv
<1>1. (\A u : Group(u)' = Group(u)) /\ Grouped' = Grouped
  BY SameGroups
<1>2. WorkInv'
  BY <1>1 DEF WorkInv
<1>3. Active' = Active /\ Started' = Started
  BY DEF Active, Started
<1>4. CountInv'
  BY <1>3 DEF CountInv
<1>5. LockInv'
  BY DEF LockInv
<1>6. Finished' = Finished
  BY <1>1 DEF Finished, Listed
<1>7. Winners' = Winners
  BY <1>6 DEF Winners
<1>8. TotalInv'
  BY <1>1, <1>6, <1>7 DEF TotalInv
<1> QED BY <1>1, <1>2, <1>4, <1>5, <1>6, <1>8

(* All goroutines are started.                                             *)
LEMMA EndOfLoopStep ==
    ASSUME PnlInv, EndOfLoop
    PROVE  PnlInv'
<1> USE DEF PnlInv
<1>1. /\ pc = "spawn" /\ todo = {} /\ pc' = "wait" /\ handler # "holdings"
      /\ UNCHANGED <<handler, rows, todo, g, sem, wg, mu, priceCache, counts, totals, results>>
  BY DEF EndOfLoop, shared
<1>2. /\ WorkInv' /\ CountInv' /\ LockInv' /\ TotalInv'
      /\ Finished' = Finished /\ Grouped' = Grouped
  BY <1>1, HandlerMoves
<1>3. Types'
  BY <1>1 DEF Types
<1>4. LoopInv'
  BY <1>1, <1>2 DEF LoopInv
<1>5. ResultInv'
  BY <1>1, <1>2 DEF ResultInv, Hits
<1> QED BY <1>2, <1>3, <1>4, <1>5

(* z is s in another order: by token.                                      *)
Resorted(s, z) ==
    /\ IsSeq(z) /\ Len(z) = Len(s) /\ Len(s) \in Nat
    /\ \A k \in 1..Len(s) : \E j \in 1..Len(s) : z[k] = s[j]
    /\ \A j \in 1..Len(s) : \E k \in 1..Len(s) : z[k] = s[j]
    /\ (\A j, k \in 1..Len(s) : j # k => s[j].token # s[k].token)
           => \A j, k \in 1..Len(s) : j # k => z[j].token # z[k].token
    /\ \A j, k \in 1..Len(s) : j < k => Rank[z[j].token] <= Rank[z[k].token]

(* The sort of TokenPnlHandler loses and repeats no result.                *)
LEMMA SortedResults == \A s : IsSeq(s) => \A z \in ByToken(s) : Resorted(s, z)
<1> SUFFICES ASSUME NEW s, IsSeq(s), NEW z \in ByToken(s)
             PROVE  Resorted(s, z)
  OBVIOUS
<1>1. PICK n : n = Len(s)
  OBVIOUS
<1>2. n \in Nat
  <2>1. PICK S : s \in Seq(S)
    BY DEF IsSeq
  <2> QED BY <1>1, <2>1
<1>3. PICK p \in Bijection(1..n, 1..n) :
          /\ z = [k \in 1..n |-> s[p[k]]]
          /\ \A j, k \in 1..n : j < k => Rank[s[p[j]].token] <= Rank[s[p[k]].token]
  BY <1>1 DEF ByToken
<1>4. /\ p \in [1..n -> 1..n]
      /\ \A j, k \in 1..n : p[j] = p[k] => j = k
      /\ \A j \in 1..n : \E k \in 1..n : p[k] = j
  BY DEF Bijection, Injection, Surjection, IsInjective
<1>5. \A k \in 1..n : z[k] = s[p[k]] /\ p[k] \in 1..n
  BY <1>3, <1>4
<1>6. IsSeq(z) /\ Len(z) = n
  <2>1. PICK S : S = {s[p[k]] : k \in 1..n}
    OBVIOUS
  <2>2. z \in Seq(S) /\ Len(z) = n
    BY <1>2, <1>3, <2>1
  <2>3. {z[k] : k \in 1..Len(z)} = S
    BY <1>5, <2>1, <2>2
  <2> QED BY <2>2, <2>3 DEF IsSeq
<1>7. \A k \in 1..n : \E j \in 1..n : z[k] = s[j]
  BY <1>5
<1>8. \A j \in 1..n : \E k \in 1..n : z[k] = s[j]
  BY <1>4, <1>5
<1>9. ASSUME \A j, k \in 1..n : j # k => s[j].token # s[k].token
      PROVE  \A j, k \in 1..n : j # k => z[j].token # z[k].token
  <2> SUFFICES ASSUME NEW j \in 1..n, NEW k \in 1..n, j # k
               PROVE  z[j].token # z[k].token
    OBVIOUS
  <2>1. p[j] # p[k] /\ p[j] \in 1..n /\ p[k] \in 1..n
    BY <1>4, <1>5
  <2>2. s[p[j]].token # s[p[k]].token
    BY <2>1, <1>9
  <2> QED BY <2>2, <1>5
<1>10. \A j, k \in 1..n : j < k => Rank[z[j].token] <= Rank[z[k].token]
  BY <1>3, <1>5
<1> QED BY ONLY <1>1, <1>2, <1>6, <1>7, <1>8, <1>9, <1>10 DEF Resorted

(* wg.Wait returns; TokenPnlHandler sorts.                                 *)
LEMMA RespondStep ==
    ASSUME PnlInv, Respond
    PROVE  PnlInv'
<1> USE DEF PnlInv
<1>1. /\ pc = "wait" /\ wg = 0 /\ pc' = "done"
      /\ UNCHANGED <<handler, rows, todo, g, sem, wg, mu, priceCache, counts, totals>>
  BY DEF Respond
<1>2. /\ WorkInv' /\ CountInv' /\ LockInv' /\ TotalInv'
      /\ Finished' = Finished /\ Grouped' = Grouped
  BY <1>1, HandlerMoves
<1>3. LoopInv'
  BY <1>1, <1>2 DEF LoopInv
<1>4. CASE handler # "token"
  <2>1. results' = results
    BY <1>4 DEF Respond
  <2>2. Types'
    BY <1>1, <2>1 DEF Types
  <2>3. ResultInv'
    BY <1>1, <1>4 DEF ResultInv
  <2> QED BY <1>2, <1>3, <2>2, <2>3
<1>5. CASE handler = "token"
  <2>1. PICK n, z : n = Len(results) /\ z = results'
    OBVIOUS
  <2>2. z \in ByToken(results) /\ IsSeq(results)
    BY <1>5, <2>1 DEF Respond, Types
  <2>3. /\ IsSeq(z) /\ Len(z) = n /\ n \in Nat
        /\ \A k \in 1..n : \E j \in 1..n : z[k] = results[j]
        /\ \A j \in 1..n : \E k \in 1..n : z[k] = results[j]
        /\ (\A j, k \in 1..n : j # k => results[j].token # results[k].token)
               => \A j, k \in 1..n : j # k => z[j].token # z[k].token
        /\ \A j, k \in 1..n : j < k => Rank[z[j].token] <= Rank[z[k].token]
    <3>1. Resorted(results, z)
      BY <2>2, SortedResults
    <3> QED BY ONLY <2>1, <3>1 DEF Resorted
  <2>4. Types'
    <3>1. \A k \in 1..n : z[k].token \in Tokens
      BY <2>1, <2>3 DEF Types
    <3> QED BY <1>1, <2>1, <2>3, <3>1 DEF Types
  <2>5. \A t \in Tokens : (\E k \in 1..n : z[k].token = t) <=> t \in Finished
    <3>1. \A t \in Tokens : (\E k \in 1..n : results[k].token = t) <=> t \in Finished
      BY <1>5, <2>1 DEF ResultInv, Hits
    <3>2. ASSUME NEW t \in Tokens, NEW k \in 1..n, z[k].token = t
          PROVE  t \in Finished
      <4>1. PICK j \in 1..n : z[k] = results[j]
        BY <2>3
      <4>2. results[j].token = t
        BY <3>2, <4>1
      <4> QED BY <3>1, <4>2
    <3>3. ASSUME NEW t \in Finished
          PROVE  \E k \in 1..n : z[k].token = t
      <4>1. t \in Tokens
        BY DEF Finished
      <4>2. PICK j \in 1..n : results[j].token = t
        BY <3>1, <4>1
      <4>3. PICK k \in 1..n : z[k] = results[j]
        BY <2>3
      <4> QED BY <4>2, <4>3
    <3> QED BY <3>2, <3>3
  <2>6. \A j, k \in 1..n : j # k => z[j].token # z[k].token
    BY <1>5, <2>1, <2>3 DEF ResultInv
  <2>7. ResultInv'
    <3>1. \A t \in Tokens : Hits(t)' # {} <=> t \in Finished'
      <4>1. \A t : Hits(t)' = {k \in 1..n : z[k].token = t}
        <5> TAKE t
        <5>1. Hits(t)' = {k \in 1..Len(results') : results'[k].token = t}
          BY ONLY DEF Hits
        <5>2. Len(results') = n /\ results' = z
          BY ONLY <2>1, <2>3
        <5> QED BY ONLY <5>1, <5>2
      <4> QED BY <1>2, <2>5, <4>1
    <3>2. Len(results') = n /\ results' = z
      BY ONLY <2>1, <2>3
    <3>3. \A j, k \in 1..Len(results') : j # k => results'[j].token # results'[k].token
      BY ONLY <2>6, <3>2
    <3>4. \A j, k \in 1..Len(results') :
              j < k => Rank[results'[j].token] <= Rank[results'[k].token]
      BY ONLY <2>3, <3>2
    <3> QED BY ONLY <3>1, <3>3, <3>4 DEF ResultInv
  <2> QED BY <1>2, <1>3, <2>4, <2>7
<1> QED BY <1>4, <1>5

(* The holdings of one token.                                              *)
LEMMA HoldingsLookupStep ==
    ASSUME PnlInv, HoldingsLookup
    PROVE  PnlInv'
<1> USE DEF PnlInv
<1>1. /\ pc = "spawn" /\ handler = "holdings" /\ pc' = "done"
      /\ UNCHANGED <<handler, rows, g, sem, wg, mu, priceCache, counts, totals, results>>
  BY DEF HoldingsLookup, shared
<1>2. PICK t \in Grouped : todo' = {t}
  BY DEF HoldingsLookup
<1>3. /\ WorkInv' /\ CountInv' /\ LockInv' /\ TotalInv'
      /\ Finished' = Finished /\ Grouped' = Grouped
  BY <1>1, HandlerMoves
<1>4. Grouped \subseteq Tokens
  BY WalletRows DEF Types
<1>5. Types'
  BY <1>1, <1>2, <1>4 DEF Types
<1>6. wg = 0
  <2>1. Started = {}
    BY <1>1 DEF Started, LoopInv
  <2> QED BY <2>1, FS_EmptySet DEF CountInv
<1>7. LoopInv'
  BY <1>1, <1>2, <1>3, <1>6 DEF LoopInv
<1>8. ResultInv'
  BY <1>1 DEF ResultInv
<1> QED BY <1>3, <1>5, <1>7, <1>8

-----------------------------------------------------------------------------
(* int and Duration.                                                       *)

(* The bounds of int64 are numbers.                                        *)
LEMMA MaxIsInt == MaxInt64 \in Nat /\ TooLarge \in Int
<1>1. MaxInt64 \in Nat /\ TooLarge \in {-MaxInt64 - 1, MaxInt64}
  BY PnlAssumption, FloatAssumption
<1> QED BY ONLY <1>1

(* A remainder is found by its range.                                      *)
LEMMA Remainder ==
    ASSUME NEW m \in Nat, m > 0, NEW q \in Int, NEW r \in 0..m - 1
    PROVE  (m * q + r) % m = r
OBVIOUS

(* Wrap moves a number by a multiple of 2^64.                              *)
LEMMA WrapIs ==
    ASSUME NEW x \in Int
    PROVE  /\ Wrap(x) \in Int
           /\ \E q \in Int : Wrap(x) = x - (2 * MaxInt64 + 2) * q
<1>1. PICK m, h, y : m = 2 * MaxInt64 + 2 /\ h = MaxInt64 + 1 /\ y = x + h
  OBVIOUS
<1>2. m \in Nat /\ m > 0 /\ h \in Nat /\ y \in Int /\ m = h + h
  BY <1>1, MaxIsInt
<1>3. y % m \in 0..m - 1 /\ y = m * (y \div m) + (y % m) /\ y \div m \in Int
  BY ONLY <1>2
<1>4. Wrap(x) = (y % m) - h
  <2>1. x + MaxInt64 + 1 = y
    BY <1>1, MaxIsInt
  <2> QED BY <1>1, <2>1 DEF Wrap
<1>5. Wrap(x) = x - m * (y \div m)
  <2>1. PICK p, r : p = m * (y \div m) /\ r = y % m
    OBVIOUS
  <2>2. y = p + r /\ p \in Int /\ r \in Int
    BY ONLY <1>2, <1>3, <2>1
  <2>3. r - h = x - p
    BY ONLY <1>1, <1>2, <2>2, x \in Int
  <2> QED BY ONLY <1>4, <2>1, <2>3
<1>6. Wrap(x) \in -h..(h - 1)
  BY ONLY <1>2, <1>3, <1>4
<1>7. PICK q \in Int : q = y \div m
  BY <1>3
<1>8. Wrap(x) = x - (2 * MaxInt64 + 2) * q
  BY ONLY <1>1, <1>5, <1>7
<1>9. Wrap(x) \in Int
  BY ONLY <1>2, <1>6
<1> QED BY ONLY <1>8, <1>9

(* What fits is left as it is.                                             *)
LEMMA WrapFits ==
    ASSUME NEW x \in 0..MaxInt64
    PROVE  Wrap(x) = x
<1>1. PICK m, y : m = 2 * MaxInt64 + 2 /\ y = x + MaxInt64 + 1
  OBVIOUS
<1>2. m \in Nat /\ m > 0 /\ y \in 0..m - 1 /\ m * 0 + y = y
  BY <1>1, MaxIsInt
<1>3. y % m = y
  BY ONLY <1>2
<1> QED BY <1>1, <1>3, MaxIsInt DEF Wrap

(* A sum may wrap at every addition or once, at the end.                   *)
LEMMA WrapAdds ==
    ASSUME NEW a \in Int, NEW b \in Int
    PROVE  Wrap(Wrap(a) + b) = Wrap(a + b)
<1>1. PICK q \in Int : Wrap(a) = a - (2 * MaxInt64 + 2) * q
  BY WrapIs
<1>2. PICK m, z, y, w : /\ m = 2 * MaxInt64 + 2 /\ z = a + b + MaxInt64 + 1
                     /\ y = Wrap(a) + b + MaxInt64 + 1 /\ w = m * q
  OBVIOUS
<1>3. m \in Nat /\ m > 0 /\ z \in Int /\ w \in Int /\ y = z - w
  BY <1>1, <1>2, MaxIsInt
<1>4. PICK d, r : d = z \div m /\ r = z % m
  OBVIOUS
<1>5. z = m * d + r /\ d \in Int /\ r \in 0..m - 1
  BY ONLY <1>3, <1>4
<1>6. y = m * (d - q) + r /\ d - q \in Int
  BY ONLY <1>2, <1>3, <1>5, q \in Int
<1>7. y % m = r
  BY ONLY <1>3, <1>5, <1>6, Remainder
<1> QED BY <1>2, <1>4, <1>7 DEF Wrap

-----------------------------------------------------------------------------
(* CalculateTokenPnL: its lots are first in, first out.                    *)

LotType == [amount : Nat, ts : Nat]
SaleType == [left : Nat, lots : Seq(LotType), held : Int, sold : Nat]
TallyType == [buyTokens : Nat, sellTokens : Nat, buyValue : Nat, sellValue : Nat,
              lots : Seq(LotType), held : Int, sold : Nat]
AccType == [units : Seq(Nat), sold : Nat, held : Int]

(* What holds at the start and is kept holds at the end.                   *)
LEMMA StaysInside ==
    ASSUME NEW n \in Nat, NEW S, NEW h, h[0] \in S,
           \A i \in 1..n : h[i - 1] \in S => h[i] \in S
    PROVE  \A i \in 0..n : h[i] \in S
<1> DEFINE T == {i \in Nat : i <= n => h[i] \in S}
<1>1. 0 \in T
  OBVIOUS
<1>2. ASSUME NEW i \in Nat, i \in T PROVE i + 1 \in T
  <2> SUFFICES ASSUME i + 1 <= n PROVE h[i + 1] \in S
    OBVIOUS
  <2>1. i + 1 \in 1..n /\ (i + 1) - 1 = i /\ h[i] \in S
    BY <1>2
  <2> QED BY <2>1
<1> HIDE DEF T
<1>3. \A i \in Nat : i \in T
  BY <1>1, <1>2, Induction
<1> QED BY <1>3 DEF T

(* A sale of one lot.                                                      *)
LEMMA SellLotType ==
    ASSUME NEW sale \in SaleType, NEW lot \in LotType, NEW ts \in Nat
    PROVE  SellLot(sale, lot, ts) \in SaleType
<1>1. /\ sale.left \in Nat /\ sale.lots \in Seq(LotType) /\ sale.held \in Int /\ sale.sold \in Nat
      /\ lot.amount \in Nat /\ lot.ts \in Nat
  BY DEF SaleType, LotType
<1>2. PICK n : n = IF lot.amount <= sale.left THEN lot.amount ELSE sale.left
  OBVIOUS
<1>3. n \in Nat /\ lot.amount - n \in Nat /\ sale.left - n \in Nat /\ sale.sold + n \in Nat
  BY <1>1, <1>2
<1>4. PICK new : new = [amount |-> lot.amount - n, ts |-> lot.ts]
  OBVIOUS
<1>5. new \in LotType
  BY <1>1, <1>3, <1>4 DEF LotType
<1>6. Append(sale.lots, new) \in Seq(LotType)
  BY <1>1, <1>5
<1>7. Wrap(sale.held + Duration((ts - lot.ts) * n)) \in Int
  <2>1. ts - lot.ts \in Int
    BY <1>1
  <2>2. (ts - lot.ts) * n \in Int
    BY ONLY <2>1, <1>3
  <2>3. Duration((ts - lot.ts) * n) \in Int
    BY ONLY <2>2, MaxIsInt DEF Duration
  <2>4. sale.held + Duration((ts - lot.ts) * n) \in Int
    BY ONLY <2>3, <1>1
  <2> QED BY ONLY <2>4, WrapIs
<1>8. SellLot(sale, lot, ts) =
          [left |-> sale.left - n,
           lots |-> IF n = lot.amount THEN sale.lots ELSE Append(sale.lots, new),
           held |-> Wrap(sale.held + Duration((ts - lot.ts) * n)),
           sold |-> sale.sold + n]
  BY <1>2, <1>4 DEF SellLot
<1> QED BY ONLY <1>1, <1>3, <1>6, <1>7, <1>8 DEF SaleType

(* The sale of the lots, one after the other.                              *)
Sales(h, L, amount, ts) ==
    /\ h[0] = NoSale(amount)
    /\ \A k \in 1..Len(L) : h[k] = SellLot(h[k - 1], L[k], ts)

(* SellLots is the last of its sales, one per lot, and each of them is     *)
(* well formed.                                                            *)
LEMMA SellLotsIs ==
    ASSUME NEW L \in Seq(LotType), NEW amount \in Nat, NEW ts \in Nat
    PROVE  \E h : /\ Sales(h, L, amount, ts) /\ SellLots(L, amount, ts) = h[Len(L)]
                  /\ \A k \in 0..Len(L) : h[k] \in SaleType
<1> DEFINE n == Len(L)
           step == [p \in SaleType \X (1..n) |-> SellLot(p[1], L[p[2]], ts)]
           sale == CHOOSE h : h = [k \in 0..n |-> IF k = 0 THEN NoSale(amount)
                                                  ELSE SellLot(h[k - 1], L[k], ts)]
<1>1. n \in Nat /\ \A k \in 1..n : L[k] \in LotType
  OBVIOUS
<1>2. \A z \in SaleType : \A k \in 1..n : step[<<z, k>>] = SellLot(z, L[k], ts)
  OBVIOUS
<1> HIDE DEF step, n
<1>3. \A z \in SaleType : \A k \in 1..n : step[<<z, k>>] \in SaleType
  BY <1>1, <1>2, SellLotType
<1>4. NoSale(amount) \in SaleType
  BY DEF NoSale, SaleType
<1>5. PICK h \in [0..n -> SaleType] : Iterates(h, NoSale(amount), step, n)
  <2>1. StaysIn(SaleType, step, n)
    BY <1>3 DEF StaysIn
  <2> QED BY ONLY <1>1, <1>4, <2>1, RecursionExists
<1>6. ASSUME NEW k \in 1..n PROVE h[k] = SellLot(h[k - 1], L[k], ts)
  <2>1. k - 1 \in 0..n /\ h[k - 1] \in SaleType
    BY <1>1
  <2> QED BY <1>2, <1>5, <2>1 DEF Iterates
<1>7. h = [k \in 0..n |-> IF k = 0 THEN NoSale(amount) ELSE SellLot(h[k - 1], L[k], ts)]
  <2>1. h[0] = NoSale(amount) /\ h = [k \in 0..n |-> h[k]]
    BY <1>5 DEF Iterates
  <2>2. \A k \in 0..n : h[k] = IF k = 0 THEN NoSale(amount) ELSE SellLot(h[k - 1], L[k], ts)
    <3>1. \A k \in 0..n : k # 0 => k \in 1..n
      BY <1>1
    <3> QED BY <1>6, <2>1, <3>1
  <2> QED BY ONLY <2>1, <2>2
<1>8. sale = [k \in 0..n |-> IF k = 0 THEN NoSale(amount) ELSE SellLot(sale[k - 1], L[k], ts)]
  BY <1>7
<1> HIDE DEF sale
<1>9. sale[0] = NoSale(amount) /\ \A k \in 1..n : sale[k] = SellLot(sale[k - 1], L[k], ts)
  <2>1. 0 \in 0..n /\ \A k \in 1..n : k \in 0..n /\ k # 0
    BY <1>1
  <2> QED BY ONLY <1>8, <2>1
<1>10. \A k \in 0..n : sale[k] \in SaleType
  <2>1. \A k \in 1..n : sale[k - 1] \in SaleType => sale[k] \in SaleType
    BY <1>1, <1>9, SellLotType
  <2> QED BY <1>1, <1>4, <1>9, <2>1, StaysInside
<1>11. SellLots(L, amount, ts) = sale[n]
  BY DEF SellLots, sale, n
<1> QED BY <1>9, <1>10, <1>11 DEF Sales, n

(* What a sale leaves is typed.                                            *)
LEMMA SellLotsType ==
    ASSUME NEW L \in Seq(LotType), NEW amount \in Nat, NEW ts \in Nat
    PROVE  SellLots(L, amount, ts) \in SaleType
<1>1. PICK h : /\ SellLots(L, amount, ts) = h[Len(L)]
               /\ \A k \in 0..Len(L) : h[k] \in SaleType
  BY SellLotsIs
<1>2. Len(L) \in 0..Len(L)
  OBVIOUS
<1> QED BY <1>1, <1>2

(* The fields of a row.                                                    *)
LEMMA RowFields ==
    ASSUME NEW r \in RowType
    PROVE  /\ r.token \in Tokens /\ r.amountOut \in Nat /\ r.amountIn \in Nat /\ r.ts \in Nat
           /\ \/ r.action \in {"BUY", "RECEIVE"} /\ r.action \notin {"SELL", "TRANSFER"}
              \/ r.action \in {"SELL", "TRANSFER"} /\ r.action \notin {"BUY", "RECEIVE"}
BY DEF RowType

(* A purchase, and a sale, in the tally.                                   *)
LEMMA AddRowBuys ==
    ASSUME NEW tally \in TallyType, NEW r \in RowType, NEW usd \in Nat,
           r.action \in {"BUY", "RECEIVE"}
    PROVE  LET z == AddRow(tally, r, usd)
           IN  /\ z \in TallyType
               /\ z.lots = Append(tally.lots, [amount |-> r.amountIn, ts |-> r.ts])
               /\ z.held = tally.held /\ z.sold = tally.sold
<1>1. PICK z : z = AddRow(tally, r, usd)
  OBVIOUS
<1>2. PICK v : v = IF r.action = "BUY" THEN r.amountOut * usd ELSE 0
  OBVIOUS
<1>3. r.amountOut \in Nat /\ r.amountIn \in Nat /\ r.ts \in Nat
  BY RowFields
<1>4. v \in Nat
  <2>1. r.amountOut * usd \in Nat
    BY ONLY <1>3, usd \in Nat
  <2> QED BY <1>2, <2>1
<1>5. PICK lots : lots = Append(tally.lots, [amount |-> r.amountIn, ts |-> r.ts])
  OBVIOUS
<1>6. lots \in Seq(LotType)
  <2>1. [amount |-> r.amountIn, ts |-> r.ts] \in LotType
    BY <1>3 DEF LotType
  <2>2. tally.lots \in Seq(LotType)
    BY DEF TallyType
  <2> QED BY <1>5, <2>1, <2>2
<1>7. z = [tally EXCEPT !.buyTokens = @ + r.amountIn, !.buyValue = @ + v, !.lots = lots]
  BY <1>1, <1>2, <1>5 DEF AddRow
<1>8. /\ tally.buyTokens \in Nat /\ tally.sellTokens \in Nat /\ tally.buyValue \in Nat
      /\ tally.sellValue \in Nat /\ tally.held \in Int /\ tally.sold \in Nat
  BY DEF TallyType
<1>9. z = [buyTokens |-> tally.buyTokens + r.amountIn, sellTokens |-> tally.sellTokens,
           buyValue |-> tally.buyValue + v, sellValue |-> tally.sellValue,
           lots |-> lots, held |-> tally.held, sold |-> tally.sold]
  BY ONLY tally \in TallyType, <1>7 DEF TallyType
<1>10. tally.buyTokens + r.amountIn \in Nat /\ tally.buyValue + v \in Nat
  BY ONLY <1>3, <1>4, <1>8
<1>11. /\ z \in TallyType /\ z.lots = lots /\ z.held = tally.held /\ z.sold = tally.sold
  BY ONLY <1>6, <1>8, <1>9, <1>10 DEF TallyType
<1> QED BY <1>1, <1>5, <1>11

(* A row that sells takes its amount from the lots and adds what that sale *)
(* has held and sold; nothing else of the lots changes.                    *)
LEMMA AddRowSells ==
    ASSUME NEW tally \in TallyType, NEW r \in RowType, NEW usd \in Nat,
           r.action \in {"SELL", "TRANSFER"}
    PROVE  LET z == AddRow(tally, r, usd)
               sale == SellLots(tally.lots, r.amountOut, r.ts)
           IN  /\ z \in TallyType
               /\ z.lots = sale.lots
               /\ z.held = Wrap(tally.held + sale.held) /\ z.sold = tally.sold + sale.sold
<1>1. PICK z, sale : z = AddRow(tally, r, usd) /\ sale = SellLots(tally.lots, r.amountOut, r.ts)
  OBVIOUS
<1>2. PICK v : v = IF r.action = "SELL" THEN r.amountIn * usd ELSE 0
  OBVIOUS
<1>3. /\ r.amountOut \in Nat /\ r.amountIn \in Nat /\ r.ts \in Nat
      /\ r.action \notin {"BUY", "RECEIVE"}
  BY RowFields
<1>4. v \in Nat
  <2>1. r.amountIn * usd \in Nat
    BY ONLY <1>3, usd \in Nat
  <2> QED BY <1>2, <2>1
<1>5. sale \in SaleType
  <2>1. tally.lots \in Seq(LotType)
    BY DEF TallyType
  <2> QED BY <1>1, <1>3, <2>1, SellLotsType
<1>6. z = [tally EXCEPT !.sellTokens = @ + r.amountOut, !.sellValue = @ + v, !.lots = sale.lots,
                        !.held = Wrap(@ + sale.held), !.sold = @ + sale.sold]
  BY <1>1, <1>2, <1>3 DEF AddRow
<1>7. /\ tally.buyTokens \in Nat /\ tally.sellTokens \in Nat /\ tally.buyValue \in Nat
      /\ tally.sellValue \in Nat /\ tally.held \in Int /\ tally.sold \in Nat
      /\ sale.lots \in Seq(LotType) /\ sale.held \in Int /\ sale.sold \in Nat
  BY <1>5 DEF TallyType, SaleType
<1>8. z = [buyTokens |-> tally.buyTokens, sellTokens |-> tally.sellTokens + r.amountOut,
           buyValue |-> tally.buyValue, sellValue |-> tally.sellValue + v,
           lots |-> sale.lots, held |-> Wrap(tally.held + sale.held),
           sold |-> tally.sold + sale.sold]
  BY ONLY tally \in TallyType, <1>6 DEF TallyType
<1>9. /\ tally.sellTokens + r.amountOut \in Nat /\ tally.sellValue + v \in Nat
      /\ Wrap(tally.held + sale.held) \in Int /\ tally.sold + sale.sold \in Nat
  <2>1. \A a, b \in Nat : a + b \in Nat
    OBVIOUS
  <2>2. \A a, b \in Int : a + b \in Int
    OBVIOUS
  <2>3. tally.held + sale.held \in Int
    BY ONLY <2>2, <1>7, Zenon
  <2>4. Wrap(tally.held + sale.held) \in Int
    BY ONLY <2>3, WrapIs
  <2> QED BY ONLY <2>1, <2>4, <1>3, <1>4, <1>7, Zenon
<1>10. /\ z \in TallyType /\ z.lots = sale.lots
       /\ z.held = Wrap(tally.held + sale.held) /\ z.sold = tally.sold + sale.sold
  BY ONLY <1>7, <1>8, <1>9 DEF TallyType
<1> QED BY <1>1, <1>10

(* The lots L stand for the units lo + 1 to hi of U, in their order.       *)
Match(L, U, lo, hi) ==
    \E c \in [0..Len(L) -> lo..hi] :
        /\ c[0] = lo /\ c[Len(L)] = hi
        /\ \A k \in 1..Len(L) : /\ c[k] = c[k - 1] + L[k].amount
                                /\ \A j \in (c[k - 1] + 1)..c[k] : U[j] = L[k].ts

(* No lots match no units.                                                 *)
LEMMA MatchEmpty ==
    ASSUME NEW U, NEW lo \in Nat
    PROVE  Match(<<>>, U, lo, lo)
<1>1. PICK c : c = [k \in 0..0 |-> lo]
  OBVIOUS
<1>2. c \in [0..0 -> lo..lo] /\ c[0] = lo
  BY <1>1
<1> QED BY <1>2 DEF Match

(* A new lot stands for the units that come after.                         *)
LEMMA MatchAppend ==
    ASSUME NEW L \in Seq(LotType), NEW U, NEW lo \in Nat, NEW hi \in Nat, Match(L, U, lo, hi),
           NEW lot \in LotType, NEW V,
           \A j \in (lo + 1)..hi : V[j] = U[j],
           \A j \in (hi + 1)..(hi + lot.amount) : V[j] = lot.ts
    PROVE  Match(Append(L, lot), V, lo, hi + lot.amount)
<1>1. PICK n, z : n = Len(L) /\ z = Append(L, lot)
  OBVIOUS
<1>2. /\ n \in Nat /\ Len(z) = n + 1 /\ z[n + 1] = lot
      /\ \A k \in 1..n : z[k] = L[k] /\ L[k].amount \in Nat
  <2>1. \A k \in 1..n : L[k] \in LotType
    BY <1>1
  <2> QED BY <1>1, <2>1 DEF LotType
<1>3. PICK c \in [0..n -> lo..hi] :
          /\ c[0] = lo /\ c[n] = hi
          /\ \A k \in 1..n : /\ c[k] = c[k - 1] + L[k].amount
                             /\ \A j \in (c[k - 1] + 1)..c[k] : U[j] = L[k].ts
  BY <1>1 DEF Match
<1>4. lot.amount \in Nat
  BY DEF LotType
<1>5. PICK e : e = hi + lot.amount
  OBVIOUS
<1>6. lo <= hi /\ hi <= e /\ e \in Nat
  BY <1>2, <1>3, <1>4, <1>5
<1> DEFINE d == [k \in 0..(n + 1) |-> IF k = n + 1 THEN e ELSE c[k]]
<1>7. /\ d[n + 1] = e /\ \A k \in 0..n : d[k] = c[k]
      /\ \A k \in 1..(n + 1) : k = n + 1 \/ (k \in 1..n /\ k - 1 \in 0..n /\ k \in 0..n)
      /\ 0 \in 0..n /\ n \in 0..n /\ (n + 1) - 1 = n /\ n + 1 \in 1..(n + 1)
  BY <1>2
<1>8. d \in [0..(n + 1) -> lo..e]
  <2>1. \A k \in 0..n : c[k] \in lo..e
    BY <1>3, <1>6
  <2>2. \A k \in 0..(n + 1) : k = n + 1 \/ k \in 0..n
    BY <1>2
  <2>3. e \in lo..e
    BY <1>6
  <2> QED BY <2>1, <2>2, <2>3
<1> HIDE DEF d
<1>9. ASSUME NEW k \in 1..(n + 1)
      PROVE  /\ d[k] = d[k - 1] + z[k].amount
             /\ \A j \in (d[k - 1] + 1)..d[k] : V[j] = z[k].ts
  <2>1. CASE k = n + 1
    <3>1. d[k] = e /\ d[k - 1] = hi /\ z[k] = lot
      BY <1>2, <1>3, <1>7, <2>1
    <3> QED BY <1>5, <3>1
  <2>2. CASE k # n + 1
    <3>1. k \in 1..n /\ d[k] = c[k] /\ d[k - 1] = c[k - 1] /\ z[k] = L[k]
      BY <1>2, <1>7, <2>2
    <3>2. c[k] = c[k - 1] + L[k].amount /\ \A j \in (c[k - 1] + 1)..c[k] : U[j] = L[k].ts
      BY <1>3, <3>1
    <3>3. c[k] \in lo..hi /\ c[k - 1] \in lo..hi
      BY <1>3, <1>7, <2>2
    <3>4. \A j \in (c[k - 1] + 1)..c[k] : j \in (lo + 1)..hi
      BY <1>6, <3>3
    <3>5. \A j \in (c[k - 1] + 1)..c[k] : V[j] = L[k].ts
      BY <3>2, <3>4
    <3> QED BY <3>1, <3>2, <3>5
  <2> QED BY <2>1, <2>2
<1>10. d[0] = lo /\ d[n + 1] = e
  BY <1>3, <1>7
<1>11. Match(z, V, lo, e)
  BY ONLY <1>2, <1>8, <1>9, <1>10 DEF Match
<1> QED BY <1>1, <1>5, <1>11

(* What is so after the sale of the units lo + 1 to b, of which amount at  *)
(* most can be sold.  f gives the time each unit was held, which the sale  *)
(* has added up as far as it fits into a Duration.                         *)
Edge(lo, b, amount) == IF b <= lo + amount THEN b ELSE lo + amount

SoldUpTo(sale, U, f, lo, b, amount) ==
    /\ sale.left = lo + amount - Edge(lo, b, amount)
    /\ sale.sold = Edge(lo, b, amount) - lo
    /\ Total(f, Edge(lo, b, amount) - lo) <= MaxInt64
           => sale.held = Total(f, Edge(lo, b, amount) - lo)
    /\ Match(sale.lots, U, Edge(lo, b, amount), b)
    /\ sale.left > 0 => sale.lots = <<>>

(* A sale that has sold the units of the lots before a lot has, after it,  *)
(* sold those of the lot too, up to its amount, and keeps the lots of the  *)
(* others.                                                                 *)
LEMMA SellLotMatches ==
    ASSUME NEW sale \in SaleType, NEW lot \in LotType, NEW ts \in Nat, NEW U, NEW f,
           NEW lo \in Nat, NEW b \in Nat, NEW amount \in Nat, lo <= b,
           \A j \in (b + 1)..(b + lot.amount) : U[j] = lot.ts,
           \A i \in 1..(b + lot.amount - lo) : f[i] \in Nat /\ f[i] = ts - U[lo + i],
           SoldUpTo(sale, U, f, lo, b, amount)
    PROVE  SoldUpTo(SellLot(sale, lot, ts), U, f, lo, b + lot.amount, amount)
<1>1. PICK a, n, q, e : /\ a = lot.amount /\ n = (IF a <= sale.left THEN a ELSE sale.left)
                        /\ q = Edge(lo, b, amount) /\ e = Edge(lo, b + a, amount)
  OBVIOUS
<1>2. /\ a \in Nat /\ lot.ts \in Nat /\ sale.left \in Nat /\ sale.lots \in Seq(LotType)
      /\ sale.held \in Int /\ sale.sold \in Nat
  BY <1>1 DEF LotType, SaleType
<1>3. /\ sale.left = lo + amount - q /\ sale.sold = q - lo
      /\ Total(f, q - lo) <= MaxInt64 => sale.held = Total(f, q - lo)
      /\ Match(sale.lots, U, q, b) /\ (sale.left > 0 => sale.lots = <<>>)
  BY <1>1 DEF SoldUpTo
<1>4. /\ n \in Nat /\ q \in Nat /\ e \in Nat /\ lo <= q /\ q <= b /\ e = q + n
      /\ n <= a /\ (n > 0 => q = b)
  <2>1. q = (IF b <= lo + amount THEN b ELSE lo + amount) /\ a \in Nat /\ sale.left \in Nat
    BY <1>1, <1>2 DEF Edge
  <2>2. e = (IF b + a <= lo + amount THEN b + a ELSE lo + amount)
    BY <1>1 DEF Edge
  <2>3. sale.left = lo + amount - q /\ n = (IF a <= sale.left THEN a ELSE sale.left)
    BY <1>1, <1>3
  <2> QED BY ONLY <2>1, <2>2, <2>3, lo \in Nat, b \in Nat, amount \in Nat, lo <= b
<1>5. PICK new : new = [amount |-> a - n, ts |-> lot.ts]
  OBVIOUS
<1>6. PICK z : z = [left |-> sale.left - n,
                    lots |-> IF n = a THEN sale.lots ELSE Append(sale.lots, new),
                    held |-> Wrap(sale.held + Duration((ts - lot.ts) * n)),
                    sold |-> sale.sold + n]
  OBVIOUS
<1>7. SellLot(sale, lot, ts) = z
  BY <1>1, <1>5, <1>6 DEF SellLot
<1>8. z.left = lo + amount - e /\ z.sold = e - lo
  <2>1. z.left = sale.left - n /\ z.sold = sale.sold + n
    BY ONLY <1>6
  <2> QED BY ONLY <1>2, <1>3, <1>4, <2>1, lo \in Nat, amount \in Nat
<1>9. Total(f, e - lo) <= MaxInt64 => z.held = Total(f, e - lo)
  <2>1. PICK v, m : v = ts - lot.ts /\ m = q - lo
    OBVIOUS
  <2>2. v \in Int /\ m \in Nat /\ m + n = e - lo /\ \A i \in 1..(m + n) : i \in 1..(b + a - lo)
    BY <1>2, <1>4, <2>1
  <2>3. \A i \in 1..(m + n) : f[i] \in Nat
    BY <1>1, <2>2
  <2>4. \A i \in (m + 1)..(m + n) : f[i] = v
    <3> SUFFICES ASSUME NEW i \in (m + 1)..(m + n) PROVE f[i] = v
      OBVIOUS
    <3>1. i \in 1..(m + n)
      BY <2>2
    <3>2. f[i] = ts - U[lo + i]
      BY <1>1, <2>2, <3>1
    <3>3. lo + i \in (b + 1)..(b + a)
      BY <1>4, <1>2, <2>1, <2>2
    <3> QED BY <1>1, <2>1, <3>2, <3>3
  <2>5. PICK w : w = v * n
    OBVIOUS
  <2>6. Total(f, m + n) = Total(f, m) + w /\ Total(f, m) \in Nat
    <3>1. \A i \in 1..m : f[i] \in Nat
      BY ONLY <1>4, <2>2, <2>3
    <3>2. \A i \in 1..(m + n) : f[i] \in Int
      BY ONLY <2>3
    <3>3. Total(f, m + n) = Total(f, m) + v * n
      BY ONLY <1>4, <2>2, <2>4, <3>2, TotalConstant
    <3> QED BY ONLY <2>2, <2>5, <3>1, <3>3, TotalNat
  <2>7. w \in Nat
    <3>1. CASE n = 0
      <4>1. w = 0
        BY ONLY <2>2, <2>5, <3>1
      <4> QED BY ONLY <4>1
    <3>2. CASE n # 0
      <4>1. m + n \in (m + 1)..(m + n) /\ m + n \in 1..(m + n)
        BY ONLY <1>4, <2>2, <3>2
      <4>2. v \in Nat
        BY ONLY <2>3, <2>4, <4>1
      <4> QED BY ONLY <1>4, <2>5, <4>2
    <3> QED BY <3>1, <3>2
  <2>8. z.held = Wrap(sale.held + Duration(w))
    BY <1>6, <2>1, <2>5
  <2>9. ASSUME Total(f, m) + w <= MaxInt64
        PROVE  z.held = Total(f, m) + w
    <3>1. PICK u : u = Total(f, m) /\ u \in Nat
      BY <2>6
    <3>2. u <= MaxInt64 /\ w <= MaxInt64 /\ u + w \in 0..MaxInt64
      BY ONLY <2>7, <2>9, <3>1, MaxIsInt
    <3>3. sale.held = u /\ Duration(w) = w
      BY <1>3, <2>1, <3>1, <3>2 DEF Duration
    <3> QED BY ONLY <2>8, <3>1, <3>2, <3>3, WrapFits
  <2> QED BY ONLY <2>2, <2>6, <2>9
<1>10. Match(z.lots, U, e, b + a)
  <2>1. CASE n = a /\ n > 0
    <3>1. n <= sale.left /\ sale.left \in Nat
      BY <1>1, <1>2
    <3>2. sale.left > 0
      BY ONLY <1>4, <2>1, <3>1
    <3>3. sale.lots = <<>> /\ z.lots = <<>>
      BY <1>3, <1>6, <2>1, <3>2
    <3>4. e = b + a
      BY ONLY <1>4, <2>1
    <3> QED BY <1>4, <3>3, <3>4, MatchEmpty
  <2>2. CASE n = a /\ n = 0
    <3>1. z.lots = sale.lots /\ e = q /\ b + a = b
      BY <1>2, <1>4, <1>6, <2>2
    <3> QED BY <1>3, <3>1
  <2>3. CASE n # a
    <3>1. z.lots = Append(sale.lots, new) /\ n = sale.left
      BY <1>1, <1>6, <2>3
    <3>2. new \in LotType /\ new.amount = a - n /\ new.ts = lot.ts
      BY <1>2, <1>4, <1>5 DEF LotType
    <3>3. CASE n = 0
      <4>1. e = q /\ new.amount = a
        BY <1>2, <1>4, <3>2, <3>3
      <4>2. \A j \in (b + 1)..(b + new.amount) : U[j] = new.ts
        BY <1>1, <3>2, <4>1
      <4>3. Match(Append(sale.lots, new), U, q, b + new.amount)
        BY <1>2, <1>3, <1>4, <3>2, <4>2, MatchAppend
      <4> QED BY <3>1, <4>1, <4>3
    <3>4. CASE n > 0
      <4>1. q = b /\ e = b + n /\ sale.lots = <<>>
        BY <1>3, <1>4, <3>1, <3>4
      <4>2. b + n \in Nat /\ (b + n) + new.amount = b + a
        BY <1>2, <1>4, <3>2
      <4>3. Match(<<>>, U, b + n, b + n)
        BY <4>2, MatchEmpty
      <4>4. \A j \in ((b + n) + 1)..((b + n) + new.amount) : U[j] = new.ts
        <5>1. \A j \in ((b + n) + 1)..((b + n) + new.amount) : j \in (b + 1)..(b + a)
          BY <1>2, <1>4, <4>2
        <5> QED BY <1>1, <3>2, <5>1
      <4>5. Match(Append(<<>>, new), U, b + n, (b + n) + new.amount)
        <5>1. <<>> \in Seq(LotType)
          OBVIOUS
        <5> QED BY <3>2, <4>2, <4>3, <4>4, <5>1, MatchAppend
      <4> QED BY <3>1, <4>1, <4>2, <4>5
    <3> QED BY <1>4, <3>3, <3>4
  <2> QED BY <1>4, <2>1, <2>2, <2>3
<1>11. z.left > 0 => z.lots = <<>>
  <2> SUFFICES ASSUME z.left > 0 PROVE z.lots = <<>>
    OBVIOUS
  <2>1. /\ z.left = sale.left - n /\ sale.left \in Nat
        /\ n = (IF a <= sale.left THEN a ELSE sale.left)
    BY <1>1, <1>2, <1>6
  <2>2. sale.left > 0 /\ n = a
    BY ONLY <1>4, <2>1, z.left > 0
  <2> QED BY <1>3, <1>6, <2>2
<1>12. SoldUpTo(z, U, f, lo, b + a, amount)
  BY <1>1, <1>8, <1>9, <1>10, <1>11 DEF SoldUpTo
<1> QED BY <1>1, <1>7, <1>12

(* A sale takes the units first in, first out.                             *)
LEMMA SellLotsMatches ==
    ASSUME NEW L \in Seq(LotType), NEW amount \in Nat, NEW ts \in Nat, NEW U, NEW f,
           NEW lo \in Nat, NEW hi \in Nat, Match(L, U, lo, hi),
           \A i \in 1..(hi - lo) : f[i] \in Nat /\ f[i] = ts - U[lo + i]
    PROVE  SoldUpTo(SellLots(L, amount, ts), U, f, lo, hi, amount)
<1>1. PICK n : n = Len(L)
  OBVIOUS
<1>2. n \in Nat /\ \A k \in 1..n : L[k] \in LotType
  BY <1>1
<1>3. PICK c \in [0..n -> lo..hi] :
          /\ c[0] = lo /\ c[n] = hi
          /\ \A k \in 1..n : /\ c[k] = c[k - 1] + L[k].amount
                             /\ \A j \in (c[k - 1] + 1)..c[k] : U[j] = L[k].ts
  BY <1>1 DEF Match
<1>4. PICK h : /\ Sales(h, L, amount, ts) /\ SellLots(L, amount, ts) = h[n]
               /\ \A k \in 0..n : h[k] \in SaleType
  BY <1>1, SellLotsIs
<1> DEFINE T == {k \in Nat : k <= n => SoldUpTo(h[k], U, f, lo, c[k], amount)}
<1>5. 0 \in T
  <2>1. h[0] = NoSale(amount) /\ c[0] = lo
    BY <1>3, <1>4 DEF Sales
  <2>2. Edge(lo, lo, amount) = lo /\ lo - lo = 0 /\ lo + amount - lo = amount
    BY DEF Edge
  <2>3. SoldUpTo(NoSale(amount), U, f, lo, lo, amount)
    BY <2>2, MatchEmpty, TotalZero DEF SoldUpTo, NoSale
  <2> QED BY <2>1, <2>3
<1>6. ASSUME NEW k \in Nat, k \in T PROVE k + 1 \in T
  <2> SUFFICES ASSUME k + 1 <= n PROVE SoldUpTo(h[k + 1], U, f, lo, c[k + 1], amount)
    OBVIOUS
  <2>1. k \in 0..n /\ k + 1 \in 0..n /\ k + 1 \in 1..n /\ (k + 1) - 1 = k
    BY <1>2
  <2>2. PICK sale, lot, b : sale = h[k] /\ lot = L[k + 1] /\ b = c[k]
    OBVIOUS
  <2>3. sale \in SaleType /\ lot \in LotType /\ h[k + 1] = SellLot(sale, lot, ts)
    BY <1>1, <1>2, <1>4, <2>1, <2>2 DEF Sales
  <2>4. c[k + 1] = b + lot.amount /\ \A j \in (b + 1)..(b + lot.amount) : U[j] = lot.ts
    BY <1>3, <2>1, <2>2
  <2>5. lo <= b /\ b \in Nat /\ b + lot.amount <= hi /\ lot.amount \in Nat
    <3>1. b \in lo..hi /\ c[k + 1] \in lo..hi
      BY <1>3, <2>1, <2>2
    <3>2. lot.amount \in Nat
      BY <2>3 DEF LotType
    <3> QED BY ONLY <2>4, <3>1, <3>2, lo \in Nat, hi \in Nat
  <2>6. \A i \in 1..(b + lot.amount - lo) : f[i] \in Nat /\ f[i] = ts - U[lo + i]
    BY <2>5
  <2>7. SoldUpTo(sale, U, f, lo, b, amount)
    BY <1>6, <2>1, <2>2
  <2>8. SoldUpTo(SellLot(sale, lot, ts), U, f, lo, b + lot.amount, amount)
    BY ONLY <2>3, <2>4, <2>5, <2>6, <2>7, ts \in Nat, lo \in Nat, amount \in Nat, SellLotMatches
  <2> QED BY <2>3, <2>4, <2>8
<1> HIDE DEF T
<1>7. n \in T
  BY <1>2, <1>5, <1>6, Induction
<1> QED BY <1>2, <1>3, <1>4, <1>7 DEF T

-----------------------------------------------------------------------------
(* The account of the units, row by row.                                   *)

(* A buy appends its units and leaves what was sold alone.                 *)
LEMMA BuyUnitsFacts ==
    ASSUME NEW acc \in AccType, NEW n \in Nat, NEW ts \in Nat
    PROVE  LET z == BuyUnits(acc, n, ts)
           IN  /\ z \in AccType /\ z.sold = acc.sold /\ z.held = acc.held
               /\ Len(z.units) = Len(acc.units) + n
               /\ \A j \in 1..Len(acc.units) : z.units[j] = acc.units[j]
               /\ \A j \in (Len(acc.units) + 1)..(Len(acc.units) + n) : z.units[j] = ts
<1>1. PICK z, new, m, U : /\ z = BuyUnits(acc, n, ts) /\ new = [k \in 1..n |-> ts]
                          /\ U = acc.units /\ m = Len(U)
  OBVIOUS
<1>2. U \in Seq(Nat) /\ m \in Nat /\ acc.sold \in Nat /\ acc.held \in Int
  BY <1>1 DEF AccType
<1>3. new \in Seq(Nat) /\ Len(new) = n
  BY <1>1
<1>4. PICK V : V = U \o new
  OBVIOUS
<1>5. /\ V \in Seq(Nat) /\ Len(V) = m + n
      /\ \A j \in 1..m : V[j] = U[j]
      /\ \A j \in (m + 1)..(m + n) : V[j] = new[j - m]
  BY <1>1, <1>2, <1>3, <1>4
<1>6. \A j \in (m + 1)..(m + n) : V[j] = ts
  <2>1. \A j \in (m + 1)..(m + n) : j - m \in 1..n
    BY <1>2
  <2> QED BY <1>1, <1>5, <2>1
<1>7. z = [acc EXCEPT !.units = V]
  BY <1>1, <1>4 DEF BuyUnits
<1>8. z \in AccType /\ z.units = V /\ z.sold = acc.sold /\ z.held = acc.held
  BY ONLY acc \in AccType, <1>5, <1>7 DEF AccType
<1> QED BY <1>1, <1>5, <1>6, <1>8

(* The times the units from the cursor on have been held at ts.            *)
HeldTimes(acc, ts) == [j \in 1..(Len(acc.units) - acc.sold) |-> ts - acc.units[acc.sold + j]]

(* A sale of the unit account sells its amount, or all that is left, in    *)
(* the order of the units.                                                 *)
LEMMA SellUnitsFacts ==
    ASSUME NEW acc \in AccType, acc.sold <= Len(acc.units), NEW n \in Nat, NEW ts \in Nat
    PROVE  LET z == SellUnits(acc, n, ts)
               m == Edge(acc.sold, Len(acc.units), n) - acc.sold
           IN  /\ z \in AccType /\ z.units = acc.units /\ z.sold = acc.sold + m
               /\ z.held = acc.held + Total(HeldTimes(acc, ts), m)
               /\ z.sold <= Len(acc.units)
               /\ \A i \in 1..(Len(acc.units) - acc.sold) :
                      /\ HeldTimes(acc, ts)[i] \in Int
                      /\ HeldTimes(acc, ts)[i] = ts - acc.units[acc.sold + i]
<1>1. PICK U, lo, hi, f, m, z : /\ U = acc.units /\ lo = acc.sold /\ hi = Len(U)
                                /\ f = HeldTimes(acc, ts) /\ m = Edge(lo, hi, n) - lo
                                /\ z = SellUnits(acc, n, ts)
  OBVIOUS
<1>2. U \in Seq(Nat) /\ lo \in Nat /\ hi \in Nat /\ acc.held \in Int /\ lo <= hi
  BY <1>1 DEF AccType
<1>3. m \in Nat /\ lo + m <= hi /\ m = (IF n <= hi - lo THEN n ELSE hi - lo)
  BY ONLY <1>1, <1>2, n \in Nat DEF Edge
<1>4. f = [j \in 1..(hi - lo) |-> ts - U[lo + j]]
  BY <1>1 DEF HeldTimes
<1>5. \A i \in 1..(hi - lo) : f[i] \in Int /\ f[i] = ts - U[lo + i]
  <2> SUFFICES ASSUME NEW i \in 1..(hi - lo) PROVE f[i] \in Int /\ f[i] = ts - U[lo + i]
    OBVIOUS
  <2>1. lo + i \in 1..hi
    BY <1>2
  <2>2. U[lo + i] \in Nat
    <3>1. \A k \in 1..hi : U[k] \in Nat
      BY ONLY <1>1, <1>2
    <3> QED BY ONLY <2>1, <3>1
  <2> QED BY <1>4, <2>2
<1>6. PICK k : k = [j \in 1..m |-> ts - U[lo + j]]
  OBVIOUS
<1>7. Total(k, m) = Total(f, m) /\ Total(f, m) \in Int
  <2>1. \A i \in 1..m : i \in 1..(hi - lo)
    BY <1>2, <1>3
  <2>2. \A i \in 1..m : f[i] \in Int /\ f[i] = k[i]
    BY <1>5, <1>6, <2>1
  <2> QED BY ONLY <1>3, <2>2, TotalSame, TotalInt
<1>8. z = [acc EXCEPT !.sold = @ + m, !.held = @ + Total(k, m)]
  BY <1>1, <1>3, <1>6 DEF SellUnits
<1>9. lo + m \in Nat /\ acc.held + Total(k, m) \in Int
  BY ONLY <1>2, <1>3, <1>7
<1>10. z \in AccType /\ z.units = U /\ z.sold = lo + m /\ z.held = acc.held + Total(k, m)
  BY ONLY acc \in AccType, <1>1, <1>8, <1>9 DEF AccType
<1> QED BY <1>1, <1>3, <1>5, <1>7, <1>10

(* An account whose cursor is within its units.                            *)
OpenAccounts == {acc \in AccType : acc.sold <= Len(acc.units)}

(* The unit account never sells more than it has, row by row.              *)
LEMMA AddUnitsType ==
    ASSUME NEW acc \in OpenAccounts, NEW r \in RowType
    PROVE  AddUnits(acc, r) \in OpenAccounts
<1>1. acc \in AccType /\ acc.sold <= Len(acc.units) /\ acc.sold \in Nat /\ Len(acc.units) \in Nat
  BY DEF OpenAccounts, AccType
<1>2. r.amountOut \in Nat /\ r.amountIn \in Nat /\ r.ts \in Nat
  BY RowFields
<1>3. CASE r.action \in {"BUY", "RECEIVE"}
  <2>1. PICK z : z = BuyUnits(acc, r.amountIn, r.ts)
    OBVIOUS
  <2>2. z \in AccType /\ z.sold = acc.sold /\ Len(z.units) = Len(acc.units) + r.amountIn
    <3>1. acc \in AccType /\ r.amountIn \in Nat /\ r.ts \in Nat
      BY <1>1, <1>2
    <3> QED BY ONLY <2>1, <3>1, BuyUnitsFacts
  <2>3. z.sold <= Len(z.units)
    BY ONLY <1>1, <1>2, <2>2
  <2> QED BY <1>3, <2>1, <2>2, <2>3 DEF AddUnits, OpenAccounts
<1>4. CASE r.action \notin {"BUY", "RECEIVE"}
  <2>1. PICK z : z = SellUnits(acc, r.amountOut, r.ts)
    OBVIOUS
  <2>2. z \in AccType /\ z.units = acc.units /\ z.sold <= Len(acc.units)
    BY <1>1, <1>2, <2>1, SellUnitsFacts
  <2> QED BY <1>4, <2>1, <2>2 DEF AddUnits, OpenAccounts
<1> QED BY <1>3, <1>4

(* The units of an account were bought by the time ts, and it has added up *)
(* no negative time.                                                       *)
Aged(acc, ts) == /\ acc.held \in Nat
                 /\ \A j \in 1..Len(acc.units) : acc.units[j] <= ts

(* No unit is held for a negative time.                                    *)
LEMMA AgedHeldTimes ==
    ASSUME NEW acc \in OpenAccounts, NEW ts \in Nat, Aged(acc, ts)
    PROVE  \A i \in 1..(Len(acc.units) - acc.sold) : HeldTimes(acc, ts)[i] \in Nat
<1> SUFFICES ASSUME NEW i \in 1..(Len(acc.units) - acc.sold)
             PROVE  HeldTimes(acc, ts)[i] \in Nat
  OBVIOUS
<1>1. PICK U, j : U = acc.units /\ j = acc.sold + i
  OBVIOUS
<1>2. U \in Seq(Nat) /\ acc.sold \in Nat /\ Len(U) \in Nat
  BY <1>1 DEF OpenAccounts, AccType
<1>3. j \in 1..Len(U)
  BY <1>1, <1>2
<1>4. U[j] \in Nat /\ U[j] <= ts
  <2>1. U[j] \in Nat
    BY ONLY <1>2, <1>3
  <2>2. \A k \in 1..Len(U) : U[k] <= ts
    BY <1>1, Zenon DEF Aged
  <2> QED BY ONLY <1>3, <2>1, <2>2
<1>5. HeldTimes(acc, ts)[i] = ts - U[j]
  BY <1>1 DEF HeldTimes
<1> QED BY ONLY <1>4, <1>5, ts \in Nat

(* A row that comes later leaves it so.                                    *)
LEMMA StaysAged ==
    ASSUME NEW acc \in OpenAccounts, NEW r \in RowType, Aged(acc, r.ts)
    PROVE  Aged(AddUnits(acc, r), r.ts)
<1>1. acc \in AccType /\ acc.sold <= Len(acc.units) /\ acc.sold \in Nat /\ Len(acc.units) \in Nat
  BY DEF OpenAccounts, AccType
<1>2. r.amountOut \in Nat /\ r.amountIn \in Nat /\ r.ts \in Nat
  BY RowFields
<1>3. acc.held \in Nat /\ \A j \in 1..Len(acc.units) : acc.units[j] <= r.ts
  BY DEF Aged
<1>4. CASE r.action \in {"BUY", "RECEIVE"}
  <2>1. PICK z : z = BuyUnits(acc, r.amountIn, r.ts)
    OBVIOUS
  <2>2. /\ z.held = acc.held /\ Len(z.units) = Len(acc.units) + r.amountIn
        /\ \A j \in 1..Len(acc.units) : z.units[j] = acc.units[j]
        /\ \A j \in (Len(acc.units) + 1)..(Len(acc.units) + r.amountIn) : z.units[j] = r.ts
    <3>1. acc \in AccType /\ r.amountIn \in Nat /\ r.ts \in Nat
      BY <1>1, <1>2
    <3> QED BY ONLY <2>1, <3>1, BuyUnitsFacts
  <2>3. \A j \in 1..Len(z.units) : z.units[j] <= r.ts
    BY ONLY <1>1, <1>2, <1>3, <2>2
  <2> QED BY <1>3, <1>4, <2>1, <2>2, <2>3 DEF AddUnits, Aged
<1>5. CASE r.action \notin {"BUY", "RECEIVE"}
  <2>1. PICK z, m : /\ z = SellUnits(acc, r.amountOut, r.ts)
                    /\ m = Edge(acc.sold, Len(acc.units), r.amountOut) - acc.sold
    OBVIOUS
  <2>2. /\ z.units = acc.units /\ z.sold = acc.sold + m /\ z.sold <= Len(acc.units)
        /\ z.held = acc.held + Total(HeldTimes(acc, r.ts), m)
    BY <1>1, <1>2, <2>1, SellUnitsFacts
  <2>3. m \in Nat /\ acc.sold + m <= Len(acc.units)
    BY ONLY <1>1, <1>2, <2>1 DEF Edge
  <2>4. \A i \in 1..m : HeldTimes(acc, r.ts)[i] \in Nat
    <3>1. \A i \in 1..m : i \in 1..(Len(acc.units) - acc.sold)
      BY ONLY <1>1, <2>3
    <3> QED BY ONLY <1>2, <3>1, AgedHeldTimes, Aged(acc, r.ts), acc \in OpenAccounts
  <2>5. Total(HeldTimes(acc, r.ts), m) \in Nat
    BY ONLY <2>3, <2>4, TotalNat
  <2>6. z.held \in Nat
    BY ONLY <1>3, <2>2, <2>5
  <2> QED BY <1>3, <1>5, <2>1, <2>2, <2>6 DEF AddUnits, Aged
<1> QED BY <1>4, <1>5

(* A row takes a well formed tally to a well formed tally.                 *)
LEMMA AddRowType ==
    ASSUME NEW tally \in TallyType, NEW r \in RowType, NEW usd \in Nat
    PROVE  AddRow(tally, r, usd) \in TallyType
BY RowFields, AddRowBuys, AddRowSells

(* The tally and the units, row by row.                                    *)
Tallies(h, s, usd) == /\ h[0] = NoTally
                      /\ \A k \in 1..Len(s) : h[k] = AddRow(h[k - 1], s[k], usd)
Accounts(h, s) == /\ h[0] = NoUnits
                  /\ \A k \in 1..Len(s) : h[k] = AddUnits(h[k - 1], s[k])

(* Tally is the last of its tallies, one per row, and each of them is well *)
(* formed.                                                                 *)
LEMMA TallyIs ==
    ASSUME NEW s \in Seq(RowType), NEW usd \in Nat
    PROVE  \E h : /\ Tallies(h, s, usd) /\ Tally(s, usd) = h[Len(s)]
                  /\ \A k \in 0..Len(s) : h[k] \in TallyType
<1> DEFINE n == Len(s)
           step == [p \in TallyType \X (1..n) |-> AddRow(p[1], s[p[2]], usd)]
           tally == CHOOSE h : h = [k \in 0..n |-> IF k = 0 THEN NoTally
                                                   ELSE AddRow(h[k - 1], s[k], usd)]
<1>1. n \in Nat /\ \A k \in 1..n : s[k] \in RowType
  OBVIOUS
<1>2. \A z \in TallyType : \A k \in 1..n : step[<<z, k>>] = AddRow(z, s[k], usd)
  OBVIOUS
<1> HIDE DEF step, n
<1>3. \A z \in TallyType : \A k \in 1..n : step[<<z, k>>] \in TallyType
  BY <1>1, <1>2, AddRowType
<1>4. NoTally \in TallyType
  BY DEF NoTally, TallyType
<1>5. PICK h \in [0..n -> TallyType] : Iterates(h, NoTally, step, n)
  <2>1. StaysIn(TallyType, step, n)
    BY <1>3 DEF StaysIn
  <2> QED BY ONLY <1>1, <1>4, <2>1, RecursionExists
<1>6. ASSUME NEW k \in 1..n PROVE h[k] = AddRow(h[k - 1], s[k], usd)
  <2>1. k - 1 \in 0..n /\ h[k - 1] \in TallyType
    BY <1>1
  <2> QED BY <1>2, <1>5, <2>1 DEF Iterates
<1>7. h = [k \in 0..n |-> IF k = 0 THEN NoTally ELSE AddRow(h[k - 1], s[k], usd)]
  <2>1. h[0] = NoTally /\ h = [k \in 0..n |-> h[k]]
    BY <1>5 DEF Iterates
  <2>2. \A k \in 0..n : h[k] = IF k = 0 THEN NoTally ELSE AddRow(h[k - 1], s[k], usd)
    <3>1. \A k \in 0..n : k # 0 => k \in 1..n
      BY <1>1
    <3> QED BY <1>6, <2>1, <3>1
  <2> QED BY ONLY <2>1, <2>2
<1>8. tally = [k \in 0..n |-> IF k = 0 THEN NoTally ELSE AddRow(tally[k - 1], s[k], usd)]
  BY <1>7
<1> HIDE DEF tally
<1>9. tally[0] = NoTally /\ \A k \in 1..n : tally[k] = AddRow(tally[k - 1], s[k], usd)
  <2>1. 0 \in 0..n /\ \A k \in 1..n : k \in 0..n /\ k # 0
    BY <1>1
  <2> QED BY ONLY <1>8, <2>1
<1>10. \A k \in 0..n : tally[k] \in TallyType
  <2>1. \A k \in 1..n : tally[k - 1] \in TallyType => tally[k] \in TallyType
    BY <1>1, <1>9, AddRowType
  <2> QED BY <1>1, <1>4, <1>9, <2>1, StaysInside
<1>11. Tally(s, usd) = tally[n]
  BY DEF Tally, tally, n
<1> QED BY <1>9, <1>10, <1>11 DEF Tallies, n

(* Units is the last of its accounts, one per row, and each of them is     *)
(* well formed.                                                            *)
LEMMA UnitsIs ==
    ASSUME NEW s \in Seq(RowType)
    PROVE  \E h : /\ Accounts(h, s) /\ Units(s) = h[Len(s)]
                  /\ \A k \in 0..Len(s) : h[k] \in OpenAccounts
<1> DEFINE n == Len(s)
           step == [p \in OpenAccounts \X (1..n) |-> AddUnits(p[1], s[p[2]])]
           acc == CHOOSE h : h = [k \in 0..n |-> IF k = 0 THEN NoUnits ELSE AddUnits(h[k - 1], s[k])]
<1>1. n \in Nat /\ \A k \in 1..n : s[k] \in RowType
  OBVIOUS
<1>2. \A z \in OpenAccounts : \A k \in 1..n : step[<<z, k>>] = AddUnits(z, s[k])
  OBVIOUS
<1> HIDE DEF step, n
<1>3. \A z \in OpenAccounts : \A k \in 1..n : step[<<z, k>>] \in OpenAccounts
  BY <1>1, <1>2, AddUnitsType
<1>4. NoUnits \in OpenAccounts
  BY DEF NoUnits, OpenAccounts, AccType
<1>5. PICK h \in [0..n -> OpenAccounts] : Iterates(h, NoUnits, step, n)
  <2>1. StaysIn(OpenAccounts, step, n)
    BY <1>3 DEF StaysIn
  <2> QED BY ONLY <1>1, <1>4, <2>1, RecursionExists
<1>6. ASSUME NEW k \in 1..n PROVE h[k] = AddUnits(h[k - 1], s[k])
  <2>1. k - 1 \in 0..n /\ h[k - 1] \in OpenAccounts
    BY <1>1
  <2> QED BY <1>2, <1>5, <2>1 DEF Iterates
<1>7. h = [k \in 0..n |-> IF k = 0 THEN NoUnits ELSE AddUnits(h[k - 1], s[k])]
  <2>1. h[0] = NoUnits /\ h = [k \in 0..n |-> h[k]]
    BY <1>5 DEF Iterates
  <2>2. \A k \in 0..n : h[k] = IF k = 0 THEN NoUnits ELSE AddUnits(h[k - 1], s[k])
    <3>1. \A k \in 0..n : k # 0 => k \in 1..n
      BY <1>1
    <3> QED BY <1>6, <2>1, <3>1
  <2> QED BY ONLY <2>1, <2>2
<1>8. acc = [k \in 0..n |-> IF k = 0 THEN NoUnits ELSE AddUnits(acc[k - 1], s[k])]
  BY <1>7
<1> HIDE DEF acc
<1>9. acc[0] = NoUnits /\ \A k \in 1..n : acc[k] = AddUnits(acc[k - 1], s[k])
  <2>1. 0 \in 0..n /\ \A k \in 1..n : k \in 0..n /\ k # 0
    BY <1>1
  <2> QED BY ONLY <1>8, <2>1
<1>10. \A k \in 0..n : acc[k] \in OpenAccounts
  <2>1. \A k \in 1..n : acc[k - 1] \in OpenAccounts => acc[k] \in OpenAccounts
    BY <1>1, <1>9, AddUnitsType
  <2> QED BY <1>1, <1>4, <1>9, <2>1, StaysInside
<1>11. Units(s) = acc[n]
  BY DEF Units, acc, n
<1> QED BY <1>9, <1>10, <1>11 DEF Accounts, n

(* The lots of a tally stand for the units that are not yet sold, and its  *)
(* held time is theirs while that fits into a Duration.                    *)
Agree(tally, acc) == /\ tally.sold = acc.sold
                     /\ acc.held <= MaxInt64 => tally.held = acc.held
                     /\ Match(tally.lots, acc.units, acc.sold, Len(acc.units))

(* One row takes a tally and an account that agree to a tally and an       *)
(* account that agree.                                                     *)
LEMMA RowAgrees ==
    ASSUME NEW tally \in TallyType, NEW acc \in OpenAccounts, NEW r \in RowType, NEW usd \in Nat,
           Agree(tally, acc), Aged(acc, r.ts)
    PROVE  Agree(AddRow(tally, r, usd), AddUnits(acc, r))
<1>1. PICK U, lo, hi, L : U = acc.units /\ lo = acc.sold /\ hi = Len(U) /\ L = tally.lots
  OBVIOUS
<1>2. /\ acc \in AccType /\ lo <= hi /\ lo \in Nat /\ hi \in Nat /\ L \in Seq(LotType)
      /\ tally.held \in Int /\ tally.sold \in Nat
  BY <1>1 DEF OpenAccounts, AccType, TallyType
<1>3. r.amountOut \in Nat /\ r.amountIn \in Nat /\ r.ts \in Nat
  BY RowFields
<1>4. Match(L, U, lo, hi) /\ (acc.held <= MaxInt64 => tally.held = acc.held) /\ tally.sold = lo
  BY <1>1 DEF Agree
<1>5. CASE r.action \in {"BUY", "RECEIVE"}
  <2>1. PICK y, z, new : /\ y = AddRow(tally, r, usd) /\ z = BuyUnits(acc, r.amountIn, r.ts)
                         /\ new = [amount |-> r.amountIn, ts |-> r.ts]
    OBVIOUS
  <2>2. y.lots = Append(L, new) /\ y.held = tally.held /\ y.sold = tally.sold
    BY <1>1, <1>5, <2>1, AddRowBuys
  <2>3. /\ z.sold = lo /\ z.held = acc.held /\ Len(z.units) = hi + r.amountIn
        /\ \A j \in 1..hi : z.units[j] = U[j]
        /\ \A j \in (hi + 1)..(hi + r.amountIn) : z.units[j] = r.ts
    <3>1. /\ z.sold = acc.sold /\ z.held = acc.held /\ Len(z.units) = Len(acc.units) + r.amountIn
          /\ \A j \in 1..Len(acc.units) : z.units[j] = acc.units[j]
          /\ \A j \in (Len(acc.units) + 1)..(Len(acc.units) + r.amountIn) : z.units[j] = r.ts
      <4>1. acc \in AccType /\ r.amountIn \in Nat /\ r.ts \in Nat /\ z = BuyUnits(acc, r.amountIn, r.ts)
        BY ONLY <1>2, <1>3, <2>1
      <4> QED BY ONLY <4>1, BuyUnitsFacts
    <3>2. acc.units = U /\ acc.sold = lo /\ Len(acc.units) = hi
      BY ONLY <1>1
    <3> QED BY ONLY <3>1, <3>2
  <2>4. new \in LotType /\ new.amount = r.amountIn /\ new.ts = r.ts
    BY <1>3, <2>1 DEF LotType
  <2>5. \A j \in (lo + 1)..hi : z.units[j] = U[j]
    <3>1. \A j \in (lo + 1)..hi : j \in 1..hi
      BY ONLY <1>2
    <3> QED BY ONLY <2>3, <3>1
  <2>6. Match(Append(L, new), z.units, lo, hi + new.amount)
    <3>1. \A j \in (hi + 1)..(hi + new.amount) : z.units[j] = new.ts
      BY ONLY <2>3, <2>4
    <3>2. PICK V : V = z.units
      OBVIOUS
    <3>3. /\ L \in Seq(LotType) /\ lo \in Nat /\ hi \in Nat /\ Match(L, U, lo, hi) /\ new \in LotType
          /\ \A j \in (lo + 1)..hi : V[j] = U[j]
          /\ \A j \in (hi + 1)..(hi + new.amount) : V[j] = new.ts
      BY ONLY <1>2, <1>4, <2>4, <2>5, <3>1, <3>2
    <3>4. Match(Append(L, new), V, lo, hi + new.amount)
      BY ONLY <3>3, MatchAppend
    <3> QED BY ONLY <3>2, <3>4
  <2>7. Agree(y, z)
    BY <1>4, <2>2, <2>3, <2>4, <2>6 DEF Agree
  <2> QED BY <1>5, <2>1, <2>7 DEF AddUnits
<1>6. CASE r.action \in {"SELL", "TRANSFER"}
  <2>1. PICK y, z, sale, f, m : /\ y = AddRow(tally, r, usd) /\ z = SellUnits(acc, r.amountOut, r.ts)
                                /\ sale = SellLots(L, r.amountOut, r.ts)
                                /\ f = HeldTimes(acc, r.ts)
                                /\ m = Edge(lo, hi, r.amountOut) - lo
    OBVIOUS
  <2>2. /\ y.lots = sale.lots /\ y.held = Wrap(tally.held + sale.held)
        /\ y.sold = tally.sold + sale.sold
    BY <1>1, <1>6, <2>1, AddRowSells
  <2>3. /\ z.units = U /\ z.sold = lo + m /\ z.held = acc.held + Total(f, m)
        /\ \A i \in 1..(hi - lo) : f[i] \in Int /\ f[i] = r.ts - U[lo + i]
    <3>1. acc.sold <= Len(acc.units)
      BY <1>1, <1>2
    <3>2. PICK k : k = Edge(acc.sold, Len(acc.units), r.amountOut) - acc.sold
      OBVIOUS
    <3>3. /\ z.units = acc.units /\ z.sold = acc.sold + k
          /\ z.held = acc.held + Total(HeldTimes(acc, r.ts), k)
          /\ \A i \in 1..(Len(acc.units) - acc.sold) :
                 /\ HeldTimes(acc, r.ts)[i] \in Int
                 /\ HeldTimes(acc, r.ts)[i] = r.ts - acc.units[acc.sold + i]
      <4>1. acc \in AccType /\ r.amountOut \in Nat /\ r.ts \in Nat /\ z = SellUnits(acc, r.amountOut, r.ts)
        BY ONLY <1>2, <1>3, <2>1
      <4>2. LET v == SellUnits(acc, r.amountOut, r.ts)
                d == Edge(acc.sold, Len(acc.units), r.amountOut) - acc.sold
            IN  /\ v.units = acc.units /\ v.sold = acc.sold + d
                /\ v.held = acc.held + Total(HeldTimes(acc, r.ts), d)
                /\ \A i \in 1..(Len(acc.units) - acc.sold) :
                       /\ HeldTimes(acc, r.ts)[i] \in Int
                       /\ HeldTimes(acc, r.ts)[i] = r.ts - acc.units[acc.sold + i]
        BY ONLY <3>1, <4>1, SellUnitsFacts
      <4> QED BY ONLY <3>2, <4>1, <4>2
    <3>4. k = m
      BY ONLY <1>1, <2>1, <3>2
    <3>5. acc.units = U /\ acc.sold = lo /\ Len(acc.units) = hi /\ HeldTimes(acc, r.ts) = f
      BY ONLY <1>1, <2>1
    <3> QED BY ONLY <3>3, <3>4, <3>5
  <2>4. \A i \in 1..(hi - lo) : f[i] \in Nat
    BY <1>1, <1>3, <2>1, AgedHeldTimes
  <2>5. SoldUpTo(sale, U, f, lo, hi, r.amountOut)
    <3>1. \A i \in 1..(hi - lo) : f[i] \in Nat /\ f[i] = r.ts - U[lo + i]
      BY ONLY <2>3, <2>4
    <3> QED BY ONLY <1>2, <1>3, <1>4, <2>1, <3>1, SellLotsMatches
  <2>6. /\ sale.sold = m /\ (Total(f, m) <= MaxInt64 => sale.held = Total(f, m))
        /\ Match(sale.lots, U, Edge(lo, hi, r.amountOut), hi)
    BY <2>1, <2>5 DEF SoldUpTo
  <2>7. lo + m = Edge(lo, hi, r.amountOut)
    <3>1. Edge(lo, hi, r.amountOut) \in Nat
      BY ONLY <1>2, <1>3 DEF Edge
    <3>2. m = Edge(lo, hi, r.amountOut) - lo
      BY ONLY <2>1
    <3> QED BY ONLY <1>2, <3>1, <3>2
  <2>8. Agree(y, z)
    <3>1. /\ y.lots = sale.lots /\ y.sold = z.sold
          /\ z.units = U /\ z.sold = Edge(lo, hi, r.amountOut) /\ Len(z.units) = hi
      BY ONLY <1>1, <1>4, <2>2, <2>3, <2>6, <2>7
    <3>2. Match(y.lots, z.units, z.sold, Len(z.units))
      BY ONLY <2>6, <3>1
    <3>3. PICK v, w : v = acc.held /\ w = Total(f, m)
      OBVIOUS
    <3>4. v \in Nat /\ w \in Nat
      <4>1. v \in Nat
        BY <3>3 DEF Aged
      <4>2. m \in Nat /\ \A i \in 1..m : i \in 1..(hi - lo)
        BY ONLY <1>2, <1>3, <2>1 DEF Edge
      <4> QED BY ONLY <2>4, <3>3, <4>1, <4>2, TotalNat
    <3>5. z.held = v + w /\ y.held = Wrap(tally.held + sale.held)
      BY ONLY <2>2, <2>3, <3>3
    <3>6. ASSUME v + w <= MaxInt64
          PROVE  y.held = v + w
      <4>1. v <= MaxInt64 /\ w <= MaxInt64 /\ v + w \in 0..MaxInt64
        BY ONLY <3>4, <3>6, MaxIsInt
      <4>2. tally.held = v /\ sale.held = w
        BY ONLY <1>4, <2>6, <3>3, <4>1
      <4> QED BY ONLY <3>5, <4>1, <4>2, WrapFits
    <3> QED BY ONLY <3>1, <3>2, <3>5, <3>6 DEF Agree
  <2>9. r.action \notin {"BUY", "RECEIVE"}
    BY <1>6
  <2> QED BY <2>1, <2>8, <2>9 DEF AddUnits
<1> QED BY <1>5, <1>6, RowFields

(* CalculateTokenPnL matches the sales first in, first out: for every      *)
(* sequence of rows by time, the amount sold that the lots give is that of *)
(* the account unit by unit, and so is the time held, if that is at most   *)
(* the longest Duration; no step before has then left the range.           *)
THEOREM LotsMatchUnits ==
    ASSUME NEW s \in Seq(RowType), \A k \in 1..Len(s) - 1 : s[k].ts <= s[k + 1].ts, NEW usd \in Nat
    PROVE  /\ Tally(s, usd).sold = Units(s).sold
           /\ Units(s).held <= MaxInt64 => Tally(s, usd).held = Units(s).held
<1>1. PICK h : /\ Tallies(h, s, usd) /\ Tally(s, usd) = h[Len(s)]
               /\ \A k \in 0..Len(s) : h[k] \in TallyType
  BY TallyIs
<1>2. PICK a : /\ Accounts(a, s) /\ Units(s) = a[Len(s)]
               /\ \A k \in 0..Len(s) : a[k] \in OpenAccounts
  BY UnitsIs
<1>3. PICK n : n = Len(s) /\ n \in Nat
  OBVIOUS
<1> DEFINE Good(k) == Agree(h[k], a[k]) /\ (k < n => Aged(a[k], s[k + 1].ts))
           T == {k \in Nat : k <= n => Good(k)}
<1>4. 0 \in T
  <2>1. h[0] = NoTally /\ a[0] = NoUnits
    BY <1>1, <1>2 DEF Tallies, Accounts
  <2>2. Len(<<>>) = 0 /\ Match(<<>>, <<>>, 0, 0)
    BY MatchEmpty
  <2>3. Agree(NoTally, NoUnits)
    BY <2>2 DEF Agree, NoTally, NoUnits
  <2>4. Len(NoUnits.units) = 0 /\ NoUnits.held = 0
    BY <2>2 DEF NoUnits
  <2>5. Aged(a[0], s[0 + 1].ts)
    BY <2>1, <2>4 DEF Aged
  <2> QED BY <2>1, <2>3, <2>5
<1>5. ASSUME NEW k \in Nat, k \in T PROVE k + 1 \in T
  <2> SUFFICES ASSUME k + 1 <= n
               PROVE  /\ Agree(h[k + 1], a[k + 1])
                      /\ k + 1 < n => Aged(a[k + 1], s[(k + 1) + 1].ts)
    OBVIOUS
  <2>1. /\ k \in 0..n /\ k + 1 \in 1..n /\ (k + 1) - 1 = k /\ k + 1 \in 0..n
        /\ Agree(h[k], a[k]) /\ Aged(a[k], s[k + 1].ts)
    <3>1. k <= n /\ k < n
      BY <1>3
    <3>2. Good(k)
      <4> HIDE DEF Good
      <4> QED BY <1>5, <3>1
    <3> QED BY ONLY <1>3, <3>1, <3>2, k \in Nat
  <2>2. h[k] \in TallyType /\ a[k] \in OpenAccounts /\ s[k + 1] \in RowType
    BY <1>1, <1>2, <1>3, <2>1
  <2>3. h[k + 1] = AddRow(h[k], s[k + 1], usd) /\ a[k + 1] = AddUnits(a[k], s[k + 1])
    BY <1>1, <1>2, <1>3, <2>1 DEF Tallies, Accounts
  <2>4. Agree(h[k + 1], a[k + 1])
    BY <2>1, <2>2, <2>3, RowAgrees
  <2>5. Aged(a[k + 1], s[k + 1].ts)
    BY <2>1, <2>2, <2>3, StaysAged
  <2>6. ASSUME k + 1 < n PROVE Aged(a[k + 1], s[(k + 1) + 1].ts)
    <3>1. k + 1 \in 1..Len(s) - 1 /\ (k + 1) + 1 \in 1..Len(s)
      BY <1>3, <2>1, <2>6
    <3>2. PICK v, w : v = s[k + 1].ts /\ w = s[(k + 1) + 1].ts
      OBVIOUS
    <3>3. v \in Nat /\ w \in Nat /\ v <= w
      <4>1. s[k + 1] \in RowType /\ s[(k + 1) + 1] \in RowType
        BY <2>2, <3>1
      <4>2. v \in Nat /\ w \in Nat
        BY <3>2, <4>1, RowFields
      <4> QED BY <3>1, <3>2, <4>2
    <3>4. PICK U : U = a[k + 1].units
      OBVIOUS
    <3>5. a[k + 1].held \in Nat /\ \A j \in 1..Len(U) : U[j] <= v
      BY <2>5, <3>2, <3>4 DEF Aged
    <3>6. U \in Seq(Nat)
      BY <1>2, <1>3, <2>1, <3>4 DEF OpenAccounts, AccType
    <3>7. \A j \in 1..Len(U) : U[j] <= w
      BY ONLY <3>3, <3>5, <3>6
    <3> QED BY <3>2, <3>4, <3>5, <3>7 DEF Aged
  <2> QED BY <2>4, <2>6
<1> HIDE DEF T
<1>6. n \in T
  BY <1>3, <1>4, <1>5, Induction
<1>7. Agree(h[n], a[n])
  <2>1. Good(n)
    <3> HIDE DEF Good
    <3> QED BY <1>3, <1>6 DEF T
  <2> QED BY <2>1
<1> QED BY ONLY <1>1, <1>2, <1>3, <1>7 DEF Agree

(* The groups of a wallet are sequences of its rows, each row in one place. *)
LEMMA GroupFacts ==
    ASSUME rows \in Seq(RowType), NEW t
    PROVE  /\ Group(t) \in Seq(RowType)
           /\ \A k \in 1..Len(Group(t)) : Group(t)[k].token = t
           /\ PlacedIn(Group(t), rows, Len(rows))
<1>1. PICK S : S = {r \in Elements(rows) : r.token = t}
  OBVIOUS
<1>2. Group(t) = Keep(rows, S)
  BY <1>1 DEF Group
<1>3. Group(t) \in Seq(RowType \intersect S)
  BY <1>2, KeepSeq
<1>4. PlacedIn(Group(t), rows, Len(rows))
  BY <1>2, KeepPlaces
<1>5. \A k \in 1..Len(Group(t)) : Group(t)[k] \in RowType \intersect S
  BY <1>3
<1>6. Group(t) \in Seq(RowType)
  BY <1>3
<1> QED BY <1>1, <1>4, <1>5, <1>6

(* Sorting by the timestamp leaves a sequence of rows, by time.            *)
LEMMA SortedFacts ==
    ASSUME NEW s \in Seq(RowType), NEW z \in Sorted(s)
    PROVE  z \in Seq(RowType) /\ \A k \in 1..Len(z) - 1 : z[k].ts <= z[k + 1].ts
<1>1. PICK n : n = Len(s)
  OBVIOUS
<1>2. n \in Nat /\ \A k \in 1..n : s[k] \in RowType
  BY <1>1
<1>3. PICK p \in Bijection(1..n, 1..n) : /\ z = [k \in 1..n |-> s[p[k]]]
                                          /\ \A k \in 1..n - 1 : s[p[k]].ts <= s[p[k + 1]].ts
  BY <1>1 DEF Sorted, Orders
<1>4. \A k \in 1..n : p[k] \in 1..n
  BY DEF Bijection, Injection
<1>5. z \in [1..n -> RowType]
  BY <1>2, <1>3, <1>4
<1>6. z \in Seq(RowType) /\ Len(z) = n
  BY <1>2, <1>5
<1>7. \A k \in 1..n - 1 : z[k] = s[p[k]] /\ z[k + 1] = s[p[k + 1]]
  BY <1>2, <1>3
<1> QED BY <1>3, <1>6, <1>7

(* What CalculateTokenPnL returns for some order of the rows.              *)
Figured(s, usd, res) ==
    \E z \in Sorted(s) : \E latest \in LatestOf(z) : res = CalculateTokenPnL(z, usd, latest)

(* A result of CalculateTokenPnL has numbers for figures, and its sold     *)
(* amount and, as far as it fits, its held time are those of the units.    *)
LEMMA FiguredFacts ==
    ASSUME NEW s \in Seq(RowType), NEW usd \in Nat, NEW res, Figured(s, usd, res)
    PROVE  /\ res.buyValue \in Int /\ res.sellValue \in Int /\ res.realized \in Int
           /\ res.held \in Int /\ res.sold \in Int
           /\ \E z \in Sorted(s) :
                  /\ res.sold = Units(z).sold
                  /\ Units(z).held <= MaxInt64 => res.held = Units(z).held
<1>1. PICK z \in Sorted(s) : \E latest : res = CalculateTokenPnL(z, usd, latest)
  BY DEF Figured
<1>2. z \in Seq(RowType) /\ \A k \in 1..Len(z) - 1 : z[k].ts <= z[k + 1].ts
  BY SortedFacts
<1>3. PICK tally : tally = Tally(z, usd)
  OBVIOUS
<1>4. tally \in TallyType
  <2>1. PICK h : tally = h[Len(z)] /\ \A k \in 0..Len(z) : h[k] \in TallyType
    BY <1>2, <1>3, TallyIs
  <2>2. Len(z) \in 0..Len(z)
    BY <1>2
  <2> QED BY <2>1, <2>2
<1>5. /\ tally.buyTokens \in Nat /\ tally.sellTokens \in Nat /\ tally.buyValue \in Nat
      /\ tally.sellValue \in Nat /\ tally.held \in Int /\ tally.sold \in Nat
  BY <1>4 DEF TallyType
<1>6. RealizedPnL(tally) \in Int
  BY <1>5 DEF RealizedPnL
<1>7. /\ res.realized = RealizedPnL(tally) /\ res.buyValue = tally.buyValue
      /\ res.sellValue = tally.sellValue /\ res.held = tally.held /\ res.sold = tally.sold
  BY <1>1, <1>3 DEF CalculateTokenPnL
<1>8. tally.sold = Units(z).sold /\ (Units(z).held <= MaxInt64 => tally.held = Units(z).held)
  BY <1>2, <1>3, LotsMatchUnits
<1> QED BY <1>5, <1>6, <1>7, <1>8

-----------------------------------------------------------------------------
(* Sums over the tokens.                                                   *)

(* TokenAt is the inverse of Rank.                                         *)
LEMMA TokenAtRank ==
    /\ \A k \in 1..Cardinality(Tokens) : TokenAt(k) \in Tokens /\ Rank[TokenAt(k)] = k
    /\ \A t \in Tokens : TokenAt(Rank[t]) = t /\ Rank[t] \in 1..Cardinality(Tokens)
<1>1. ASSUME NEW k \in 1..Cardinality(Tokens)
      PROVE  TokenAt(k) \in Tokens /\ Rank[TokenAt(k)] = k
  <2>1. \E t \in Tokens : Rank[t] = k
    BY RankFacts
  <2> QED BY ONLY <2>1 DEF TokenAt
<1>2. ASSUME NEW t \in Tokens
      PROVE  TokenAt(Rank[t]) = t /\ Rank[t] \in 1..Cardinality(Tokens)
  <2>1. Rank[t] \in 1..Cardinality(Tokens)
    BY RankFacts
  <2>2. TokenAt(Rank[t]) \in Tokens /\ Rank[TokenAt(Rank[t])] = Rank[t]
    BY <1>1, <2>1
  <2> QED BY <2>1, <2>2, RankFacts
<1> QED BY <1>1, <1>2

(* The sum over no token is 0.                                             *)
LEMMA SumOfNothing ==
    ASSUME NEW f, DOMAIN f = {}
    PROVE  SumOver(f) = 0
<1>1. PICK k : k = [i \in 1..Cardinality(Tokens) |->
                       IF TokenAt(i) \in DOMAIN f THEN f[TokenAt(i)] ELSE 0]
  OBVIOUS
<1>2. \A i \in 1..Cardinality(Tokens) : k[i] = 0
  BY <1>1
<1>3. Cardinality(Tokens) \in Nat
  BY RankFacts
<1>4. Total(k, Cardinality(Tokens)) = 0
  BY <1>2, <1>3, TotalOfZeros
<1> QED BY <1>1, <1>4 DEF SumOver

(* The sum of numbers is a number.                                         *)
LEMMA SumIsInt ==
    ASSUME NEW f, \A u \in DOMAIN f : f[u] \in Int
    PROVE  SumOver(f) \in Int
<1>1. PICK n, k : /\ n = Cardinality(Tokens)
                  /\ k = [i \in 1..n |-> IF TokenAt(i) \in DOMAIN f THEN f[TokenAt(i)] ELSE 0]
  OBVIOUS
<1>2. n \in Nat /\ \A i \in 1..n : k[i] \in Int
  BY <1>1, RankFacts
<1>3. Total(k, n) \in Int
  BY ONLY <1>2, TotalInt
<1> QED BY <1>1, <1>3 DEF SumOver

(* One token more.                                                         *)
LEMMA SumOneMore ==
    ASSUME NEW f, NEW h, NEW t \in Tokens, t \notin DOMAIN f, DOMAIN h = DOMAIN f \union {t},
           DOMAIN f \subseteq Tokens, h[t] \in Int,
           \A u \in DOMAIN f : f[u] \in Int /\ h[u] = f[u]
    PROVE  SumOver(h) = SumOver(f) + h[t]
<1>1. PICK n, k, l, i : /\ n = Cardinality(Tokens) /\ i = Rank[t]
                        /\ k = [j \in 1..n |-> IF TokenAt(j) \in DOMAIN f THEN f[TokenAt(j)] ELSE 0]
                        /\ l = [j \in 1..n |-> IF TokenAt(j) \in DOMAIN h THEN h[TokenAt(j)] ELSE 0]
  OBVIOUS
<1>2. n \in Nat /\ i \in 1..n /\ TokenAt(i) = t
  BY <1>1, TokenAtRank, RankFacts
<1>3. \A j \in 1..n : TokenAt(j) \in Tokens /\ Rank[TokenAt(j)] = j
  BY <1>1, TokenAtRank
<1>4. \A j \in 1..n : k[j] \in Int /\ l[j] \in Int /\ (j # i => k[j] = l[j])
  <2> SUFFICES ASSUME NEW j \in 1..n
               PROVE  k[j] \in Int /\ l[j] \in Int /\ (j # i => k[j] = l[j])
    OBVIOUS
  <2>1. /\ k[j] = (IF TokenAt(j) \in DOMAIN f THEN f[TokenAt(j)] ELSE 0)
        /\ l[j] = (IF TokenAt(j) \in DOMAIN h THEN h[TokenAt(j)] ELSE 0)
    BY <1>1
  <2>2. j # i => TokenAt(j) # t
    BY <1>1, <1>3
  <2> QED BY <2>1, <2>2
<1>5. k[i] = 0 /\ l[i] = h[t]
  BY <1>1, <1>2
<1>6. Total(l, n) = Total(k, n) + l[i] - k[i]
  BY ONLY <1>2, <1>4, TotalUpdate
<1>7. Total(k, n) \in Int
  BY <1>2, <1>4, TotalInt
<1>8. SumOver(h) = Total(l, n) /\ SumOver(f) = Total(k, n)
  BY <1>1 DEF SumOver
<1> QED BY <1>5, <1>6, <1>7, <1>8

-----------------------------------------------------------------------------
(* The pages, and the theorem.                                             *)

(* The product of a page up to the last is an int.                         *)
LEMMA PageBounds ==
    ASSUME NEW n \in Nat, NEW p \in 1..LastPage
    PROVE  /\ PageSize \in Nat /\ PageSize > 0 /\ LastPage \in Nat
           /\ PageStart(n, p) = (IF (p - 1) * PageSize > n THEN n ELSE (p - 1) * PageSize)
           /\ PageEnd(n, p) = (IF p * PageSize > n THEN n ELSE p * PageSize)
           /\ (p - 1) * PageSize \in Nat /\ (p - 1) * PageSize <= p * PageSize
           /\ p * PageSize \in Nat /\ p * PageSize <= MaxInt64
<1>1. PICK z, m, x, a, b : /\ z = PageSize /\ m = LastPage /\ x = MaxInt64
                           /\ a = (p - 1) * z /\ b = p * z
  OBVIOUS
<1>2. z \in Nat /\ z > 0 /\ x \in Nat
  <2>1. PageSize \in Nat \ {0}
    BY PnlAssumption, Zenon
  <2> QED BY ONLY <1>1, <2>1, MaxIsInt
<1>3. m = x \div z
  BY <1>1 DEF LastPage
<1>4. m \in Nat /\ m * z <= x
  BY ONLY <1>2, <1>3
<1>5. p \in Nat /\ p - 1 \in Nat /\ p <= m
  BY <1>1, <1>4
<1>6. b \in Nat /\ a \in Nat /\ b = a + z
  BY ONLY <1>1, <1>2, <1>5
<1>7. b <= m * z
  BY ONLY <1>1, <1>2, <1>4, <1>5
<1>8. b \in 0..x /\ a \in 0..x /\ a <= b
  BY ONLY <1>2, <1>4, <1>6, <1>7
<1>9. Wrap(a) = a /\ Wrap(b) = b
  BY ONLY <1>1, <1>8, WrapFits
<1> QED BY <1>1, <1>2, <1>4, <1>8, <1>9 DEF PageStart, PageEnd

(* No page is cut outside of the results, and one past the end is empty.   *)
LEMMA PagesFit ==
    ASSUME NEW n \in Nat, NEW p \in 1..LastPage
    PROVE  /\ 0 <= PageStart(n, p) /\ PageStart(n, p) <= PageEnd(n, p) /\ PageEnd(n, p) <= n
           /\ p > TotalPages(n) => PageStart(n, p) = PageEnd(n, p)
<1>1. PICK z, m, a, b : z = PageSize /\ m = TotalPages(n) /\ a = (p - 1) * z /\ b = p * z
  OBVIOUS
<1>2. /\ z \in Nat /\ z > 0 /\ a \in Nat /\ b \in Nat /\ a <= b
      /\ PageStart(n, p) = (IF a > n THEN n ELSE a)
      /\ PageEnd(n, p) = (IF b > n THEN n ELSE b)
  BY <1>1, PageBounds
<1>3. ASSUME p > m PROVE n <= a
  <2>1. m = (n + z - 1) \div z
    BY <1>1 DEF TotalPages
  <2>2. m \in Nat /\ n + z - 1 < (m + 1) * z
    BY ONLY <1>2, <2>1, n \in Nat
  <2>3. p \in Nat /\ p - 1 \in Nat /\ m <= p - 1
    BY <1>3, <2>2, PageBounds
  <2>4. m * z <= a
    BY ONLY <1>1, <1>2, <2>2, <2>3
  <2>5. m * z \in Nat /\ (m + 1) * z = m * z + z
    BY ONLY <1>2, <2>2
  <2> QED BY ONLY <1>2, <2>2, <2>4, <2>5, n \in Nat
<1> QED BY ONLY <1>1, <1>2, <1>3, n \in Nat

(* Each of n results is on one of the pages of TokenPnlHandler, and on no  *)
(* other, also among the pages past the end: for every size of a page and  *)
(* every number of results that fits, with a page, into an int.            *)
THEOREM PagesPartition ==
    ASSUME NEW n \in Nat, n + PageSize <= MaxInt64, NEW k \in 1..n
    PROVE  \E p \in 1..LastPage :
               {q \in 1..LastPage : PageStart(n, q) < k /\ k <= PageEnd(n, q)} = {p}
<1>1. PageSize \in Nat /\ PageSize > 0
  <2>1. PageSize \in Nat \ {0}
    BY PnlAssumption, Zenon
  <2> QED BY ONLY <2>1
<1>2. PICK z, q, m : z = PageSize /\ q = (k - 1) \div z /\ m = LastPage
  OBVIOUS
<1>3. z \in Nat /\ z > 0 /\ q \in Nat /\ q * z <= k - 1 /\ k - 1 < (q + 1) * z
  BY <1>1, <1>2
<1>4. m \in Nat /\ MaxInt64 < (m + 1) * z
  BY <1>1, <1>2, MaxIsInt DEF LastPage
<1>5. q + 1 <= m
  <2>1. q * z \in Nat /\ (q + 1) * z = q * z + z
    BY ONLY <1>3
  <2>2. q * z + z <= MaxInt64
    BY ONLY <1>2, <1>3, <2>1, MaxIsInt, n \in Nat, k \in 1..n, n + PageSize <= MaxInt64
  <2>3. (q + 1) * z < (m + 1) * z
    BY ONLY <1>3, <1>4, <2>1, <2>2, MaxIsInt
  <2> QED BY ONLY <1>3, <1>4, <2>3
<1>6. \A p \in 1..m : PageStart(n, p) < k <=> (p - 1) * z < k
  BY <1>2, <1>3, PageBounds
<1>7. \A p \in 1..m : k <= PageEnd(n, p) <=> k <= p * z
  BY <1>2, <1>3, PageBounds
<1>8. ASSUME NEW p \in 1..m, (p - 1) * z < k, k <= p * z
      PROVE  p = q + 1
  <2>1. q * z < p * z
    BY <1>3, <1>8
  <2>2. (p - 1) * z < (q + 1) * z
    BY <1>3, <1>8
  <2>3. q < p
    BY <1>3, <2>1
  <2>4. p - 1 < q + 1
    BY <1>3, <2>2
  <2> QED BY <1>3, <2>3, <2>4
<1>9. q + 1 \in 1..m
  BY <1>3, <1>4, <1>5
<1>10. {p \in 1..m : PageStart(n, p) < k /\ k <= PageEnd(n, p)} = {q + 1}
  <2>1. \A p \in 1..m : PageStart(n, p) < k /\ k <= PageEnd(n, p) => p = q + 1
    BY <1>6, <1>7, <1>8
  <2>2. PageStart(n, q + 1) < k /\ k <= PageEnd(n, q + 1)
    <3>1. PICK p : p = q + 1
      OBVIOUS
    <3>2. p \in 1..m /\ (p - 1) * z < k /\ k <= p * z
      <4>1. p - 1 = q /\ p \in 1..m
        BY <1>3, <1>9, <3>1
      <4>2. q * z < k /\ k <= p * z
        BY <1>3, <3>1
      <4> QED BY ONLY <4>1, <4>2
    <3>3. PageStart(n, p) < k /\ k <= PageEnd(n, p)
      BY ONLY <1>6, <1>7, <3>2
    <3> QED BY <3>1, <3>3
  <2> QED BY ONLY <1>9, <2>1, <2>2
<1> QED BY <1>2, <1>9, <1>10

(* The invariant implies what an answer is to be.                          *)
LEMMA PnlInvImplies == PnlInv => AnswerComplete
<1> SUFFICES ASSUME PnlInv
             PROVE  AnswerComplete
  OBVIOUS
<1> USE DEF PnlInv
<1>1. Limit \in Nat /\ Cardinality(Active) \in Nat
  BY PnlAssumption, FiniteWork
<1>2. TypeOK
  <2>1. sem \in 0..Limit
    BY ONLY <1>1, PnlInv DEF CountInv
  <2>2. wg \in 0..Cardinality(Tokens)
    BY ONLY FiniteWork, PnlInv DEF CountInv
  <2> QED BY <2>1, <2>2 DEF TypeOK, Types
<1>3. AtMostLimit
  BY <1>1 DEF AtMostLimit, CountInv, Active
<1>4. ASSUME pc = "done"
      PROVE  \A t \in Tokens : g[t].pc \in {"none", "over"}
  <2>1. Started = {}
    BY <1>4, FiniteWork, FS_EmptySet DEF LoopInv, CountInv
  <2> QED BY <2>1 DEF Started
<1>5. ASSUME pc = "done", handler # "holdings"
      PROVE  Finished = Calculated /\ \A t \in Grouped : t \in Tokens /\ (t \in Finished <=> Listed(t))
  <2>1. Grouped \subseteq Tokens
    BY WalletRows DEF Types
  <2>2. Finished = Calculated
    BY <1>4, <1>5 DEF Finished, Calculated
  <2>3. \A t \in Grouped : g[t].pc = "over"
    BY <1>4, <1>5, <2>1 DEF LoopInv
  <2> QED BY <2>1, <2>2, <2>3 DEF Finished
<1>6. WinsAddUp
  BY <1>5 DEF WinsAddUp, TotalInv, Winners
<1>7. EachTokenOnOnePage
  <2> SUFFICES ASSUME pc = "done", handler = "token"
               PROVE  /\ \A t \in Grouped : Cardinality(Hits(t)) = IF Listed(t) THEN 1 ELSE 0
                      /\ \A j, k \in 1..Len(results) :
                             j < k => Rank[results[j].token] < Rank[results[k].token]
                      /\ \A k \in 1..Len(results) :
                             Cardinality({p \in 1..LastPage :
                                              /\ PageStart(Len(results), p) < k
                                              /\ k <= PageEnd(Len(results), p)}) = 1
                      /\ \A p \in 1..LastPage :
                             /\ 0 <= PageStart(Len(results), p)
                             /\ PageStart(Len(results), p) <= PageEnd(Len(results), p)
                             /\ PageEnd(Len(results), p) <= Len(results)
                             /\ p > TotalPages(Len(results)) =>
                                    PageStart(Len(results), p) = PageEnd(Len(results), p)
    BY DEF EachTokenOnOnePage, Hits
  <2>1. ASSUME NEW t \in Grouped
        PROVE  Cardinality(Hits(t)) = IF Listed(t) THEN 1 ELSE 0
    <3>1. t \in Tokens /\ (Hits(t) # {} <=> Listed(t))
      BY <1>5 DEF ResultInv
    <3>2. CASE ~Listed(t)
      BY <3>1, <3>2, FS_EmptySet
    <3>3. CASE Listed(t)
      <4>1. PICK k : k \in Hits(t)
        BY <3>1, <3>3
      <4>2. Hits(t) = {k}
        BY <4>1 DEF Hits, ResultInv
      <4> QED BY <3>3, <4>2, FS_Singleton
    <3> QED BY <3>2, <3>3
  <2>2. ASSUME NEW j \in 1..Len(results), NEW k \in 1..Len(results), j < k
        PROVE  Rank[results[j].token] < Rank[results[k].token]
    <3>1. /\ results[j].token \in Tokens /\ results[k].token \in Tokens
          /\ Rank[results[j].token] <= Rank[results[k].token]
      BY <2>2 DEF Types, ResultInv
    <3>2. results[j].token # results[k].token
      BY <2>2 DEF ResultInv
    <3>3. /\ Rank[results[j].token] \in Nat /\ Rank[results[k].token] \in Nat
          /\ Rank[results[j].token] # Rank[results[k].token]
      BY <3>1, <3>2, RankFacts
    <3> QED BY ONLY <3>1, <3>3
  <2>3. PICK n : n = Len(results) /\ n \in Nat
    <3>1. PICK S : results \in Seq(S)
      BY DEF Types, IsSeq
    <3> QED BY <3>1
  <2>4. n + PageSize <= MaxInt64
    <3>1. PICK f : f = [k \in 1..n |-> results[k].token]
      OBVIOUS
    <3>2. f \in [1..n -> Tokens] /\ \A j, k \in 1..n : f[j] = f[k] => j = k
      BY <2>3, <3>1 DEF Types, ResultInv
    <3>3. f \in Injection(1..n, Tokens)
      BY ONLY <3>2 DEF Injection, IsInjective
    <3>4. Cardinality(1..n) <= Cardinality(Tokens) /\ Cardinality(1..n) = n
      <4>1. IsFiniteSet(Tokens)
        BY PnlAssumption
      <4>2. Cardinality(1..n) <= Cardinality(Tokens)
        BY ONLY <3>3, <4>1, FS_Injection
      <4>3. PICK a : a = 1 /\ a \in Int
        OBVIOUS
      <4>4. Cardinality(a..n) = IF a > n THEN 0 ELSE n - a + 1
        <5>1. n \in Int
          BY ONLY <2>3
        <5> QED BY ONLY <4>3, <5>1, FS_Interval
      <4>5. (IF a > n THEN 0 ELSE n - a + 1) = n
        BY ONLY <2>3, <4>3
      <4> QED BY ONLY <4>2, <4>3, <4>4, <4>5
    <3>5. Cardinality(Tokens) + PageSize <= MaxInt64 /\ PageSize \in Nat
      BY PnlAssumption
    <3> QED BY ONLY <2>3, <3>4, <3>5, RankFacts, MaxIsInt
  <2>5. ASSUME NEW k \in 1..n
        PROVE  Cardinality({p \in 1..LastPage : PageStart(n, p) < k /\ k <= PageEnd(n, p)}) = 1
    <3>1. PICK p : {q \in 1..LastPage : PageStart(n, q) < k /\ k <= PageEnd(n, q)} = {p}
      <4>1. \E p \in 1..LastPage :
                {q \in 1..LastPage : PageStart(n, q) < k /\ k <= PageEnd(n, q)} = {p}
        BY ONLY <2>3, <2>4, k \in 1..n, PagesPartition
      <4> QED BY ONLY <4>1
    <3>2. Cardinality({p}) = 1
      BY ONLY FS_Singleton
    <3> QED BY ONLY <3>1, <3>2
  <2>6. \A p \in 1..LastPage :
            /\ 0 <= PageStart(n, p) /\ PageStart(n, p) <= PageEnd(n, p) /\ PageEnd(n, p) <= n
            /\ p > TotalPages(n) => PageStart(n, p) = PageEnd(n, p)
    BY ONLY <2>3, PagesFit
  <2> QED BY <2>1, <2>2, <2>3, <2>5, <2>6
<1> QED BY <1>2, <1>3, <1>6, <1>7 DEF AnswerComplete

(* Every step keeps the invariant.                                         *)
LEMMA PnlInvStep == PnlInv /\ [Next]_vars => PnlInv'
<1> SUFFICES ASSUME PnlInv, [Next]_vars
             PROVE  PnlInv'
  OBVIOUS
<1>1. ASSUME NEW t \in Tokens, Spawn(t) \/ Lookup(t) \/ Work(t)
      PROVE  PnlInv'
  BY <1>1, SpawnStep, LookAtCacheStep, FetchPriceFailsStep, FetchPriceStep, LookForTradesStep,
     LoadCountStep, StoreCountStep, CalculateStep, AppendResultStep, LockStep, AddTotalsStep,
     LeaveSemStep, DoneStep DEF Lookup, Work
<1>2. CASE EndOfLoop
  BY <1>2, EndOfLoopStep
<1>3. CASE Respond
  BY <1>3, RespondStep
<1>4. CASE HoldingsLookup
  BY <1>4, HoldingsLookupStep
<1>5. CASE UNCHANGED vars
  <2>1. UNCHANGED <<handler, rows, pc, todo, g, sem, wg, mu, priceCache, counts, totals, results>>
    BY <1>5 DEF vars, shared
  <2>2. /\ WorkInv' /\ CountInv' /\ LockInv' /\ TotalInv'
        /\ Finished' = Finished /\ Grouped' = Grouped
    BY <2>1, HandlerMoves
  <2>3. Types' /\ LoopInv' /\ ResultInv'
    BY <2>1, <2>2 DEF PnlInv, Types, LoopInv, ResultInv, Hits
  <2> QED BY <2>2, <2>3 DEF PnlInv
<1> QED BY <1>1, <1>2, <1>3, <1>4, <1>5 DEF Next, Handler

(* For every wallet and every schedule of the goroutines, AggregatedPnl-   *)
(* Handler counts the wins and pairs of all tokens it has calculated, and  *)
(* TokenPnlHandler has each of them on exactly one page, in order; sem     *)
(* limits the goroutines.                                                  *)
THEOREM AnswersStayComplete == Spec => []AnswerComplete
<1>1. Init => PnlInv
  BY PnlInvInit
<1>2. PnlInv /\ [Next]_vars => PnlInv'
  BY PnlInvStep
<1>3. PnlInv => AnswerComplete
  BY PnlInvImplies
<1> QED BY <1>1, <1>2, <1>3, PTL DEF Spec

-----------------------------------------------------------------------------
(* The figures.  The second invariant, on top of the first.                *)

Ended == {"exit", "left", "over"}

(* A goroutine that has calculated has the figures of its rows.            *)
WorkedOut == \A t \in Tokens :
    /\ g[t].usd \in Nat
    /\ g[t].pc \in {"append", "lock", "add"} \/ t \in Finished
           => Figured(Group(t), g[t].usd, g[t].res)

(* What AggregatedPnlHandler has added up so far.                          *)
Summed == handler = "aggregated" =>
    /\ totals.buyValue = SumOver([t \in Finished |-> g[t].res.buyValue])
    /\ totals.sellValue = SumOver([t \in Finished |-> g[t].res.sellValue])
    /\ totals.realized = SumOver([t \in Finished |-> g[t].res.realized])
    /\ totals.held = Wrap(SumOver([t \in Finished |-> g[t].res.held]))
    /\ totals.sold = SumOver([t \in Finished |-> g[t].res.sold])

(* The trades the counting loops have passed.                              *)
Passed(a) == UNION {{<<t, k>> : k \in {j \in 1..Len(Group(t)) :
                                          j < g[t].next /\ Group(t)[j].action = a}} : t \in Tokens}

(* A counter is not ahead of the loops, nor is the number a goroutine has  *)
(* read from it; who calculates has passed all of its rows.                *)
CountedRow(t) ==
    /\ g[t].next \in Nat \ {0} /\ g[t].next <= Len(Group(t)) + 1
    /\ g[t].pc = "store" =>
           /\ g[t].next <= Len(Group(t)) /\ IsTrade(Group(t)[g[t].next])
           /\ \A a \in {"BUY", "SELL"} :
                  Group(t)[g[t].next].action = a => g[t].reg <= Cardinality(Passed(a))
    /\ handler = "aggregated" /\ (g[t].pc \in {"calc", "lock", "add"} \/ t \in Finished)
           => g[t].next > Len(Group(t))
Counted == /\ \A t \in Tokens : CountedRow(t)
           /\ \A a \in {"BUY", "SELL"} : /\ counts[a] <= Cardinality(Passed(a))
                                         /\ Passed(a) # {} => counts[a] > 0

FigureInv == WorkedOut /\ Summed /\ Counted

(* A trade that is counted is one row of the wallet, and no other's.       *)
LEMMA PassedFits ==
    ASSUME rows \in Seq(RowType), NEW a
    PROVE  /\ IsFiniteSet(Passed(a)) /\ Cardinality(Passed(a)) \in Nat
           /\ Cardinality(Passed(a)) <= Cardinality({k \in 1..Len(rows) : rows[k].action = a})
<1>1. PICK n, R : n = Len(rows) /\ R = {k \in 1..n : rows[k].action = a}
  OBVIOUS
<1>2. n \in Nat
  BY <1>1
<1>3. IsFiniteSet(R)
  <2>1. IsFiniteSet(1..n) /\ R \subseteq 1..n
    BY <1>1, <1>2, FS_Interval
  <2> QED BY <2>1, FS_Subset
<1> DEFINE Fits(t, p) == /\ \A i, j \in 1..Len(Group(t)) : p[i] = p[j] => i = j
                         /\ \A i \in 1..Len(Group(t)) : p[i] \in 1..n /\ Group(t)[i] = rows[p[i]]
           place == [t \in Tokens |-> CHOOSE p : Fits(t, p)]
           f == [x \in Passed(a) |-> place[x[1]][x[2]]]
<1>4. \A t \in Tokens : Fits(t, place[t])
  <2>1. ASSUME NEW t \in Tokens PROVE \E p : Fits(t, p)
    <3>1. PlacedIn(Group(t), rows, n)
      BY <1>1, GroupFacts
    <3>2. PICK p \in [1..Len(Group(t)) -> 1..n] :
              /\ \A i, j \in 1..Len(Group(t)) : p[i] = p[j] => i = j
              /\ \A i \in 1..Len(Group(t)) : Group(t)[i] = rows[p[i]]
      BY <3>1 DEF PlacedIn
    <3>3. Fits(t, p)
      BY <3>2
    <3> HIDE DEF Fits
    <3> QED BY ONLY <3>3
  <2> HIDE DEF Fits
  <2>2. ASSUME NEW t \in Tokens PROVE Fits(t, place[t])
    <3>1. place[t] = CHOOSE p : Fits(t, p)
      BY DEF place
    <3>2. \E p : Fits(t, p)
      BY <2>1
    <3>3. Fits(t, CHOOSE p : Fits(t, p))
      BY ONLY <3>2
    <3> QED BY ONLY <3>1, <3>3
  <2> QED BY <2>2
<1> HIDE DEF place
<1>5. \A x \in Passed(a) : \E t \in Tokens : \E k \in 1..Len(Group(t)) :
          x = <<t, k>> /\ Group(t)[k].action = a
  BY DEF Passed
<1>6. ASSUME NEW x \in Passed(a), NEW t \in Tokens, NEW k \in 1..Len(Group(t)), x = <<t, k>>
      PROVE  f[x] = place[t][k] /\ f[x] \in 1..n /\ rows[f[x]] = Group(t)[k] /\ rows[f[x]].token = t
  <2>1. f[x] = place[t][k]
    BY <1>6
  <2>2. place[t][k] \in 1..n /\ Group(t)[k] = rows[place[t][k]]
    BY <1>4
  <2>3. Group(t)[k].token = t
    BY GroupFacts
  <2> QED BY <2>1, <2>2, <2>3
<1> HIDE DEF f
<1>7. ASSUME NEW x \in Passed(a) PROVE f[x] \in R
  <2>1. PICK t \in Tokens : \E k \in 1..Len(Group(t)) : x = <<t, k>> /\ Group(t)[k].action = a
    BY <1>5
  <2>2. PICK k \in 1..Len(Group(t)) : x = <<t, k>> /\ Group(t)[k].action = a
    BY <2>1
  <2> QED BY <1>1, <1>6, <2>2
<1>8. ASSUME NEW x \in Passed(a), NEW y \in Passed(a), f[x] = f[y] PROVE x = y
  <2>1. PICK t \in Tokens : \E k \in 1..Len(Group(t)) : x = <<t, k>>
    BY <1>5
  <2>2. PICK k \in 1..Len(Group(t)) : x = <<t, k>>
    BY <2>1
  <2>3. PICK u \in Tokens : \E l \in 1..Len(Group(u)) : y = <<u, l>>
    BY <1>5
  <2>4. PICK l \in 1..Len(Group(u)) : y = <<u, l>>
    BY <2>3
  <2>5. /\ f[x] = place[t][k] /\ rows[f[x]].token = t
        /\ f[y] = place[u][l] /\ rows[f[y]].token = u
    BY <1>6, <2>2, <2>4
  <2>6. t = u
    BY <1>8, <2>5
  <2>7. k = l
    <3>1. l \in 1..Len(Group(t)) /\ place[t][k] = place[t][l]
      BY <1>8, <2>5, <2>6
    <3>2. Fits(t, place[t])
      BY <1>4
    <3> QED BY ONLY k \in 1..Len(Group(t)), <3>1, <3>2
  <2> QED BY <2>2, <2>4, <2>6, <2>7
<1>9. f \in Injection(Passed(a), R)
  <2>1. f \in [Passed(a) -> R]
    BY <1>7 DEF f
  <2> QED BY <1>8, <2>1 DEF Injection, IsInjective
<1>10. IsFiniteSet(Passed(a)) /\ Cardinality(Passed(a)) <= Cardinality(R)
  BY <1>3, <1>9, FS_Injection
<1>11. Cardinality(Passed(a)) \in Nat
  BY <1>10, FS_CardinalityType
<1> QED BY <1>1, <1>10, <1>11

(* Where no loop moves, no trade is passed.                                *)
LEMMA PassedSame ==
    ASSUME rows' = rows, \A u \in Tokens : g'[u].next = g[u].next
    PROVE  \A a : Passed(a)' = Passed(a)
<1>1. \A u : Group(u)' = Group(u)
  BY SameGroups
<1> QED BY <1>1 DEF Passed

(* One loop passes one row.                                                *)
LEMMA PassedOneMore ==
    ASSUME rows' = rows, NEW t \in Tokens, NEW n \in Nat \ {0}, n \in 1..Len(Group(t)),
           g[t].next = n, g'[t].next = n + 1, \A u \in Tokens \ {t} : g'[u].next = g[u].next,
           rows \in Seq(RowType), NEW a
    PROVE  /\ <<t, n>> \notin Passed(a)
           /\ Passed(a)' = IF Group(t)[n].action = a THEN Passed(a) \union {<<t, n>>} ELSE Passed(a)
<1>1. \A u : Group(u)' = Group(u)
  BY SameGroups
<1> DEFINE Row(u, k, m) == k \in 1..Len(Group(u)) /\ k < m /\ Group(u)[k].action = a
<1>2. \A x : x \in Passed(a) <=> \E u \in Tokens : \E k : x = <<u, k>> /\ Row(u, k, g[u].next)
  BY DEF Passed
<1>3. \A x : x \in Passed(a)' <=> \E u \in Tokens : \E k : x = <<u, k>> /\ Row(u, k, g'[u].next)
  BY <1>1 DEF Passed
<1>4. \A k : Row(t, k, n + 1) <=> Row(t, k, n) \/ (k = n /\ Group(t)[n].action = a)
  <2>1. Len(Group(t)) \in Nat
    BY GroupFacts
  <2> QED BY <2>1
<1>5. ~Row(t, n, n)
  OBVIOUS
<1> HIDE DEF Row
<1>6. <<t, n>> \notin Passed(a)
  BY <1>2, <1>5
<1>7. ASSUME NEW x
      PROVE  x \in Passed(a)' <=> x \in Passed(a) \/ (x = <<t, n>> /\ Group(t)[n].action = a)
  BY <1>2, <1>3, <1>4
<1> QED BY <1>6, <1>7

(* Nothing to add: the tokens whose figures are in the answer stay, with   *)
(* their figures.                                                          *)
LEMMA FinishedStays ==
    ASSUME PnlInv, rows' = rows, NEW t \in Tokens, NEW r, g' = [g EXCEPT ![t] = r],
           \/ g[t].pc \notin Ended /\ (r.pc \in Ended => ~HasTrade(Group(t)) \/ r.usd = 0)
           \/ g[t].pc \in Ended /\ r.pc \in Ended /\ r.usd = g[t].usd /\ r.res = g[t].res
    PROVE  /\ Finished' = Finished
           /\ \A u \in Finished : g'[u].res = g[u].res /\ g'[u].usd = g[u].usd
<1>1. /\ g'[t] = r
      /\ \A u \in Tokens \ {t} : g'[u] = g[u]
  BY OneMoves DEF PnlInv
<1>2. \A u : Group(u)' = Group(u)
  BY SameGroups
<1>3. \A u \in Tokens : u \in Finished' <=> u \in Finished
  BY <1>1, <1>2 DEF Finished, Listed, Ended
<1>4. Finished' = Finished /\ Finished \subseteq Tokens
  BY <1>3 DEF Finished
<1>5. ASSUME NEW u \in Finished PROVE g'[u].res = g[u].res /\ g'[u].usd = g[u].usd
  <2>1. CASE u = t
    BY <1>1, <2>1 DEF Finished, Listed, Ended
  <2>2. CASE u # t
    BY <1>1, <1>4, <2>2
  <2> QED BY <2>1, <2>2
<1> QED BY <1>4, <1>5

(* Then the sums stay.                                                     *)
LEMMA SummedKept ==
    ASSUME Summed, handler' = handler, totals' = totals, Finished' = Finished,
           \A u \in Finished : g'[u].res = g[u].res
    PROVE  Summed'
<1>1. /\ [u \in Finished |-> g[u].res.buyValue]' = [u \in Finished |-> g[u].res.buyValue]
      /\ [u \in Finished |-> g[u].res.sellValue]' = [u \in Finished |-> g[u].res.sellValue]
      /\ [u \in Finished |-> g[u].res.realized]' = [u \in Finished |-> g[u].res.realized]
      /\ [u \in Finished |-> g[u].res.held]' = [u \in Finished |-> g[u].res.held]
      /\ [u \in Finished |-> g[u].res.sold]' = [u \in Finished |-> g[u].res.sold]
  OBVIOUS
<1>2. \A f : SumOver(f)' = SumOver(f)
  OBVIOUS
<1> QED BY <1>1, <1>2 DEF Summed

(* The figures of the goroutines stay when one of them has its own.        *)
LEMMA WorkedOutKept ==
    ASSUME PnlInv, WorkedOut, rows' = rows, NEW t \in Tokens, NEW r, g' = [g EXCEPT ![t] = r],
           r.usd \in Nat,
           r.pc \in {"append", "lock", "add"} \/ (r.pc \in Ended /\ HasTrade(Group(t)) /\ r.usd # 0)
               => Figured(Group(t), r.usd, r.res)
    PROVE  WorkedOut'
<1>1. /\ g'[t] = r
      /\ \A u \in Tokens \ {t} : g'[u] = g[u]
  BY OneMoves DEF PnlInv
<1>2. \A u : Group(u)' = Group(u)
  BY SameGroups
<1> SUFFICES ASSUME NEW u \in Tokens
             PROVE  /\ g'[u].usd \in Nat
                    /\ g'[u].pc \in {"append", "lock", "add"} \/ u \in Finished'
                           => Figured(Group(u)', g'[u].usd, g'[u].res)
  BY DEF WorkedOut, Figured
<1>3. CASE u = t
  <2>1. t \in Finished' => r.pc \in Ended /\ HasTrade(Group(t)) /\ r.usd # 0
    BY <1>1, <1>2 DEF Finished, Listed, Ended
  <2> QED BY <1>1, <1>2, <1>3, <2>1
<1>4. CASE u # t
  <2>1. u \in Finished' <=> u \in Finished
    BY <1>1, <1>2, <1>4 DEF Finished, Listed
  <2> QED BY <1>1, <1>2, <1>4, <2>1 DEF WorkedOut
<1> QED BY <1>3, <1>4

(* The counters stay when a goroutine that is not counting moves.          *)
LEMMA CountedKept ==
    ASSUME PnlInv, Counted, handler' = handler, rows' = rows, counts' = counts,
           NEW t \in Tokens, NEW r, g' = [g EXCEPT ![t] = r],
           r.next = g[t].next, r.pc # "store", t \in Finished' => t \in Finished,
           handler = "aggregated" /\ r.pc \in {"calc", "lock", "add"} => r.next > Len(Group(t))
    PROVE  Counted'
<1>1. /\ g'[t] = r
      /\ \A u \in Tokens \ {t} : g'[u] = g[u]
  BY OneMoves DEF PnlInv
<1>2. \A u : Group(u)' = Group(u)
  BY SameGroups
<1>3. \A a : Passed(a)' = Passed(a)
  BY <1>1, PassedSame
<1>4. \A a \in {"BUY", "SELL"} : /\ counts'[a] <= Cardinality(Passed(a)')
                                 /\ Passed(a)' # {} => counts'[a] > 0
  BY <1>3 DEF Counted
<1>5. ASSUME NEW u \in Tokens PROVE CountedRow(u)'
  <2>1. CountedRow(u)
    BY DEF Counted
  <2>2. CASE u = t
    BY <1>1, <1>2, <2>1, <2>2 DEF CountedRow
  <2>3. CASE u # t
    <3>1. g'[u] = g[u] /\ (u \in Finished' <=> u \in Finished)
      BY <1>1, <1>2, <2>3 DEF Finished, Listed
    <3> QED BY <1>2, <1>3, <2>1, <3>1 DEF CountedRow
  <2> QED BY <2>2, <2>3
<1> QED BY <1>4, <1>5 DEF Counted

(* A step that adds nothing to the answer and counts nothing.              *)
LEMMA QuietStep ==
    ASSUME PnlInv, FigureInv, UNCHANGED <<handler, rows, counts, totals>>,
           NEW t \in Tokens, NEW r, g' = [g EXCEPT ![t] = r],
           r.usd \in Nat, r.next = g[t].next, r.pc # "store",
           \/ g[t].pc \notin Ended /\ (r.pc \in Ended => ~HasTrade(Group(t)) \/ r.usd = 0)
           \/ g[t].pc \in Ended /\ r.pc \in Ended /\ r.usd = g[t].usd /\ r.res = g[t].res,
           r.pc \in {"append", "lock", "add"} => Figured(Group(t), r.usd, r.res),
           handler = "aggregated" /\ r.pc \in {"calc", "lock", "add"} => r.next > Len(Group(t))
    PROVE  FigureInv'
<1>1. /\ Finished' = Finished
      /\ \A u \in Finished : g'[u].res = g[u].res /\ g'[u].usd = g[u].usd
  BY FinishedStays
<1>2. Summed'
  BY <1>1, SummedKept DEF FigureInv
<1>3. r.pc \in Ended /\ HasTrade(Group(t)) /\ r.usd # 0 => Figured(Group(t), r.usd, r.res)
  <2> SUFFICES ASSUME r.pc \in Ended, HasTrade(Group(t)), r.usd # 0
               PROVE  Figured(Group(t), r.usd, r.res)
    OBVIOUS
  <2>1. g[t].pc \in Ended /\ r.usd = g[t].usd /\ r.res = g[t].res
    OBVIOUS
  <2>2. t \in Finished
    BY <2>1 DEF Finished, Listed, Ended
  <2> QED BY <2>1, <2>2 DEF FigureInv, WorkedOut
<1>4. WorkedOut'
  BY <1>3, WorkedOutKept DEF FigureInv
<1>5. Counted'
  BY <1>1, CountedKept DEF FigureInv
<1> QED BY <1>2, <1>4, <1>5 DEF FigureInv

(* What both invariants say of a goroutine.                                *)
LEMMA WorkFacts ==
    ASSUME PnlInv, FigureInv, NEW t \in Tokens
    PROVE  /\ IsWork(g[t]) /\ g[t].usd \in Nat /\ g[t].reg \in Nat /\ CountedRow(t)
           /\ rows \in Seq(RowType) /\ Group(t) \in Seq(RowType) /\ priceCache \in Nat
<1>1. WorkOf(g[t], handler, Group(t)) /\ Types
  BY DEF PnlInv, WorkInv
<1>2. rows \in Seq(RowType)
  BY <1>1, WalletRows DEF Types
<1>3. Group(t) \in Seq(RowType)
  BY <1>2, GroupFacts
<1>4. priceCache \in Nat
  <2>1. Prices \subseteq Nat
    BY PnlAssumption
  <2>2. priceCache \in Prices \union {0}
    BY <1>1 DEF Types
  <2> QED BY ONLY <2>1, <2>2
<1> QED BY <1>1, <1>2, <1>3, <1>4 DEF WorkOf, FigureInv, WorkedOut, Counted

(* A goroutine goes on without touching its figures.                       *)
LEMMA GotoStep ==
    ASSUME PnlInv, FigureInv, UNCHANGED <<handler, rows, counts, totals>>,
           NEW t \in Tokens, NEW where, Goto(t, where), where # "store",
           \/ g[t].pc \notin Ended /\ (where \in Ended => ~HasTrade(Group(t)) \/ g[t].usd = 0)
           \/ g[t].pc \in Ended /\ where \in Ended,
           where \in {"append", "lock", "add"} => Figured(Group(t), g[t].usd, g[t].res),
           handler = "aggregated" /\ where \in {"calc", "lock", "add"} => g[t].next > Len(Group(t))
    PROVE  FigureInv'
<1>1. IsWork(g[t]) /\ g[t].usd \in Nat
  BY WorkFacts
<1>2. PICK r : r = [g[t] EXCEPT !.pc = where]
  OBVIOUS
<1>3. g' = [g EXCEPT ![t] = r]
  BY <1>2 DEF Goto
<1>4. r.pc = where /\ r.usd = g[t].usd /\ r.next = g[t].next /\ r.res = g[t].res
  BY <1>1, <1>2, GotoRecord
<1> QED BY <1>1, <1>3, <1>4, QuietStep

(* A goroutine that starts has worked nothing out.                         *)
LEMMA SpawnFigures ==
    ASSUME PnlInv, FigureInv, NEW t \in Tokens, Spawn(t)
    PROVE  FigureInv'
<1>1. g[t].pc = "none"
  BY DEF Spawn, PnlInv, LoopInv
<1>2. UNCHANGED <<handler, rows, counts, totals>> /\ Goto(t, "price")
  BY DEF Spawn, shared
<1> QED BY <1>1, <1>2, GotoStep DEF Ended

(* A look at the cache changes no figure; a price in it is a number.       *)
LEMMA LookAtCacheFigures ==
    ASSUME PnlInv, FigureInv, NEW t \in Tokens, LookAtCache(t)
    PROVE  FigureInv'
<1>1. g[t].pc = "price" /\ UNCHANGED <<handler, rows, counts, totals>>
  BY DEF LookAtCache, shared
<1>2. IsWork(g[t]) /\ priceCache \in Nat
  BY WorkFacts
<1>3. CASE priceCache # 0
  <2>1. PICK r : r = [g[t] EXCEPT !.pc = "trades", !.usd = priceCache]
    OBVIOUS
  <2>2. g' = [g EXCEPT ![t] = r]
    BY <1>3, <2>1 DEF LookAtCache
  <2>3. r.pc = "trades" /\ r.usd = priceCache /\ r.next = g[t].next
    BY <1>2, <2>1 DEF IsWork
  <2> QED BY <1>1, <1>2, <2>2, <2>3, QuietStep DEF Ended
<1>4. CASE priceCache = 0
  <2>1. Goto(t, "fetch")
    BY <1>4 DEF LookAtCache
  <2> QED BY <1>1, <2>1, GotoStep DEF Ended
<1> QED BY <1>3, <1>4

(* A token without a price is not in the answer.                           *)
LEMMA FetchPriceFailsFigures ==
    ASSUME PnlInv, FigureInv, NEW t \in Tokens, FetchPriceFails(t)
    PROVE  FigureInv'
<1>1. g[t].pc = "fetch" /\ UNCHANGED <<handler, rows, counts, totals>> /\ Goto(t, "exit")
  BY DEF FetchPriceFails, shared
<1>2. g[t].usd = 0
  BY <1>1 DEF PnlInv, WorkInv, WorkOf
<1> QED BY <1>1, <1>2, GotoStep DEF Ended

(* A price that was fetched is a number and changes no figure.             *)
LEMMA FetchPriceFigures ==
    ASSUME PnlInv, FigureInv, NEW t \in Tokens, FetchPrice(t)
    PROVE  FigureInv'
<1>1. g[t].pc = "fetch" /\ UNCHANGED <<handler, rows, counts, totals>>
  BY DEF FetchPrice
<1>2. PICK p \in Prices : g' = [g EXCEPT ![t] = [@ EXCEPT !.pc = "trades", !.usd = p]]
  BY DEF FetchPrice
<1>3. p \in Nat /\ IsWork(g[t])
  BY PnlAssumption, WorkFacts
<1>4. PICK r : r = [g[t] EXCEPT !.pc = "trades", !.usd = p]
  OBVIOUS
<1>5. g' = [g EXCEPT ![t] = r]
  BY <1>2, <1>4
<1>6. r.pc = "trades" /\ r.usd = p /\ r.next = g[t].next
  BY <1>3, <1>4 DEF IsWork
<1> QED BY <1>1, <1>3, <1>5, <1>6, QuietStep DEF Ended

(* What was never traded does not get to its calculation.                  *)
LEMMA LookForTradesFigures ==
    ASSUME PnlInv, FigureInv, NEW t \in Tokens, LookForTrades(t)
    PROVE  FigureInv'
<1>1. g[t].pc = "trades" /\ UNCHANGED <<handler, rows, counts, totals>>
  BY DEF LookForTrades, shared
<1>2. PICK where : where = (IF handler = "aggregated" THEN "load"
                            ELSE IF HasTrade(Group(t)) THEN "calc" ELSE "exit")
  OBVIOUS
<1>3. Goto(t, where)
  BY <1>2 DEF LookForTrades
<1>4. /\ where \in {"load", "calc", "exit"} /\ (where = "exit" => ~HasTrade(Group(t)))
      /\ handler = "aggregated" => where = "load"
  BY <1>2
<1> QED BY <1>1, <1>3, <1>4, GotoStep DEF Ended

(* A calculation works out the figures of the token, for one of the orders *)
(* of its rows.                                                            *)
LEMMA CalculateFigures ==
    ASSUME PnlInv, FigureInv, NEW t \in Tokens, Calculate(t)
    PROVE  FigureInv'
<1>1. g[t].pc = "calc" /\ UNCHANGED <<handler, rows, counts, totals>>
  BY DEF Calculate, shared
<1>2. PICK where : where = IF handler = "token" THEN "append" ELSE "lock"
  OBVIOUS
<1>3. PICK res : /\ Figured(Group(t), g[t].usd, res)
                 /\ g' = [g EXCEPT ![t] = [@ EXCEPT !.pc = where, !.res = res]]
  <2>1. PICK s \in Sorted(Group(t)) : \E latest \in LatestOf(s) :
            g' = [g EXCEPT ![t] = [@ EXCEPT !.pc = where,
                                            !.res = CalculateTokenPnL(s, g[t].usd, latest)]]
    BY <1>2 DEF Calculate
  <2> QED BY <2>1 DEF Figured
<1>4. IsWork(g[t]) /\ g[t].usd \in Nat /\ CountedRow(t)
  BY WorkFacts
<1>5. PICK r : r = [g[t] EXCEPT !.pc = where, !.res = res]
  OBVIOUS
<1>6. g' = [g EXCEPT ![t] = r]
  BY <1>3, <1>5
<1>7. r.pc = where /\ r.res = res /\ r.usd = g[t].usd /\ r.next = g[t].next
  BY <1>4, <1>5 DEF IsWork
<1>8. handler = "aggregated" => r.next > Len(Group(t))
  BY <1>1, <1>4, <1>7 DEF CountedRow
<1>9. where \in {"append", "lock"}
  BY <1>2
<1> QED BY <1>1, <1>3, <1>4, <1>6, <1>7, <1>8, <1>9, QuietStep DEF Ended

(* The totals are read under mu.                                           *)
LEMMA LockFigures ==
    ASSUME PnlInv, FigureInv, NEW t \in Tokens, Lock(t)
    PROVE  FigureInv'
<1>1. g[t].pc = "lock" /\ UNCHANGED <<handler, rows, counts, totals>>
  BY DEF Lock, shared
<1>2. PICK r : r = [g[t] EXCEPT !.pc = "add", !.snapshot = totals]
  OBVIOUS
<1>3. g' = [g EXCEPT ![t] = r]
  BY <1>2 DEF Lock
<1>4. IsWork(g[t]) /\ g[t].usd \in Nat /\ CountedRow(t)
  BY WorkFacts
<1>5. r.pc = "add" /\ r.res = g[t].res /\ r.usd = g[t].usd /\ r.next = g[t].next
  BY <1>2, <1>4 DEF IsWork
<1>6. Figured(Group(t), r.usd, r.res)
  BY <1>1, <1>5 DEF FigureInv, WorkedOut
<1>7. handler = "aggregated" => r.next > Len(Group(t))
  BY <1>1, <1>4, <1>5 DEF CountedRow
<1> QED BY <1>1, <1>3, <1>4, <1>5, <1>6, <1>7, QuietStep DEF Ended

(* A goroutine that leaves sem has added its figures.                      *)
LEMMA LeaveSemFigures ==
    ASSUME PnlInv, FigureInv, NEW t \in Tokens, LeaveSem(t)
    PROVE  FigureInv'
<1>1. g[t].pc = "exit" /\ UNCHANGED <<handler, rows, counts, totals>> /\ Goto(t, "left")
  BY DEF LeaveSem, shared
<1> QED BY <1>1, GotoStep DEF Ended

(* A goroutine that is done has added its figures.                         *)
LEMMA DoneFigures ==
    ASSUME PnlInv, FigureInv, NEW t \in Tokens, Done(t)
    PROVE  FigureInv'
<1>1. g[t].pc = "left" /\ UNCHANGED <<handler, rows, counts, totals>> /\ Goto(t, "over")
  BY DEF Done, shared
<1> QED BY <1>1, GotoStep DEF Ended

(* The counting loop reads a counter that is not ahead, or passes a row    *)
(* that is no trade.                                                       *)
LEMMA LoadCountFigures ==
    ASSUME PnlInv, FigureInv, NEW t \in Tokens, LoadCount(t)
    PROVE  FigureInv'
<1>1. g[t].pc = "load" /\ UNCHANGED <<handler, rows, counts, totals>>
  BY DEF LoadCount, shared
<1>2. /\ IsWork(g[t]) /\ g[t].usd \in Nat /\ CountedRow(t)
      /\ rows \in Seq(RowType) /\ Group(t) \in Seq(RowType)
  BY WorkFacts
<1>3. PICK n, l : n = g[t].next /\ l = Len(Group(t))
  OBVIOUS
<1>4. n \in Nat \ {0} /\ l \in Nat /\ n <= l + 1
  BY <1>2, <1>3 DEF CountedRow
<1>5. CASE n > l
  <2>1. PICK where : where = IF HasTrade(Group(t)) THEN "calc" ELSE "exit"
    OBVIOUS
  <2>2. Goto(t, where)
    BY <1>3, <1>5, <2>1 DEF LoadCount
  <2>3. where \in {"calc", "exit"} /\ (where = "exit" => ~HasTrade(Group(t)))
    BY <2>1
  <2> QED BY <1>1, <1>3, <1>5, <2>2, <2>3, GotoStep DEF Ended
<1>6. CASE ~(n > l)
  <2>1. n \in 1..l
    BY <1>4, <1>6
  <2>2. PICK row : row = Group(t)[n]
    OBVIOUS
  <2>3. PICK r : r = IF IsTrade(row) THEN [g[t] EXCEPT !.pc = "store", !.reg = counts[row.action]]
                                     ELSE [g[t] EXCEPT !.next = n + 1]
    OBVIOUS
  <2>4. g' = [g EXCEPT ![t] = r]
    BY <1>3, <1>6, <2>2, <2>3 DEF LoadCount
  <2>5. /\ r.usd = g[t].usd
        /\ IsTrade(row) => r.pc = "store" /\ r.reg = counts[row.action] /\ r.next = n
        /\ ~IsTrade(row) => r.pc = "load" /\ r.next = n + 1
    BY <1>1, <1>2, <1>3, <2>3 DEF IsWork
  <2>6. r.pc \in {"store", "load"}
    BY <2>5
  <2>7. /\ Finished' = Finished
        /\ \A u \in Finished : g'[u].res = g[u].res /\ g'[u].usd = g[u].usd
    BY <1>1, <2>4, <2>6, FinishedStays DEF Ended
  <2>8. Summed'
    BY <1>1, <2>7, SummedKept DEF FigureInv
  <2>9. WorkedOut'
    BY <1>1, <1>2, <2>4, <2>5, <2>6, WorkedOutKept DEF FigureInv, Ended
  <2>10. /\ g'[t] = r
         /\ \A u \in Tokens \ {t} : g'[u] = g[u]
    BY <2>4, OneMoves DEF PnlInv
  <2>11. \A u : Group(u)' = Group(u)
    BY <1>1, SameGroups
  <2>12. \A a \in {"BUY", "SELL"} : Passed(a)' = Passed(a)
    <3>1. CASE IsTrade(row)
      <4>1. \A u \in Tokens : g'[u].next = g[u].next
        BY <1>3, <2>5, <2>10, <3>1
      <4> QED BY <1>1, <4>1, PassedSame
    <3>2. CASE ~IsTrade(row)
      <4> SUFFICES ASSUME NEW a \in {"BUY", "SELL"} PROVE Passed(a)' = Passed(a)
        OBVIOUS
      <4>1. row.action # a
        BY <3>2 DEF IsTrade
      <4>2. g'[t].next = n + 1 /\ \A u \in Tokens \ {t} : g'[u].next = g[u].next
        BY <2>5, <2>10, <3>2
      <4> QED BY <1>1, <1>2, <1>3, <1>4, <2>1, <2>2, <4>1, <4>2, PassedOneMore
    <3> QED BY <3>1, <3>2
  <2>13. ASSUME NEW u \in Tokens PROVE CountedRow(u)'
    <3>1. CountedRow(u)
      BY DEF FigureInv, Counted
    <3>2. CASE u = t
      <4>1. /\ g'[t].next \in Nat \ {0} /\ g'[t].next <= l + 1
            /\ g'[t].pc \in {"store", "load"}
        BY <1>4, <2>1, <2>5, <2>6, <2>10
      <4>2. t \notin Finished'
        BY <4>1 DEF Finished
      <4>3. g'[t].pc = "store" =>
                /\ g'[t].next <= l /\ IsTrade(Group(t)[g'[t].next])
                /\ \A a \in {"BUY", "SELL"} :
                       Group(t)[g'[t].next].action = a => g'[t].reg <= Cardinality(Passed(a)')
        <5> SUFFICES ASSUME IsTrade(row)
                     PROVE  /\ g'[t].next = n /\ n <= l
                            /\ \A a \in {"BUY", "SELL"} :
                                   row.action = a => g'[t].reg <= Cardinality(Passed(a)')
          BY <2>2, <2>5, <2>10
        <5>1. g'[t].next = n /\ g'[t].reg = counts[row.action]
          BY <2>5, <2>10
        <5>2. \A a \in {"BUY", "SELL"} : counts[a] <= Cardinality(Passed(a))
          BY DEF FigureInv, Counted
        <5> QED BY <2>1, <2>12, <5>1, <5>2
      <4> QED BY <1>3, <2>11, <3>2, <4>1, <4>2, <4>3 DEF CountedRow
    <3>3. CASE u # t
      <4>1. g'[u] = g[u] /\ (u \in Finished' <=> u \in Finished)
        BY <2>7, <2>10, <3>3
      <4> QED BY <1>1, <2>11, <2>12, <3>1, <4>1 DEF CountedRow
    <3> QED BY <3>2, <3>3
  <2>14. Counted'
    BY <1>1, <2>12, <2>13 DEF FigureInv, Counted
  <2> QED BY <2>8, <2>9, <2>14 DEF FigureInv
<1> QED BY <1>5, <1>6

(* A counter is written: one more than what was read, which is not more    *)
(* than one trade more than what had been passed.                          *)
LEMMA StoreCountFigures ==
    ASSUME PnlInv, FigureInv, NEW t \in Tokens, StoreCount(t)
    PROVE  FigureInv'
<1>1. g[t].pc = "store" /\ UNCHANGED <<handler, rows, totals>>
  BY DEF StoreCount
<1>2. /\ IsWork(g[t]) /\ g[t].usd \in Nat /\ g[t].reg \in Nat /\ CountedRow(t)
      /\ rows \in Seq(RowType) /\ Group(t) \in Seq(RowType)
  BY WorkFacts
<1>3. PICK n, l, b : n = g[t].next /\ l = Len(Group(t)) /\ b = Group(t)[n].action
  OBVIOUS
<1>4. /\ n \in Nat \ {0} /\ l \in Nat /\ n \in 1..l /\ b \in {"BUY", "SELL"}
      /\ g[t].reg <= Cardinality(Passed(b))
  BY <1>1, <1>2, <1>3 DEF CountedRow, IsTrade
<1>5. PICK r : r = [g[t] EXCEPT !.pc = "load", !.next = n + 1]
  OBVIOUS
<1>6. g' = [g EXCEPT ![t] = r] /\ counts' = [counts EXCEPT ![b] = g[t].reg + 1]
  BY <1>3, <1>5 DEF StoreCount
<1>7. r.pc = "load" /\ r.usd = g[t].usd /\ r.next = n + 1
  BY <1>2, <1>5 DEF IsWork
<1>8. /\ Finished' = Finished
      /\ \A u \in Finished : g'[u].res = g[u].res /\ g'[u].usd = g[u].usd
  BY <1>1, <1>6, <1>7, FinishedStays DEF Ended
<1>9. Summed'
  BY <1>1, <1>8, SummedKept DEF FigureInv
<1>10. WorkedOut'
  BY <1>1, <1>2, <1>6, <1>7, WorkedOutKept DEF FigureInv, Ended
<1>11. /\ g'[t] = r
       /\ \A u \in Tokens \ {t} : g'[u] = g[u]
  BY <1>6, OneMoves DEF PnlInv
<1>12. \A u : Group(u)' = Group(u)
  BY <1>1, SameGroups
<1>13. \A a : /\ <<t, n>> \notin Passed(a)
              /\ Passed(a)' = IF b = a THEN Passed(a) \union {<<t, n>>} ELSE Passed(a)
  <2> SUFFICES ASSUME NEW a
               PROVE  /\ <<t, n>> \notin Passed(a)
                      /\ Passed(a)' = IF b = a THEN Passed(a) \union {<<t, n>>} ELSE Passed(a)
    OBVIOUS
  <2>1. g'[t].next = n + 1 /\ \A u \in Tokens \ {t} : g'[u].next = g[u].next
    BY <1>7, <1>11
  <2> QED BY <1>1, <1>2, <1>3, <1>4, <2>1, PassedOneMore
<1>14. \A a : /\ IsFiniteSet(Passed(a)) /\ Cardinality(Passed(a)) \in Nat
              /\ Cardinality(Passed(a)') = IF b = a THEN Cardinality(Passed(a)) + 1
                                                    ELSE Cardinality(Passed(a))
  <2> SUFFICES ASSUME NEW a
               PROVE  /\ IsFiniteSet(Passed(a)) /\ Cardinality(Passed(a)) \in Nat
                      /\ Cardinality(Passed(a)') = IF b = a THEN Cardinality(Passed(a)) + 1
                                                            ELSE Cardinality(Passed(a))
    OBVIOUS
  <2>1. IsFiniteSet(Passed(a)) /\ Cardinality(Passed(a)) \in Nat
    BY <1>2, PassedFits
  <2>2. Cardinality(Passed(a) \union {<<t, n>>}) = Cardinality(Passed(a)) + 1
    BY <1>13, <2>1, FS_AddElement
  <2> QED BY <1>13, <2>1, <2>2
<1>15. ASSUME NEW a \in {"BUY", "SELL"}
       PROVE  counts'[a] <= Cardinality(Passed(a)') /\ (Passed(a)' # {} => counts'[a] > 0)
  <2>1. CASE a = b
    <3>1. counts'[a] = g[t].reg + 1
      BY <1>6, <2>1 DEF PnlInv, Types
    <3>2. Cardinality(Passed(a)') = Cardinality(Passed(b)) + 1 /\ Cardinality(Passed(b)) \in Nat
      BY <1>14, <2>1
    <3> QED BY ONLY <1>2, <1>4, <3>1, <3>2
  <2>2. CASE a # b
    <3>1. counts'[a] = counts[a] /\ Passed(a)' = Passed(a)
      BY <1>6, <1>13, <2>2 DEF PnlInv, Types
    <3> QED BY <3>1 DEF FigureInv, Counted
  <2> QED BY <2>1, <2>2
<1>16. ASSUME NEW u \in Tokens PROVE CountedRow(u)'
  <2>1. CountedRow(u)
    BY DEF FigureInv, Counted
  <2>2. CASE u = t
    <3>1. g'[t].next \in Nat \ {0} /\ g'[t].next <= l + 1 /\ g'[t].pc = "load"
      BY <1>4, <1>7, <1>11
    <3>2. t \notin Finished'
      BY <3>1 DEF Finished
    <3> QED BY <1>3, <1>12, <2>2, <3>1, <3>2 DEF CountedRow
  <2>3. CASE u # t
    <3>1. g'[u] = g[u] /\ (u \in Finished' <=> u \in Finished)
      BY <1>8, <1>11, <2>3
    <3>2. ASSUME NEW a, g[u].reg <= Cardinality(Passed(a))
          PROVE  g[u].reg <= Cardinality(Passed(a)')
      <4>1. g[u].reg \in Nat
        BY WorkFacts
      <4>2. /\ Cardinality(Passed(a)) \in Nat
            /\ Cardinality(Passed(a)') = IF b = a THEN Cardinality(Passed(a)) + 1
                                                  ELSE Cardinality(Passed(a))
        BY <1>14
      <4> QED BY ONLY <3>2, <4>1, <4>2
    <3> QED BY <1>1, <1>12, <2>1, <3>1, <3>2 DEF CountedRow
  <2> QED BY <2>2, <2>3
<1>17. Counted'
  BY <1>15, <1>16 DEF Counted
<1> QED BY <1>9, <1>10, <1>17 DEF FigureInv

(* A goroutine whose figures go into the answer.                           *)
LEMMA FinishesWith ==
    ASSUME PnlInv, FigureInv, UNCHANGED <<handler, rows, counts>>, NEW t \in Tokens,
           Goto(t, "exit"), g[t].pc \in {"append", "add"},
           handler = "aggregated" => g[t].next > Len(Group(t))
    PROVE  /\ Finished' = Finished \union {t} /\ t \notin Finished /\ Finished \subseteq Tokens
           /\ \A u \in Tokens : g'[u].res = g[u].res
           /\ WorkedOut' /\ Counted'
           /\ \A u \in Finished \union {t} : Figured(Group(u), g[u].usd, g[u].res)
<1>1. IsWork(g[t]) /\ g[t].usd \in Nat /\ CountedRow(t)
  BY WorkFacts
<1>2. PICK r : r = [g[t] EXCEPT !.pc = "exit"]
  OBVIOUS
<1>3. g' = [g EXCEPT ![t] = r]
  BY <1>2 DEF Goto
<1>4. r.pc = "exit" /\ r.usd = g[t].usd /\ r.next = g[t].next /\ r.res = g[t].res /\ r.reg = g[t].reg
  BY <1>1, <1>2, GotoRecord
<1>5. /\ g'[t] = r
      /\ \A u \in Tokens \ {t} : g'[u] = g[u]
  BY <1>3, OneMoves DEF PnlInv
<1>6. \A u : Group(u)' = Group(u)
  BY SameGroups
<1>7. Figured(Group(t), g[t].usd, g[t].res)
  BY DEF FigureInv, WorkedOut
<1>8. g[t].usd # 0 /\ HasTrade(Group(t))
  <2>1. WorkOf(g[t], handler, Group(t))
    BY DEF PnlInv, WorkInv
  <2> QED BY <2>1 DEF WorkOf
<1>9. Finished' = Finished \union {t} /\ t \notin Finished /\ Finished \subseteq Tokens
  BY <1>4, <1>5, <1>6, <1>8 DEF Finished, Listed
<1>10. WorkedOut'
  BY <1>1, <1>3, <1>4, <1>7, WorkedOutKept DEF FigureInv
<1>11. \A a : Passed(a)' = Passed(a)
  BY <1>4, <1>5, PassedSame
<1>12. Counted'
  <2>1. ASSUME NEW u \in Tokens PROVE CountedRow(u)'
    <3>1. CountedRow(u)
      BY DEF FigureInv, Counted
    <3>2. CASE u = t
      BY <1>4, <1>5, <1>6, <3>1, <3>2 DEF CountedRow
    <3>3. CASE u # t
      <4>1. g'[u] = g[u] /\ (u \in Finished' <=> u \in Finished)
        BY <1>5, <1>9, <3>3
      <4> QED BY <1>6, <1>11, <3>1, <4>1 DEF CountedRow
    <3> QED BY <3>2, <3>3
  <2> QED BY <1>11, <2>1 DEF FigureInv, Counted
<1>13. \A u \in Finished : Figured(Group(u), g[u].usd, g[u].res)
  BY <1>9 DEF FigureInv, WorkedOut
<1> QED BY <1>4, <1>5, <1>7, <1>9, <1>10, <1>12, <1>13

(* TokenPnlHandler appends and adds nothing to the totals.                 *)
LEMMA AppendResultFigures ==
    ASSUME PnlInv, FigureInv, NEW t \in Tokens, AppendResult(t)
    PROVE  FigureInv'
<1>1. g[t].pc = "append" /\ UNCHANGED <<handler, rows, counts>> /\ Goto(t, "exit")
  BY DEF AppendResult
<1>2. handler = "token"
  BY <1>1 DEF PnlInv, WorkInv, WorkOf
<1>3. WorkedOut' /\ Counted'
  BY <1>1, <1>2, FinishesWith
<1>4. Summed'
  BY <1>1, <1>2 DEF Summed
<1> QED BY <1>3, <1>4 DEF FigureInv

(* The figures of a token are added to the sums of the others.             *)
LEMMA AddTotalsFigures ==
    ASSUME PnlInv, FigureInv, NEW t \in Tokens, AddTotals(t)
    PROVE  FigureInv'
<1>1. /\ g[t].pc = "add" /\ UNCHANGED <<handler, rows, counts>> /\ Goto(t, "exit")
      /\ totals' = Plus(g[t].snapshot, g[t].res, Group(t)[1].pair)
  BY DEF AddTotals
<1>2. handler = "aggregated" /\ g[t].snapshot = totals
  BY <1>1 DEF PnlInv, WorkInv, WorkOf, LockInv
<1>3. g[t].next > Len(Group(t))
  BY <1>1, <1>2, WorkFacts DEF CountedRow
<1>4. /\ Finished' = Finished \union {t} /\ t \notin Finished /\ Finished \subseteq Tokens
      /\ \A u \in Tokens : g'[u].res = g[u].res
      /\ WorkedOut' /\ Counted'
      /\ \A u \in Finished \union {t} : Figured(Group(u), g[u].usd, g[u].res)
  BY <1>1, <1>2, <1>3, FinishesWith
<1>5. \A u \in Finished \union {t} :
          /\ g[u].res.buyValue \in Int /\ g[u].res.sellValue \in Int /\ g[u].res.realized \in Int
          /\ g[u].res.held \in Int /\ g[u].res.sold \in Int
  <2> SUFFICES ASSUME NEW u \in Finished \union {t}
               PROVE  /\ g[u].res.buyValue \in Int /\ g[u].res.sellValue \in Int
                      /\ g[u].res.realized \in Int
                      /\ g[u].res.held \in Int /\ g[u].res.sold \in Int
    OBVIOUS
  <2>1. u \in Tokens /\ Figured(Group(u), g[u].usd, g[u].res)
    BY <1>4
  <2>2. g[u].usd \in Nat /\ Group(u) \in Seq(RowType)
    BY <2>1, WorkFacts
  <2> QED BY <2>1, <2>2, FiguredFacts
<1>6. PICK S, T : S = Finished /\ T = Finished \union {t}
  OBVIOUS
<1>7. ASSUME NEW f, NEW h, DOMAIN f = S, DOMAIN h = T,
             \A u \in S : h[u] = f[u], \A u \in T : h[u] \in Int
      PROVE  SumOver(h) = SumOver(f) + h[t]
  <2>1. t \notin S /\ T = S \union {t} /\ S \subseteq Tokens
    BY <1>4, <1>6
  <2> QED BY <1>7, <2>1, SumOneMore
<1>8. /\ SumOver([u \in T |-> g[u].res.buyValue])
             = SumOver([u \in S |-> g[u].res.buyValue]) + g[t].res.buyValue
      /\ SumOver([u \in T |-> g[u].res.sellValue])
             = SumOver([u \in S |-> g[u].res.sellValue]) + g[t].res.sellValue
      /\ SumOver([u \in T |-> g[u].res.realized])
             = SumOver([u \in S |-> g[u].res.realized]) + g[t].res.realized
      /\ SumOver([u \in T |-> g[u].res.held])
             = SumOver([u \in S |-> g[u].res.held]) + g[t].res.held
      /\ SumOver([u \in T |-> g[u].res.sold])
             = SumOver([u \in S |-> g[u].res.sold]) + g[t].res.sold
  <2>1. S \subseteq T /\ t \in T
    BY <1>6
  <2>2. ASSUME NEW k, \A u \in T : k[u] \in Int
        PROVE  SumOver([u \in T |-> k[u]]) = SumOver([u \in S |-> k[u]]) + k[t]
    <3>1. PICK f, h : f = [u \in S |-> k[u]] /\ h = [u \in T |-> k[u]]
      OBVIOUS
    <3>2. /\ DOMAIN f = S /\ DOMAIN h = T /\ h[t] = k[t]
          /\ \A u \in S : h[u] = f[u]
          /\ \A u \in T : h[u] \in Int
      BY <2>1, <2>2, <3>1
    <3>3. SumOver(h) = SumOver(f) + h[t]
      BY <1>7, <3>2
    <3> QED BY <3>1, <3>2, <3>3
  <2>3. PICK b, s, r, l, o : /\ b = [u \in T |-> g[u].res.buyValue]
                             /\ s = [u \in T |-> g[u].res.sellValue]
                             /\ r = [u \in T |-> g[u].res.realized]
                             /\ l = [u \in T |-> g[u].res.held]
                             /\ o = [u \in T |-> g[u].res.sold]
    OBVIOUS
  <2>4. \A u \in T : b[u] \in Int /\ s[u] \in Int /\ r[u] \in Int /\ l[u] \in Int /\ o[u] \in Int
    BY <1>5, <1>6, <2>3
  <2>5. /\ SumOver([u \in T |-> b[u]]) = SumOver([u \in S |-> b[u]]) + b[t]
        /\ SumOver([u \in T |-> s[u]]) = SumOver([u \in S |-> s[u]]) + s[t]
        /\ SumOver([u \in T |-> r[u]]) = SumOver([u \in S |-> r[u]]) + r[t]
        /\ SumOver([u \in T |-> l[u]]) = SumOver([u \in S |-> l[u]]) + l[t]
        /\ SumOver([u \in T |-> o[u]]) = SumOver([u \in S |-> o[u]]) + o[t]
    BY <2>2, <2>4
  <2>6. /\ [u \in T |-> b[u]] = [u \in T |-> g[u].res.buyValue]
        /\ [u \in T |-> s[u]] = [u \in T |-> g[u].res.sellValue]
        /\ [u \in T |-> r[u]] = [u \in T |-> g[u].res.realized]
        /\ [u \in T |-> l[u]] = [u \in T |-> g[u].res.held]
        /\ [u \in T |-> o[u]] = [u \in T |-> g[u].res.sold]
    BY <2>3
  <2>7. /\ [u \in S |-> b[u]] = [u \in S |-> g[u].res.buyValue]
        /\ [u \in S |-> s[u]] = [u \in S |-> g[u].res.sellValue]
        /\ [u \in S |-> r[u]] = [u \in S |-> g[u].res.realized]
        /\ [u \in S |-> l[u]] = [u \in S |-> g[u].res.held]
        /\ [u \in S |-> o[u]] = [u \in S |-> g[u].res.sold]
    BY <2>1, <2>3
  <2>8. /\ b[t] = g[t].res.buyValue /\ s[t] = g[t].res.sellValue /\ r[t] = g[t].res.realized
        /\ l[t] = g[t].res.held /\ o[t] = g[t].res.sold
    BY <2>1, <2>3
  <2> QED BY <2>5, <2>6, <2>7, <2>8
<1>9. /\ [u \in Finished |-> g[u].res.buyValue]' = [u \in T |-> g[u].res.buyValue]
      /\ [u \in Finished |-> g[u].res.sellValue]' = [u \in T |-> g[u].res.sellValue]
      /\ [u \in Finished |-> g[u].res.realized]' = [u \in T |-> g[u].res.realized]
      /\ [u \in Finished |-> g[u].res.held]' = [u \in T |-> g[u].res.held]
      /\ [u \in Finished |-> g[u].res.sold]' = [u \in T |-> g[u].res.sold]
  <2>1. Finished' = T /\ \A u \in T : g'[u].res = g[u].res
    BY <1>4, <1>6
  <2> QED BY <2>1
<1>10. /\ totals'.buyValue = totals.buyValue + g[t].res.buyValue
       /\ totals'.sellValue = totals.sellValue + g[t].res.sellValue
       /\ totals'.realized = totals.realized + g[t].res.realized
       /\ totals'.held = Wrap(totals.held + g[t].res.held)
       /\ totals'.sold = totals.sold + g[t].res.sold
  BY <1>1, <1>2 DEF Plus
<1>11. /\ totals.buyValue = SumOver([u \in S |-> g[u].res.buyValue])
       /\ totals.sellValue = SumOver([u \in S |-> g[u].res.sellValue])
       /\ totals.realized = SumOver([u \in S |-> g[u].res.realized])
       /\ totals.held = Wrap(SumOver([u \in S |-> g[u].res.held]))
       /\ totals.sold = SumOver([u \in S |-> g[u].res.sold])
  BY <1>2, <1>6 DEF FigureInv, Summed
<1>12. \A f : SumOver(f)' = SumOver(f)
  OBVIOUS
<1>13. totals'.held = Wrap(SumOver([u \in T |-> g[u].res.held]))
  <2>1. PICK v, w : v = SumOver([u \in S |-> g[u].res.held]) /\ w = g[t].res.held
    OBVIOUS
  <2>2. v \in Int /\ w \in Int
    <3>1. PICK f : f = [u \in S |-> g[u].res.held]
      OBVIOUS
    <3>2. DOMAIN f = S /\ \A u \in S : f[u] \in Int
      BY <1>5, <1>6, <3>1
    <3>3. SumOver(f) \in Int
      BY <3>2, SumIsInt
    <3> QED BY <1>5, <2>1, <3>1, <3>3
  <2>3. totals'.held = Wrap(Wrap(v) + w) /\ SumOver([u \in T |-> g[u].res.held]) = v + w
    BY <1>8, <1>10, <1>11, <2>1
  <2> QED BY ONLY <2>2, <2>3, WrapAdds
<1>14. \A x : Wrap(x)' = Wrap(x)
  OBVIOUS
<1>15. Summed'
  BY <1>8, <1>9, <1>10, <1>11, <1>12, <1>13, <1>14 DEF Summed
<1> QED BY <1>4, <1>15 DEF FigureInv

(* The handler moves while its goroutines stay where they are.             *)
LEMMA HandlerKeepsFigures ==
    ASSUME PnlInv, FigureInv, UNCHANGED <<handler, rows, g, counts, totals>>
    PROVE  FigureInv'
<1>1. \A u : Group(u)' = Group(u)
  BY SameGroups
<1>2. Finished' = Finished
  BY <1>1 DEF Finished, Listed
<1>3. Summed'
  BY <1>2, SummedKept DEF FigureInv
<1>4. WorkedOut'
  BY <1>1, <1>2 DEF FigureInv, WorkedOut, Figured
<1>5. \A a : Passed(a)' = Passed(a)
  BY PassedSame
<1>6. Counted'
  BY <1>1, <1>2, <1>5 DEF FigureInv, Counted, CountedRow
<1> QED BY <1>3, <1>4, <1>6 DEF FigureInv

(* Before the first goroutine all sums and counters are 0.                 *)
LEMMA FigureInvInit == Init => FigureInv
<1> SUFFICES ASSUME Init PROVE FigureInv
  OBVIOUS
<1>1. /\ \A t \in Tokens : g[t] = NoWork
      /\ rows \in Inputs
  BY DEF Init
<1>2. rows \in Seq(RowType)
  BY <1>1, WalletRows
<1>3. Finished = {}
  BY <1>1 DEF Finished, NoWork
<1>4. WorkedOut
  BY <1>1, <1>3 DEF WorkedOut, NoWork
<1>5. Summed
  <2>1. \A f : DOMAIN f = {} => SumOver(f) = 0
    BY SumOfNothing
  <2>2. totals = ZeroTotals
    BY DEF Init
  <2>3. /\ SumOver([t \in Finished |-> g[t].res.buyValue]) = 0
        /\ SumOver([t \in Finished |-> g[t].res.sellValue]) = 0
        /\ SumOver([t \in Finished |-> g[t].res.realized]) = 0
        /\ SumOver([t \in Finished |-> g[t].res.held]) = 0
        /\ SumOver([t \in Finished |-> g[t].res.sold]) = 0
    BY <1>3, <2>1
  <2>4. Wrap(0) = 0
    BY MaxIsInt, WrapFits
  <2> QED BY <2>2, <2>3, <2>4 DEF Summed, ZeroTotals
<1>6. \A t \in Tokens : Len(Group(t)) \in Nat
  BY <1>2, GroupFacts
<1>7. \A a : Passed(a) = {}
  BY <1>1, <1>6 DEF Passed, NoWork
<1>8. Counted
  <2>1. \A t \in Tokens : CountedRow(t)
    BY <1>1, <1>3, <1>6 DEF CountedRow, NoWork
  <2>2. \A a \in {"BUY", "SELL"} : counts[a] = 0 /\ Cardinality(Passed(a)) = 0
    BY <1>7, FS_EmptySet DEF Init
  <2> QED BY <1>7, <2>1, <2>2 DEF Counted
<1> QED BY <1>4, <1>5, <1>8 DEF FigureInv

(* Every step keeps the second invariant, given the first.                 *)
LEMMA FigureInvStep == PnlInv /\ FigureInv /\ [Next]_vars => FigureInv'
<1> SUFFICES ASSUME PnlInv, FigureInv, [Next]_vars
             PROVE  FigureInv'
  OBVIOUS
<1>1. ASSUME NEW t \in Tokens, Spawn(t) \/ Lookup(t) \/ Work(t)
      PROVE  FigureInv'
  BY <1>1, SpawnFigures, LookAtCacheFigures, FetchPriceFailsFigures, FetchPriceFigures,
     LookForTradesFigures, LoadCountFigures, StoreCountFigures, CalculateFigures,
     AppendResultFigures, LockFigures, AddTotalsFigures, LeaveSemFigures, DoneFigures DEF Lookup, Work
<1>2. CASE EndOfLoop
  BY <1>2, HandlerKeepsFigures DEF EndOfLoop, shared
<1>3. CASE Respond
  BY <1>3, HandlerKeepsFigures DEF Respond
<1>4. CASE HoldingsLookup
  BY <1>4, HandlerKeepsFigures DEF HoldingsLookup, shared
<1>5. CASE UNCHANGED vars
  BY <1>5, HandlerKeepsFigures DEF vars, shared
<1> QED BY <1>1, <1>2, <1>3, <1>4, <1>5 DEF Next, Handler

(* The invariants imply what the figures are to be.                        *)
LEMMA FigureInvImplies == PnlInv /\ FigureInv => FiguresTrue
<1> SUFFICES ASSUME PnlInv, FigureInv PROVE FiguresTrue
  OBVIOUS
<1>1. LotsAreFifo
  <2> SUFFICES ASSUME NEW t \in Tokens, g[t].pc \in {"append", "lock"}
               PROVE  \E s \in Sorted(Group(t)) :
                          /\ g[t].res.sold = Units(s).sold
                          /\ Units(s).held <= MaxInt64 => g[t].res.held = Units(s).held
    BY DEF LotsAreFifo
  <2>1. Figured(Group(t), g[t].usd, g[t].res)
    BY DEF FigureInv, WorkedOut
  <2>2. g[t].usd \in Nat /\ Group(t) \in Seq(RowType)
    BY WorkFacts
  <2> QED BY <2>1, <2>2, FiguredFacts
<1>2. ASSUME pc = "done", handler = "aggregated" PROVE Finished = Calculated
  <2>1. Started = {}
    BY <1>2, FiniteWork, FS_EmptySet DEF PnlInv, LoopInv, CountInv
  <2>2. \A t \in Tokens : g[t].pc \in {"none", "over"}
    BY <2>1 DEF Started
  <2> QED BY <2>2 DEF Finished, Calculated
<1>3. TotalsAddUp
  BY <1>2 DEF TotalsAddUp, FigureInv, Summed
<1>4. CountsBounded
  <2> SUFFICES ASSUME NEW a \in {"BUY", "SELL"}
               PROVE  /\ counts[a] <= Cardinality({k \in 1..Len(rows) : rows[k].action = a})
                      /\ pc = "done" /\ handler = "aggregated" =>
                             \A t \in Calculated : \A k \in 1..Len(Group(t)) :
                                 Group(t)[k].action = a => counts[a] > 0
    BY DEF CountsBounded
  <2>1. rows \in Seq(RowType)
    BY WalletRows DEF PnlInv, Types
  <2>2. /\ IsFiniteSet({k \in 1..Len(rows) : rows[k].action = a})
        /\ Cardinality({k \in 1..Len(rows) : rows[k].action = a}) \in Nat
    <3>1. Len(rows) \in Nat
      BY <2>1
    <3>2. IsFiniteSet(1..Len(rows))
      BY <3>1, FS_Interval
    <3>3. IsFiniteSet({k \in 1..Len(rows) : rows[k].action = a})
      BY <3>2, FS_Subset
    <3> QED BY <3>3, FS_CardinalityType
  <2>3. counts[a] <= Cardinality({k \in 1..Len(rows) : rows[k].action = a})
    <3>1. counts[a] \in Nat
      BY DEF PnlInv, Types
    <3>2. counts[a] <= Cardinality(Passed(a))
      BY DEF FigureInv, Counted
    <3>3. /\ Cardinality(Passed(a)) \in Nat
          /\ Cardinality(Passed(a)) <= Cardinality({k \in 1..Len(rows) : rows[k].action = a})
      BY <2>1, PassedFits
    <3> QED BY ONLY <2>2, <3>1, <3>2, <3>3
  <2>4. ASSUME pc = "done", handler = "aggregated", NEW t \in Calculated,
               NEW k \in 1..Len(Group(t)), Group(t)[k].action = a
        PROVE  counts[a] > 0
    <3>1. t \in Tokens /\ t \in Finished
      BY <1>2, <2>4 DEF Finished
    <3>2. g[t].next > Len(Group(t)) /\ g[t].next \in Nat /\ Len(Group(t)) \in Nat
      BY <2>4, <3>1, WorkFacts DEF CountedRow
    <3>3. k < g[t].next
      BY <3>2
    <3>4. <<t, k>> \in Passed(a)
      BY <2>4, <3>1, <3>3 DEF Passed
    <3> QED BY <3>4 DEF FigureInv, Counted
  <2> QED BY <2>3, <2>4
<1> QED BY <1>1, <1>3, <1>4 DEF FiguresTrue

(* For every wallet, every price and every schedule: the lots of each      *)
(* token are matched first in, first out, the sums of AggregatedPnlHandler *)
(* are complete, and its unguarded counters never run ahead of the trades  *)
(* nor lose all of a kind.                                                 *)
THEOREM FiguresStayTrue == Spec => []FiguresTrue
<1>1. Init => PnlInv /\ FigureInv
  BY PnlInvInit, FigureInvInit
<1>2. PnlInv /\ FigureInv /\ [Next]_vars => (PnlInv /\ FigureInv)'
  BY PnlInvStep, FigureInvStep
<1>3. PnlInv /\ FigureInv => FiguresTrue
  BY FigureInvImplies
<1> QED BY <1>1, <1>2, <1>3, PTL DEF Spec

-----------------------------------------------------------------------------
(* The prices that GetUSDPrice gives to the handlers: PriceTracker, for    *)
(* every set of symbols and handlers, every course of the prices and every *)
(* number of failures and deaths.                                          *)
(* CacheType names some fields of run; this is all of it.                  *)
RunType ==
    run \in [pc : {"wait", "range", "ask", "store", "writing", "ended"},
             todo : SUBSET Symbols, symbol : Symbols \union {NoSymbol},
             amount : PriceRange \union {None},
             since : [Symbols -> PriceRange \union {None}], clean : SUBSET Symbols]

(* A handler past the cache has asked for a valid symbol, and what it      *)
(* holds was the price at some time.                                       *)
CallerInv ==
    \A c \in Callers :
        /\ caller[c].pc # "idle" => caller[c].symbol \in Symbols
        /\ caller[c].pc \in {"lock", "writing"} =>
              caller[c].symbol \in ValidSymbols /\ caller[c].amount \in PriceRange

(* Run visits symbols of the map.                                          *)
RunInv ==
    /\ run.todo \subseteq ValidSymbols
    /\ IF run.pc \in {"ask", "store", "writing"} THEN run.symbol \in ValidSymbols
                                                 ELSE run.symbol = NoSymbol
    /\ run.pc \in {"store", "writing"} => run.amount \in PriceRange

InRound == run.pc \in {"range", "ask", "store", "writing"}

(* What a round may rely on: prices are not older than its beginning, the  *)
(* price in Run's hand neither, and no handler is about to store a price   *)
(* for a clean symbol, which was in the map before any of them looked.     *)
CleanInv ==
    InRound =>
        /\ \A s \in Symbols : run.since[s] <= market[s]
        /\ run.pc \in {"store", "writing"} => run.since[run.symbol] <= run.amount
        /\ \A s \in run.clean :
              /\ s \notin broken /\ s \in Cached
              /\ \A c \in Callers : caller[c].symbol = s => caller[c].pc \in {"idle", "reading"}

CacheInv == CacheSound /\ RunType /\ CallerInv /\ RunInv /\ CleanInv

(* The initial state.                                                      *)
LEMMA CacheInvInit == PriceInit => CacheInv
  BY PriceAssumption
  DEF PriceInit, CacheInv, CacheSound, CacheType, CallersExclude, RoundRefreshes,
      RunType, CallerInv, RunInv, CleanInv, InRound, Resting, Sleeping, None, PriceRange, Writing

(* Every step keeps the invariant.                                         *)
LEMMA CacheInvStep == CacheInv /\ [PriceNext]_priceVars => CacheInv'
<1> SUFFICES ASSUME CacheInv, [PriceNext]_priceVars PROVE CacheInv'
  OBVIOUS
<1> USE PriceAssumption DEF CacheInv, CacheSound, CacheType, CallersExclude, RoundRefreshes,
            RunType, CallerInv, RunInv, CleanInv, InRound, Resting, Sleeping, None, PriceRange,
            Writing, Reading, Cached
<1>1. CASE PriceMoves
  BY <1>1 DEF PriceMoves
<1>2. CASE Break
  BY <1>2 DEF Break
<1>3. CASE Repair
  BY <1>3 DEF Repair
<1>4. CASE Cancel
  BY <1>4 DEF Cancel
<1>5. CASE Fatal
  BY <1>5 DEF Fatal
<1>6. ASSUME NEW c \in Callers, GetUSDPrice(c) PROVE CacheInv'
  <2>1. PICK s \in Symbols :
          caller' = [caller EXCEPT ![c] = [Resting EXCEPT !.pc = "reading", !.symbol = s]]
    BY <1>6 DEF GetUSDPrice
  <2>2. /\ caller' \in [Callers -> [pc : {"idle", "reading", "ask", "lock", "writing"},
                                    symbol : Symbols \union {NoSymbol},
                                    amount : PriceRange \union {None}]]
        /\ \A d \in Callers : d # c => caller'[d] = caller[d]
        /\ caller'[c].pc = "reading" /\ caller'[c].symbol = s
    BY <2>1
  <2>3. UNCHANGED <<market, broken, cache, run, ctx, deaths>>
    BY <1>6 DEF GetUSDPrice
  <2>4. CallersExclude'
    BY <1>6, <2>2 DEF GetUSDPrice
  <2>5. CallerInv'
    BY <2>2
  <2>6. CleanInv'
    BY <2>2, <2>3
  <2> QED BY <2>2, <2>3, <2>4, <2>5, <2>6
<1>7. ASSUME NEW c \in Callers, RUnlock(c) PROVE CacheInv'
  BY <1>7 DEF RUnlock, CallerAt
<1>8. ASSUME NEW c \in Callers, Answer(c) PROVE CacheInv'
  <2>1. UNCHANGED <<market, broken, cache, run, ctx, deaths>>
    BY <1>8 DEF Answer
  <2>2. PICK r : /\ caller' = [caller EXCEPT ![c] = r]
                 /\ \/ r = Resting
                    \/ /\ caller[c].symbol \in ValidSymbols
                       /\ r = [caller[c] EXCEPT !.pc = "lock", !.amount = market[caller[c].symbol]]
    <3>1. CASE Found(caller[c].symbol)
      BY <1>8, <3>1 DEF Answer, Found
    <3>2. CASE ~Found(caller[c].symbol)
      BY <1>8, <3>2 DEF Answer
    <3> QED BY <3>1, <3>2
  <2>3. caller[c].pc = "ask"
    BY <1>8 DEF Answer
  <2>4. /\ r \in [pc : {"idle", "lock"}, symbol : Symbols \union {NoSymbol},
                  amount : PriceRange \union {None}]
        /\ r.pc = "lock" => /\ r.symbol \in ValidSymbols /\ r.amount \in PriceRange
                             /\ r.symbol = caller[c].symbol
    <3>1. CASE r = Resting
      BY <3>1
    <3>2. CASE r # Resting
      <4>1. /\ caller[c] \in [pc : {"idle", "reading", "ask", "lock", "writing"},
                              symbol : Symbols \union {NoSymbol}, amount : PriceRange \union {None}]
            /\ caller[c].symbol \in ValidSymbols /\ market[caller[c].symbol] \in PriceRange
        BY <2>2, <3>2
      <4>2. r = [caller[c] EXCEPT !.pc = "lock", !.amount = market[caller[c].symbol]]
        BY <2>2, <3>2
      <4> QED BY ONLY <4>1, <4>2
    <3> QED BY <3>1, <3>2
  <2>5. CallersExclude' /\ CallerInv' /\ CacheType'
    BY <2>1, <2>2, <2>4
  <2>6. CleanInv'
    BY <2>1, <2>2, <2>3, <2>4
  <2> QED BY <2>1, <2>2, <2>5, <2>6
<1>9. ASSUME NEW c \in Callers, LockCache(c) PROVE CacheInv'
  BY <1>9 DEF LockCache, CallerAt
<1>10. ASSUME NEW c \in Callers, UnlockCache(c) PROVE CacheInv'
  BY <1>10 DEF UnlockCache
<1>11. CASE Tick
  <2>1. /\ run.pc = "wait"
        /\ run' = [pc |-> "range", todo |-> Cached, symbol |-> NoSymbol, amount |-> None,
                   since |-> market, clean |-> Cached \ (InFlight \union broken)]
        /\ UNCHANGED <<market, broken, cache, caller, ctx, deaths>>
    BY <1>11 DEF Tick
  <2>2. Cached \subseteq ValidSymbols
    OBVIOUS
  <2>3. RunType' /\ RunInv' /\ RoundRefreshes' /\ CacheType'
    BY <2>1, <2>2
  <2>4. \A s \in run'.clean : \A c \in Callers : caller[c].symbol = s => caller[c].pc = "idle"
    BY <2>1 DEF InFlight
  <2>5. CleanInv'
    BY <2>1, <2>4
  <2> QED BY <2>1, <2>3, <2>5
<1>12. CASE RunReturns
  BY <1>12 DEF RunReturns
<1>13. CASE RunNext
  <2>1. PICK s \in run.todo : run' = [run EXCEPT !.pc = "ask", !.symbol = s, !.todo = @ \ {s}]
    BY <1>13 DEF RunNext
  <2>2. /\ run.pc = "range" /\ s \in ValidSymbols
        /\ run'.pc = "ask" /\ run'.symbol = s /\ run'.todo = run.todo \ {s}
        /\ run'.since = run.since /\ run'.clean = run.clean /\ run'.amount = run.amount
        /\ UNCHANGED <<market, broken, cache, caller, ctx, deaths>>
    BY <1>13, <2>1 DEF RunNext
  <2>3. RunType' /\ RunInv' /\ CacheType'
    BY <2>1, <2>2
  <2>4. RoundRefreshes'
    BY <2>2
  <2>5. CleanInv'
    BY <2>2
  <2> QED BY <2>2, <2>3, <2>4, <2>5
<1>14. CASE RunAnswer
  <2>1. /\ run.pc = "ask" /\ run.symbol \in ValidSymbols
        /\ UNCHANGED <<market, broken, cache, caller, ctx, deaths>>
    BY <1>14 DEF RunAnswer
  <2>2. CASE Found(run.symbol)
    <3>1. /\ run' = [run EXCEPT !.pc = "store", !.amount = market[run.symbol]]
          /\ market[run.symbol] \in PriceRange
      BY <1>14, <2>1, <2>2 DEF RunAnswer
    <3>2. /\ run'.pc = "store" /\ run'.amount = market[run.symbol]
          /\ run'.symbol = run.symbol /\ run'.todo = run.todo
          /\ run'.since = run.since /\ run'.clean = run.clean
      BY <3>1
    <3>3. RunType' /\ RunInv' /\ CacheType'
      BY <2>1, <3>1, <3>2
    <3>4. RoundRefreshes' /\ CleanInv'
      BY <2>1, <3>2
    <3> QED BY <2>1, <3>3, <3>4
  <2>3. CASE ~Found(run.symbol)
    <3>1. run' = [run EXCEPT !.pc = "range", !.symbol = NoSymbol]
      BY <1>14, <2>3 DEF RunAnswer
    <3>2. /\ run'.pc = "range" /\ run'.symbol = NoSymbol /\ run'.todo = run.todo
          /\ run'.since = run.since /\ run'.clean = run.clean /\ run'.amount = run.amount
      BY <3>1
    <3>3. run.symbol \notin run.clean
      BY <2>1, <2>3 DEF Found
    <3>4. RunType' /\ RunInv' /\ CacheType'
      BY <2>1, <3>1, <3>2
    <3>5. RoundRefreshes' /\ CleanInv'
      BY <2>1, <3>2, <3>3
    <3> QED BY <2>1, <3>4, <3>5
  <2> QED BY <2>2, <2>3
<1>15. CASE RunStore
  BY <1>15 DEF RunStore
<1>16. CASE RunStored
  <2>1. /\ run.pc = "writing" /\ run.symbol \in ValidSymbols /\ run.amount \in PriceRange
        /\ run.since[run.symbol] <= run.amount
        /\ cache' = [cache EXCEPT ![run.symbol] = run.amount]
        /\ run' = [run EXCEPT !.pc = "range", !.symbol = NoSymbol, !.amount = None]
        /\ UNCHANGED <<market, broken, caller, ctx, deaths>>
    BY <1>16 DEF RunStored
  <2>2. /\ run'.pc = "range" /\ run'.symbol = NoSymbol /\ run'.todo = run.todo
        /\ run'.since = run.since /\ run'.clean = run.clean /\ run'.amount = None
    BY <2>1
  <2>3. RunType' /\ RunInv' /\ CacheType'
    BY <2>1, <2>2
  <2>4. \A s \in Symbols : cache'[s] = IF s = run.symbol THEN run.amount ELSE cache[s]
    BY <2>1
  <2>5. RoundRefreshes'
    BY <2>1, <2>2, <2>4
  <2>6. CleanInv'
    BY <2>1, <2>2, <2>4
  <2> QED BY <2>1, <2>3, <2>5, <2>6
<1>17. CASE RoundEnds
  BY <1>17 DEF RoundEnds
<1>18. CASE UNCHANGED priceVars
  BY <1>18 DEF priceVars
<1> QED
  BY <1>1, <1>2, <1>3, <1>4, <1>5, <1>6, <1>7, <1>8, <1>9, <1>10, <1>11, <1>12, <1>13,
     <1>14, <1>15, <1>16, <1>17, <1>18
  DEF PriceNext, Call, Refresh

(* The price cache is sound for every set of symbols and handlers: pt.mx   *)
(* keeps the handlers of GetUSDPrice apart, and a round of Run leaves no   *)
(* price behind that is older than its beginning, although Run takes no    *)
(* lock.                                                                   *)
THEOREM CacheStaysSound == PriceSpec => []CacheSound
<1>1. PriceInit => CacheInv
  BY CacheInvInit
<1>2. CacheInv /\ [PriceNext]_priceVars => CacheInv'
  BY CacheInvStep
<1>3. CacheInv => CacheSound
  BY DEF CacheInv
<1> QED BY <1>1, <1>2, <1>3, PTL DEF PriceSpec
=============================================================================
