-------------------------------- MODULE Pnl --------------------------------
(***************************************************************************)
(* The wallet requests of the API that compute from swap_log:              *)
(* AggregatedPnlHandler (pnl.go), TokenPnlHandler (token-pnl.go), both on  *)
(* CalculateTokenPnL (pnl_utils.go), and HoldingsLookupHandler.            *)
(*                                                                         *)
(* The first two group the rows of a wallet by token and run a goroutine   *)
(* per token, limited by the channel sem, counted by wg, over the shared   *)
(* priceCache and the totals, guarded by mu.                               *)
(*                                                                         *)
(* Amounts and prices are whole numbers; a quotient is a pair [n, d].      *)
(* Times are in nanoseconds, the unit of time.Duration, and int and        *)
(* Duration have their width.  No code fills the pairs table, so the quote *)
(* token of every row is SOL by the query's COALESCE and the tests for a   *)
(* missing symbol never succeed.                                           *)
(***************************************************************************)
EXTENDS Integers, FiniteSets, Sequences, SequencesExt, Lists

CONSTANTS Tokens,
          Inputs,       \* what GetSwapsOnDate returns: rows, oldest first
          LatestSwaps,  \* what FindLatestSwap returns for a pair
          Prices,       \* what GetUSDPrice returns, 0 on an error
          Rank,         \* the places of the tokens in the order of their addresses
          Limit,        \* capacity of sem (100)
          PageSize,     \* results of a page (100)
          MaxInt64,     \* the largest int and the longest Duration (2^63 - 1)
          TooLarge      \* the Duration that the processor makes of a larger float

Handlers == {"aggregated", "token", "holdings"}

(* No trade of the pair was found.                                         *)
NoLatest == [action |-> "NONE", amountOut |-> 0, amountIn |-> 0]

(* A row of swap_log with a token.  Rows of action UNKNOWN have none.      *)
RowType == [token : Tokens, action : {"BUY", "SELL", "RECEIVE", "TRANSFER"},
            amountOut : Nat, amountIn : Nat, pair : STRING, ts : Nat]

ASSUME PnlAssumption == /\ Limit \in Nat \ {0} /\ PageSize \in Nat \ {0}
                        /\ Prices \subseteq Nat
                        /\ IsFiniteSet(Tokens) /\ "" \notin Tokens
                        /\ Rank \in Bijection(Tokens, 1..Cardinality(Tokens))
                        /\ MaxInt64 \in Nat /\ Cardinality(Tokens) + PageSize <= MaxInt64
                        /\ \A s \in Inputs : s \in Seq(RowType)
                        /\ \A s \in Inputs : \A k \in 1..Len(s) - 1 : s[k].ts <= s[k + 1].ts

(* The least int64 on amd64, the largest one on arm64.                     *)
ASSUME FloatAssumption == TooLarge \in {-MaxInt64 - 1, MaxInt64}

(* HandleSwaps writes no trade with an amount of 0: ParseTransaction drops *)
(* such transfers, and HandlePumpFunSwapData such events.  So the quotients*)
(* of MostRecentPrice have no 0 below, which would be Inf or a panic.      *)
ASSUME LatestAssumption ==
    \A l \in LatestSwaps : /\ l.action = "BUY" => l.amountIn > 0
                           /\ l.action = "SELL" => l.amountOut > 0

VARIABLES handler,      \* which request it is
          rows,         \* the rows of the wallet
          pc,           \* the handler: "spawn", "wait" or "done"
          todo,         \* tokens the loop has still to start
          g,            \* the goroutines, by token
          sem, wg, mu,  \* channel, WaitGroup and mutex ("" is unlocked)
          priceCache,   \* the price of SOL; 0: not there
          counts,       \* totalBuys and totalSells
          totals,       \* what is added up under mu
          results,      \* tokens and their PnL, appended under resultsMu
          holdings      \* the answer of HoldingsLookupHandler

shared == <<priceCache, counts, totals, results>>
vars == <<handler, rows, pc, todo, g, sem, wg, mu, shared, holdings>>

Group(t) == Keep(rows, {r \in Elements(rows) : r.token = t})
Grouped == {rows[k].token : k \in 1..Len(rows)}

IsTrade(r) == r.action \in {"BUY", "SELL"}
HasTrade(s) == \E k \in 1..Len(s) : IsTrade(s[k])

-----------------------------------------------------------------------------
(* int64: a sum or a product that leaves the range comes in at its other   *)
(* end; the conversion of a float above the range gives TooLarge.          *)
Wrap(x) == ((x + MaxInt64 + 1) % (2 * MaxInt64 + 2)) - (MaxInt64 + 1)

Duration(x) == IF x <= MaxInt64 THEN x ELSE TooLarge

-----------------------------------------------------------------------------
(* CalculateTokenPnL.                                                      *)

NoSale(amount) == [left |-> amount, lots |-> <<>>, held |-> 0, sold |-> 0]

(* A sale takes what is left of it from a lot, or all of the lot.  The     *)
(* lots that it does not reach stay (an empty one may go: it holds nothing *)
(* for a later sale either).                                               *)
SellLot(sale, lot, ts) ==
    LET n == IF lot.amount <= sale.left THEN lot.amount ELSE sale.left
    IN [left |-> sale.left - n,
        lots |-> IF n = lot.amount THEN sale.lots
                 ELSE Append(sale.lots, [amount |-> lot.amount - n, ts |-> lot.ts]),
        held |-> Wrap(sale.held + Duration((ts - lot.ts) * n)),
        sold |-> sale.sold + n]

(* Mutant: the last lot is sold first.                                     *)
SellLotsLastFirst(lots, amount, ts) ==
    LET r == FoldLeft(LAMBDA sale, lot : SellLot(sale, lot, ts), NoSale(amount), Reverse(lots))
    IN [r EXCEPT !.lots = Reverse(@)]

(* A sale uses up the oldest lots; what no lot covers is dropped.          *)
SellLots(lots, amount, ts) ==
    LET sale[k \in 0..Len(lots)] == IF k = 0 THEN NoSale(amount)
                                    ELSE SellLot(sale[k - 1], lots[k], ts)
    IN  sale[Len(lots)]

NoTally == [buyTokens |-> 0, sellTokens |-> 0, buyValue |-> 0, sellValue |-> 0,
            lots |-> <<>>, held |-> 0, sold |-> 0]

AddRow(tally, r, usd) ==
    CASE r.action \in {"BUY", "RECEIVE"} ->
             [tally EXCEPT !.buyTokens = @ + r.amountIn,
                           !.buyValue = @ + IF r.action = "BUY" THEN r.amountOut * usd ELSE 0,
                           !.lots = Append(@, [amount |-> r.amountIn, ts |-> r.ts])]
      [] r.action \in {"SELL", "TRANSFER"} ->
             LET sale == SellLots(tally.lots, r.amountOut, r.ts)
             IN [tally EXCEPT !.sellTokens = @ + r.amountOut,
                              !.sellValue = @ + IF r.action = "SELL" THEN r.amountIn * usd ELSE 0,
                              !.lots = sale.lots,
                              !.held = Wrap(@ + sale.held),
                              !.sold = @ + sale.sold]

Tally(s, usd) == LET tally[k \in 0..Len(s)] == IF k = 0 THEN NoTally
                                               ELSE AddRow(tally[k - 1], s[k], usd)
                 IN  tally[Len(s)]

(* sort.Slice by timestamp is not stable: rows of the same second come in  *)
(* any order.                                                              *)
Orders(s) == {p \in Bijection(1..Len(s), 1..Len(s)) :
                 \A k \in 1..Len(s) - 1 : s[p[k]].ts <= s[p[k + 1]].ts}
Sorted(s) == {[k \in 1..Len(s) |-> s[p[k]]] : p \in Orders(s)}

(* Quote tokens per token, in the last trade of the pair of the oldest row. *)
MostRecentPrice(latest) ==
    CASE latest.action = "BUY"  -> [n |-> latest.amountOut, d |-> latest.amountIn]
      [] latest.action = "SELL" -> [n |-> latest.amountIn, d |-> latest.amountOut]
      [] OTHER                  -> [n |-> 0, d |-> 1]

RealizedPnL(tally) == IF tally.sellTokens # 0 THEN tally.sellValue - tally.buyValue ELSE 0

UnrealizedPnL(tally, price) ==
    LET remaining == tally.buyTokens - tally.sellTokens
    IN IF remaining > 0
       THEN [n |-> remaining * (price.n * tally.buyTokens - tally.buyValue * price.d),
             d |-> price.d * tally.buyTokens]
       ELSE [n |-> 0, d |-> 1]

CalculateTokenPnL(s, usd, latest) ==
    LET tally == Tally(s, usd)
    IN [realized |-> RealizedPnL(tally),
        unrealized |-> UnrealizedPnL(tally, MostRecentPrice(latest)),
        remaining |-> tally.buyTokens - tally.sellTokens,
        buyValue |-> tally.buyValue, sellValue |-> tally.sellValue,
        held |-> tally.held, sold |-> tally.sold]

(* Rows of plain receipts and transfers have no pair and no latest swap.   *)
LatestOf(s) == IF s[1].pair = "" THEN {NoLatest} ELSE LatestSwaps

-----------------------------------------------------------------------------
NoWork == [pc |-> "none", usd |-> 0, next |-> 1, reg |-> 0, res |-> <<>>, snapshot |-> <<>>]

ZeroTotals == [buyValue |-> 0, sellValue |-> 0, realized |-> 0, held |-> 0, sold |-> 0,
               wins |-> 0, pairs |-> {}]

Init == /\ handler \in Handlers
        /\ rows \in Inputs
        /\ pc = "spawn"
        /\ todo = IF handler = "holdings" THEN {} ELSE Grouped
        /\ g = [t \in Tokens |-> NoWork]
        /\ sem = 0 /\ wg = 0 /\ mu = ""
        /\ priceCache = 0
        /\ counts = [action \in {"BUY", "SELL"} |-> 0]
        /\ totals = ZeroTotals
        /\ results = <<>>
        /\ holdings = 0

TypeOK == /\ handler \in Handlers /\ pc \in {"spawn", "wait", "done"}
          /\ todo \subseteq Tokens
          /\ sem \in 0..Limit /\ wg \in 0..Cardinality(Tokens)
          /\ mu \in Tokens \union {""}
          /\ priceCache \in Prices \union {0}
          /\ counts \in [{"BUY", "SELL"} -> Nat]
          /\ \A k \in 1..Len(results) : results[k].token \in Tokens

Goto(t, where) == g' = [g EXCEPT ![t].pc = where]

(* The loop over the map, in any order; it waits for a place in sem.       *)
Spawn(t) ==
    /\ pc = "spawn" /\ t \in todo
    /\ sem < Limit
    /\ sem' = sem + 1 /\ wg' = wg + 1
    /\ todo' = todo \ {t}
    /\ Goto(t, "price")
    /\ UNCHANGED <<handler, rows, pc, mu, shared, holdings>>

EndOfLoop == /\ pc = "spawn" /\ todo = {} /\ handler # "holdings"
             /\ pc' = "wait"
             /\ UNCHANGED <<handler, rows, todo, g, sem, wg, mu, shared, holdings>>

(* TokenPnlHandler asks for the price with mu locked, the other without.   *)
LookAtCache(t) ==
    /\ g[t].pc = "price" /\ mu = ""
    /\ IF priceCache # 0
       THEN /\ g' = [g EXCEPT ![t] = [@ EXCEPT !.pc = "trades", !.usd = priceCache]]
            /\ UNCHANGED mu
       ELSE /\ Goto(t, "fetch")
            /\ mu' = IF handler = "token" THEN t ELSE ""
    /\ UNCHANGED <<handler, rows, pc, todo, sem, wg, shared, holdings>>

(* Mutant: the early return keeps mu.                                      *)
FetchPriceFailsLocked(t) ==
    /\ g[t].pc = "fetch"
    /\ 0 \in Prices
    /\ Goto(t, "exit")
    /\ UNCHANGED <<handler, rows, pc, todo, sem, wg, mu, shared, holdings>>

FetchPriceFails(t) ==
    /\ g[t].pc = "fetch"
    /\ 0 \in Prices
    /\ Goto(t, "exit")
    /\ mu' = IF mu = t THEN "" ELSE mu
    /\ UNCHANGED <<handler, rows, pc, todo, sem, wg, shared, holdings>>

FetchPrice(t) ==
    /\ g[t].pc = "fetch"
    /\ mu \in {"", t}
    /\ \E p \in Prices \ {0} :
           /\ priceCache' = p
           /\ g' = [g EXCEPT ![t] = [@ EXCEPT !.pc = "trades", !.usd = p]]
    /\ mu' = ""
    /\ UNCHANGED <<handler, rows, pc, todo, sem, wg, counts, totals, results, holdings>>

(* A token that was never traded is left out.                              *)
LookForTrades(t) ==
    /\ g[t].pc = "trades"
    /\ Goto(t, IF handler = "aggregated" THEN "load"
               ELSE IF HasTrade(Group(t)) THEN "calc" ELSE "exit")
    /\ UNCHANGED <<handler, rows, pc, todo, sem, wg, mu, shared, holdings>>

(* The loop that counts.  totalBuys++ and totalSells++ hold no lock: a     *)
(* load and a store, between which the other goroutines run.               *)
LoadCount(t) ==
    /\ g[t].pc = "load"
    /\ IF g[t].next > Len(Group(t))
       THEN Goto(t, IF HasTrade(Group(t)) THEN "calc" ELSE "exit")
       ELSE LET r == Group(t)[g[t].next]
            IN g' = [g EXCEPT ![t] = IF IsTrade(r)
                                     THEN [@ EXCEPT !.pc = "store", !.reg = counts[r.action]]
                                     ELSE [@ EXCEPT !.next = g[t].next + 1]]
    /\ UNCHANGED <<handler, rows, pc, todo, sem, wg, mu, shared, holdings>>

StoreCount(t) ==
    /\ g[t].pc = "store"
    /\ counts' = [counts EXCEPT ![Group(t)[g[t].next].action] = g[t].reg + 1]
    /\ g' = [g EXCEPT ![t] = [@ EXCEPT !.pc = "load", !.next = g[t].next + 1]]
    /\ UNCHANGED <<handler, rows, pc, todo, sem, wg, mu, priceCache, totals, results, holdings>>

Calculate(t) ==
    /\ g[t].pc = "calc"
    /\ \E s \in Sorted(Group(t)) : \E latest \in LatestOf(s) :
           g' = [g EXCEPT ![t] = [@ EXCEPT !.pc = IF handler = "token" THEN "append" ELSE "lock",
                                           !.res = CalculateTokenPnL(s, g[t].usd, latest)]]
    /\ UNCHANGED <<handler, rows, pc, todo, sem, wg, mu, shared, holdings>>

AppendResult(t) ==
    /\ g[t].pc = "append"
    /\ results' = Append(results, [token |-> t, pnl |-> g[t].res])
    /\ Goto(t, "exit")
    /\ UNCHANGED <<handler, rows, pc, todo, sem, wg, mu, priceCache, counts, totals, holdings>>

(* Mutant: the totals are added without the lock.                          *)
LockNothing(t) ==
    /\ g[t].pc = "lock"
    /\ g' = [g EXCEPT ![t] = [@ EXCEPT !.pc = "add", !.snapshot = totals]]
    /\ UNCHANGED <<handler, rows, pc, todo, sem, wg, mu, shared, holdings>>

Lock(t) ==
    /\ g[t].pc = "lock" /\ mu = ""
    /\ mu' = t
    /\ g' = [g EXCEPT ![t] = [@ EXCEPT !.pc = "add", !.snapshot = totals]]
    /\ UNCHANGED <<handler, rows, pc, todo, sem, wg, shared, holdings>>

(* The wins are counted by token, the tokens traded by the pair of the     *)
(* oldest row.                                                             *)
Plus(sum, res, pair) ==
    [buyValue |-> sum.buyValue + res.buyValue, sellValue |-> sum.sellValue + res.sellValue,
     realized |-> sum.realized + res.realized, held |-> Wrap(sum.held + res.held),
     sold |-> sum.sold + res.sold, wins |-> sum.wins + IF res.realized > 0 THEN 1 ELSE 0,
     pairs |-> sum.pairs \union {pair}]

AddTotals(t) ==
    /\ g[t].pc = "add"
    /\ totals' = Plus(g[t].snapshot, g[t].res, Group(t)[1].pair)
    /\ mu' = IF mu = t THEN "" ELSE mu
    /\ Goto(t, "exit")
    /\ UNCHANGED <<handler, rows, pc, todo, sem, wg, priceCache, counts, results, holdings>>

(* The deferred calls, last first.                                         *)
LeaveSem(t) ==
    /\ g[t].pc = "exit"
    /\ sem' = sem - 1
    /\ Goto(t, "left")
    /\ UNCHANGED <<handler, rows, pc, todo, wg, mu, shared, holdings>>

Done(t) ==
    /\ g[t].pc = "left"
    /\ wg' = wg - 1
    /\ Goto(t, "over")
    /\ UNCHANGED <<handler, rows, pc, todo, sem, mu, shared, holdings>>

(* The results of TokenPnlHandler by their tokens.                         *)
ByToken(s) == {[k \in 1..Len(s) |-> s[p[k]]] : p \in {q \in Bijection(1..Len(s), 1..Len(s)) :
                   \A j, k \in 1..Len(s) : j < k => Rank[s[q[j]].token] <= Rank[s[q[k]].token]}}

Respond ==
    /\ pc = "wait" /\ wg = 0
    /\ pc' = "done"
    /\ IF handler = "token" THEN results' \in ByToken(results) ELSE UNCHANGED results
    /\ UNCHANGED <<handler, rows, todo, g, sem, wg, mu, priceCache, counts, totals, holdings>>

(* The SQL of FindWalletTokenHoldings, row by row.                         *)
HoldingOf(r) == CASE r.action \in {"BUY", "TRANSFER"} -> r.amountIn
                  [] r.action \in {"SELL", "RECEIVE"} -> -r.amountOut

FindWalletTokenHoldings(t) == FoldLeft(LAMBDA sum, r : sum + HoldingOf(r), 0, Group(t))

HoldingsLookup ==
    /\ pc = "spawn" /\ handler = "holdings"
    /\ \E t \in Grouped : /\ holdings' = FindWalletTokenHoldings(t)
                          /\ todo' = {t}
    /\ pc' = "done"
    /\ UNCHANGED <<handler, rows, g, sem, wg, mu, shared>>

Lookup(t) == FetchPriceFails(t) \/ FetchPrice(t)

Work(t) == \/ LookAtCache(t) \/ LookForTrades(t) \/ LoadCount(t) \/ StoreCount(t)
           \/ Calculate(t) \/ AppendResult(t) \/ Lock(t) \/ AddTotals(t)
           \/ LeaveSem(t) \/ Done(t)

Handler == (\E t \in Tokens : Spawn(t)) \/ EndOfLoop \/ Respond \/ HoldingsLookup

Next == Handler \/ \E t \in Tokens : Lookup(t) \/ Work(t)

Spec == Init /\ [][Next]_vars

(* The handler and the goroutines are scheduled, and the database answers. *)
(* No answer is assumed of GetUSDPrice: http.Get of the price tracker has  *)
(* no timeout.                                                             *)
FairSpec == Spec /\ WF_vars(Handler) /\ \A t \in Tokens : WF_vars(Work(t))

-----------------------------------------------------------------------------
(* The pages of TokenPnlHandler: results startIndex + 1 to endIndex.       *)
PageStart(n, page) == LET start == Wrap((page - 1) * PageSize) IN IF start > n THEN n ELSE start
PageEnd(n, page) == LET end == Wrap(page * PageSize) IN IF end > n THEN n ELSE end
TotalPages(n) == (n + PageSize - 1) \div PageSize

(* The last page whose product is an int.  Behind it the product wraps and *)
(* the slice may panic, which net/http recovers from: the page has no      *)
(* answer.                                                                 *)
LastPage == MaxInt64 \div PageSize

-----------------------------------------------------------------------------
(* What is to be in the answer: what was traded and has a price.           *)
Listed(t) == HasTrade(Group(t)) /\ g[t].usd # 0
Calculated == {t \in Tokens : g[t].pc = "over" /\ Listed(t)}

(* The comment on sem: at most Limit goroutines work at a time, and the    *)
(* place is taken before the goroutine exists.                             *)
AtMostLimit == Cardinality({t \in Tokens : g[t].pc \notin {"none", "left", "over"}}) <= Limit

(* The wins and the tokens traded, from which AggregatedPnlHandler works   *)
(* out the win rate, are those of all the tokens it has calculated: no     *)
(* goroutine overwrites what another has added.                            *)
WinsAddUp ==
    pc = "done" /\ handler = "aggregated" =>
        /\ totals.wins = Cardinality({t \in Calculated : g[t].res.realized > 0})
        /\ totals.pairs = {Group(t)[1].pair : t \in Calculated}

(* TokenPnlHandler answers with every token that was traded and whose      *)
(* price was found, once, and on exactly one page.  They are in the order  *)
(* of the tokens, however the goroutines ran, so that the pages, of which  *)
(* each is a request of its own, fit together.  No page is cut outside of  *)
(* the results, and one past the end is empty, up to LastPage.             *)
EachTokenOnOnePage ==
    pc = "done" /\ handler = "token" =>
        LET n == Len(results) IN
        /\ \A t \in Grouped :
               Cardinality({k \in 1..n : results[k].token = t}) = IF Listed(t) THEN 1 ELSE 0
        /\ \A j, k \in 1..n : j < k => Rank[results[j].token] < Rank[results[k].token]
        /\ \A k \in 1..n :
               Cardinality({p \in 1..LastPage : PageStart(n, p) < k /\ k <= PageEnd(n, p)}) = 1
        /\ \A p \in 1..LastPage :
               /\ 0 <= PageStart(n, p) /\ PageStart(n, p) <= PageEnd(n, p) /\ PageEnd(n, p) <= n
               /\ p > TotalPages(n) => PageStart(n, p) = PageEnd(n, p)

(* A request answers for everything its goroutines have worked out,        *)
(* however they are scheduled.                                             *)
AnswerComplete == TypeOK /\ AtMostLimit /\ WinsAddUp /\ EachTokenOnOnePage

(* The same computation unit by unit: the times at which each unit was     *)
(* bought, in their order.  A unit that is sold is the first not yet sold. *)
NoUnits == [units |-> <<>>, sold |-> 0, held |-> 0]

BuyUnits(acc, n, ts) == [acc EXCEPT !.units = @ \o [k \in 1..n |-> ts]]

SellUnits(acc, n, ts) ==
    LET rest == Len(acc.units) - acc.sold
        m == IF n <= rest THEN n ELSE rest
    IN [acc EXCEPT !.sold = @ + m,
                   !.held = @ + Total([j \in 1..m |-> ts - acc.units[acc.sold + j]], m)]

AddUnits(acc, r) == IF r.action \in {"BUY", "RECEIVE"} THEN BuyUnits(acc, r.amountIn, r.ts)
                                                        ELSE SellUnits(acc, r.amountOut, r.ts)

Units(s) == LET acc[k \in 0..Len(s)] == IF k = 0 THEN NoUnits ELSE AddUnits(acc[k - 1], s[k])
            IN  acc[Len(s)]

(* The sold amount of every token is that of first in, first out for some  *)
(* order of the rows with equal timestamps, also when lots are split,      *)
(* several lots are used up or more is sold than bought.  So is its held   *)
(* time, as long as that fits into a Duration: times are multiplied with   *)
(* amounts, and 2^63 nanoseconds are a million tokens held for 2.6 hours.  *)
(* What CalculateTokenPnL returns beyond is not a time.                    *)
LotsAreFifo == \A t \in {u \in Tokens : g[u].pc \in {"append", "lock"}} : \E s \in Sorted(Group(t)) :
                   /\ g[t].res.sold = Units(s).sold
                   /\ Units(s).held <= MaxInt64 => g[t].res.held = Units(s).held

(* The sum of f, taken in the order of the tokens.                         *)
TokenAt(k) == CHOOSE t \in Tokens : Rank[t] = k
SumOver(f) == Total([k \in 1..Cardinality(Tokens) |->
                        IF TokenAt(k) \in DOMAIN f THEN f[TokenAt(k)] ELSE 0], Cardinality(Tokens))

(* The sums of AggregatedPnlHandler are those over the tokens it has       *)
(* calculated; the held time is added up in an int64.                      *)
TotalsAddUp ==
    pc = "done" /\ handler = "aggregated" =>
        /\ totals.buyValue = SumOver([t \in Calculated |-> g[t].res.buyValue])
        /\ totals.sellValue = SumOver([t \in Calculated |-> g[t].res.sellValue])
        /\ totals.realized = SumOver([t \in Calculated |-> g[t].res.realized])
        /\ totals.held = Wrap(SumOver([t \in Calculated |-> g[t].res.held]))
        /\ totals.sold = SumOver([t \in Calculated |-> g[t].res.sold])

(* The unguarded counters lose increments but never invent them, and a     *)
(* counted kind of trade is never reported as 0.                           *)
CountsBounded ==
    \A action \in {"BUY", "SELL"} :
        /\ counts[action] <= Cardinality({k \in 1..Len(rows) : rows[k].action = action})
        /\ pc = "done" /\ handler = "aggregated" =>
               \A t \in Calculated : \A k \in 1..Len(Group(t)) :
                   Group(t)[k].action = action => counts[action] > 0

(* The figures of an answer are those of the rows: lots are matched first  *)
(* in first out, sums are complete and the counters only lose.             *)
FiguresTrue == LotsAreFifo /\ TotalsAddUp /\ CountsBounded

(* A request is answered: neither sem nor mu nor wg keeps it waiting,      *)
(* whatever prices fail, unless one of its own lookups of a price stays    *)
(* without an answer.  TokenPnlHandler asks with mu locked, so then all of *)
(* its goroutines wait, and AggregatedPnlHandler waits for the one.        *)
RequestEnds == (\A t \in Tokens : []<>(g[t].pc # "fetch")) => <>(pc = "done")

-----------------------------------------------------------------------------
(* Violated.  holdingsLookup.go:14 promises the token holdings of a        *)
(* wallet: what it bought and received less what it sold and sent.  The    *)
(* query adds the amountIn of transfers and subtracts the amountOut of     *)
(* receipts, both of which are 0.                                          *)
HoldingsComplete ==
    pc = "done" /\ handler = "holdings" =>
        \E t \in todo : holdings = Tally(Group(t), 1).buyTokens - Tally(Group(t), 1).sellTokens

=============================================================================
