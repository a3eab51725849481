---------------------------- MODULE PriceTracker ----------------------------
(***************************************************************************)
(* internal/trackers: the cache of dollar prices in the API process.       *)
(* Handlers call GetUSDPrice, which reads the cache under pt.mx and, on a  *)
(* miss, asks the price source and stores the answer under pt.mx.  Run     *)
(* refreshes every cached symbol once a minute, without pt.mx.             *)
(*                                                                         *)
(* A price is the number of times it has changed: larger is newer.  An     *)
(* access to the map that takes time is two steps; Go may notice that two  *)
(* of them overlap and ends the process, or not.                           *)
(***************************************************************************)
EXTENDS Integers, FiniteSets

CONSTANTS Symbols,    \* what handlers ask for
          ValidSymbols,
          Callers,    \* handlers in GetUSDPrice
          NoSymbol,
          MaxPrice,   \* bound: changes of a price
          MaxDeaths   \* bound: deaths of the process

ASSUME PriceAssumption == /\ ValidSymbols \subseteq Symbols /\ IsFiniteSet(Symbols)
                          /\ NoSymbol \notin Symbols
                          /\ MaxPrice \in Nat /\ MaxDeaths \in Nat

None == -1   \* not in the map

VARIABLES market,   \* what the source would answer
          broken,   \* symbols whose lookups fail: no answer, no number, wrong base
          cache,    \* pt.priceTrackCache
          caller,   \* GetUSDPrice, by caller
          run,      \* Run
          ctx,      \* "live" or "done"
          deaths

priceVars == <<market, broken, cache, caller, run, ctx, deaths>>

Resting == [pc |-> "idle", symbol |-> NoSymbol, amount |-> None]

(* since and clean are history: the prices at the beginning of the round,  *)
(* and the symbols that were in the map then, with no first lookup still   *)
(* on its way, and have not failed since.                                  *)
Sleeping == [pc |-> "wait", todo |-> {}, symbol |-> NoSymbol, amount |-> None,
             since |-> [s \in Symbols |-> None], clean |-> {}]

PriceRange == 0..MaxPrice

CacheType == /\ market \in [Symbols -> PriceRange]
             /\ broken \subseteq Symbols
             /\ cache \in [Symbols -> PriceRange \union {None}]
             /\ \A s \in Symbols \ ValidSymbols : cache[s] = None
             /\ caller \in [Callers -> [pc : {"idle", "reading", "ask", "lock", "writing"},
                                        symbol : Symbols \union {NoSymbol},
                                        amount : PriceRange \union {None}]]
             /\ run.pc \in {"wait", "range", "ask", "store", "writing", "ended"}
             /\ run.todo \subseteq Symbols /\ run.clean \subseteq Symbols
             /\ run.symbol \in Symbols \union {NoSymbol}
             /\ run.amount \in PriceRange \union {None}
             /\ ctx \in {"live", "done"}
             /\ deaths \in 0..MaxDeaths

PriceInit == /\ market = [s \in Symbols |-> 0]
             /\ broken = {}
             /\ cache = [s \in Symbols |-> None]
             /\ caller = [c \in Callers |-> Resting]
             /\ run = Sleeping
             /\ ctx = "live"
             /\ deaths = 0

Cached == {s \in Symbols : cache[s] # None}

-----------------------------------------------------------------------------
(* The price source and the process (external).                            *)

PriceMoves == /\ \E s \in ValidSymbols : /\ market[s] < MaxPrice
                                         /\ market' = [market EXCEPT ![s] = @ + 1]
              /\ UNCHANGED <<broken, cache, caller, run, ctx, deaths>>

Break == /\ \E s \in ValidSymbols \ broken :
               /\ broken' = broken \union {s}
               /\ run' = [run EXCEPT !.clean = @ \ {s}]
         /\ UNCHANGED <<market, cache, caller, ctx, deaths>>

Repair == /\ \E s \in broken : broken' = broken \ {s}
          /\ UNCHANGED <<market, cache, caller, run, ctx, deaths>>

Cancel == /\ ctx = "live"
          /\ ctx' = "done"
          /\ UNCHANGED <<market, broken, cache, caller, run, deaths>>

Writing == {c \in Callers : caller[c].pc = "writing"}
Reading == {c \in Callers : caller[c].pc = "reading"}

(* Two accesses overlap, one of them a write: concurrent map read and map  *)
(* write, concurrent map writes, concurrent map iteration and map write.   *)
Overlap == \/ run.pc = "writing" /\ Writing \union Reading # {}
           \/ run.pc = "range" /\ Writing # {}

(* fatal error: the process ends and is started again, with an empty map.  *)
Fatal == /\ Overlap
         /\ deaths < MaxDeaths
         /\ deaths' = deaths + 1
         /\ cache' = [s \in Symbols |-> None]
         /\ caller' = [c \in Callers |-> Resting]
         /\ run' = Sleeping
         /\ ctx' = "live"
         /\ UNCHANGED <<market, broken>>

(* lookupPrice has an answer for s, or an error.                           *)
Found(s) == s \in ValidSymbols \ broken

-----------------------------------------------------------------------------
(* GetUSDPrice.                                                            *)

CallerAt(c, where) == caller' = [caller EXCEPT ![c].pc = where]

(* The call, and RLock: nothing happens in between.                        *)
GetUSDPrice(c) ==
    /\ caller[c].pc = "idle"
    /\ Writing = {}
    /\ \E s \in Symbols :
          caller' = [caller EXCEPT ![c] = [Resting EXCEPT !.pc = "reading", !.symbol = s]]
    /\ UNCHANGED <<market, broken, cache, run, ctx, deaths>>

RUnlock(c) == /\ caller[c].pc = "reading"
              /\ IF caller[c].symbol \in Cached THEN caller' = [caller EXCEPT ![c] = Resting]
                                                ELSE CallerAt(c, "ask")
              /\ UNCHANGED <<market, broken, cache, run, ctx, deaths>>

(* An error is logged, and the price is 0.                                 *)
Answer(c) == /\ caller[c].pc = "ask"
             /\ LET s == caller[c].symbol
                IN caller' = [caller EXCEPT ![c] =
                                 IF Found(s) THEN [@ EXCEPT !.pc = "lock", !.amount = market[s]]
                                             ELSE Resting]
             /\ UNCHANGED <<market, broken, cache, run, ctx, deaths>>

LockCache(c) == /\ caller[c].pc = "lock"
                /\ Writing \union Reading = {}
                /\ CallerAt(c, "writing")
                /\ UNCHANGED <<market, broken, cache, run, ctx, deaths>>

(* A symbol that enters the map while Run ranges over it may be visited.   *)
UnlockCache(c) == /\ caller[c].pc = "writing"
                  /\ LET s == caller[c].symbol
                     IN /\ cache' = [cache EXCEPT ![s] = caller[c].amount]
                        /\ run' \in {run} \union
                              (IF run.pc \in {"wait", "ended"} \/ s \in Cached THEN {}
                               ELSE {[run EXCEPT !.todo = @ \union {s}]})
                  /\ caller' = [caller EXCEPT ![c] = Resting]
                  /\ UNCHANGED <<market, broken, ctx, deaths>>

-----------------------------------------------------------------------------
(* Run.                                                                    *)

InFlight == {caller[c].symbol : c \in {d \in Callers : caller[d].pc # "idle"}}

Tick == /\ run.pc = "wait"
        /\ run' = [Sleeping EXCEPT !.pc = "range", !.todo = Cached,
                                   !.since = market, !.clean = Cached \ (InFlight \union broken)]
        /\ UNCHANGED <<market, broken, cache, caller, ctx, deaths>>

(* ctx is looked at between rounds only.                                   *)
RunReturns == /\ run.pc = "wait"
              /\ ctx = "done"
              /\ run' = [Sleeping EXCEPT !.pc = "ended"]
              /\ UNCHANGED <<market, broken, cache, caller, ctx, deaths>>

RunNext == /\ run.pc = "range"
           /\ \E s \in run.todo :
                 run' = [run EXCEPT !.pc = "ask", !.symbol = s, !.todo = @ \ {s}]
           /\ UNCHANGED <<market, broken, cache, caller, ctx, deaths>>

(* Mutant: break instead of continue.                                      *)
RunAnswerBreaks ==
    /\ run.pc = "ask"
    /\ run' = IF Found(run.symbol)
              THEN [run EXCEPT !.pc = "store", !.amount = market[run.symbol]]
              ELSE [run EXCEPT !.pc = "range", !.symbol = NoSymbol, !.todo = {}]
    /\ UNCHANGED <<market, broken, cache, caller, ctx, deaths>>

RunAnswer == /\ run.pc = "ask"
             /\ run' = IF Found(run.symbol)
                       THEN [run EXCEPT !.pc = "store", !.amount = market[run.symbol]]
                       ELSE [run EXCEPT !.pc = "range", !.symbol = NoSymbol]
             /\ UNCHANGED <<market, broken, cache, caller, ctx, deaths>>

RunStore == /\ run.pc = "store"
            /\ run' = [run EXCEPT !.pc = "writing"]
            /\ UNCHANGED <<market, broken, cache, caller, ctx, deaths>>

RunStored == /\ run.pc = "writing"
             /\ cache' = [cache EXCEPT ![run.symbol] = run.amount]
             /\ run' = [run EXCEPT !.pc = "range", !.symbol = NoSymbol, !.amount = None]
             /\ UNCHANGED <<market, broken, caller, ctx, deaths>>

(* Mutant: the loop around the select is missing.                          *)
RoundEndsRun == /\ run.pc = "range"
                /\ run.todo = {}
                /\ run' = [Sleeping EXCEPT !.pc = "ended"]
                /\ UNCHANGED <<market, broken, cache, caller, ctx, deaths>>

RoundEnds == /\ run.pc = "range"
             /\ run.todo = {}
             /\ run' = Sleeping
             /\ UNCHANGED <<market, broken, cache, caller, ctx, deaths>>

-----------------------------------------------------------------------------
Call(c)  == RUnlock(c) \/ Answer(c) \/ LockCache(c) \/ UnlockCache(c)
Refresh  == Tick \/ RunReturns \/ RunNext \/ RunAnswer \/ RunStore \/ RunStored \/ RoundEnds

PriceNext == \/ PriceMoves \/ Break \/ Repair \/ Cancel \/ Fatal
             \/ \E c \in Callers : GetUSDPrice(c) \/ Call(c)
             \/ Refresh

PriceSpec == PriceInit /\ [][PriceNext]_priceVars

(* lookupPrice refuses an unknown symbol without a request.                *)
Refuse(c) == caller[c].symbol \notin ValidSymbols /\ Answer(c)

(* The ticker ticks and goroutines are scheduled.  Nothing is assumed of   *)
(* the source: http.Get on the default client has no timeout, so that an   *)
(* Answer or a RunAnswer that needs a request may never come.              *)
Fairness ==
    /\ WF_priceVars(Tick \/ RunReturns \/ RunNext \/ RunStore \/ RunStored \/ RoundEnds)
    /\ \A c \in Callers : WF_priceVars(RUnlock(c) \/ Refuse(c) \/ LockCache(c) \/ UnlockCache(c))

FairPriceSpec == PriceSpec /\ Fairness

-----------------------------------------------------------------------------
(* Properties.                                                             *)

(* pt.mx keeps handlers apart: the accesses that overlap, and with which   *)
(* Go may end the process, always have Run as one of the two.              *)
CallersExclude == \A c \in Writing : \A d \in Callers \ {c} : caller[d].pc \notin {"reading", "writing"}

(* A round of Run leaves no price older than its own beginning, whatever   *)
(* handlers do meanwhile and whichever other symbols fail.  The exceptions *)
(* are symbols that failed in the round and those whose first lookup, from *)
(* before they were in the map, may come late and store an older price.    *)
RoundRefreshes ==
    run.pc \in {"range", "ask", "store", "writing"} =>
        \A s \in run.clean \ (run.todo \union {run.symbol}) : cache[s] >= run.since[s]

(* The cache of GetUSDPrice and Run, through every overlap of the two.     *)
CacheSound == CacheType /\ CallersExclude /\ RoundRefreshes

(* A symbol in the map whose lookups work again has the current price in   *)
(* the end, once the price rests, as long as the API is not shut down and  *)
(* no request of Run itself stays without an answer.  Run asks for one     *)
(* symbol after the other without a timeout, so one such request keeps it  *)
(* from refreshing all of them; a handler that waits for ever in           *)
(* GetUSDPrice does not.                                                   *)
EventuallyCurrent ==
    [](ctx = "live") /\ []<>(run.pc # "ask") =>
        \A s \in ValidSymbols :
            <>[](s \notin broken /\ cache[s] # None) => <>[](cache[s] = market[s])

=============================================================================
