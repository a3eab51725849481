----------------------------- MODULE SwapHandler -----------------------------
(***************************************************************************)
(* From the transfers of a transaction to the rows of swap_log:            *)
(* HandleSwaps and processTransfer of internal/solana/swapHandler.go, the  *)
(* handlers of internal/solana/dex and InsertSwaps of the repository.      *)
(*                                                                         *)
(* A transfer is what ParseTransaction makes of one token or system        *)
(* instruction, with the program that caused it:                           *)
(*   parent  ""         no exchange                                        *)
(*           AmmPrograms  `user` and `pair` are accounts of the            *)
(*                      instruction, the legs come in either order         *)
(*           "meteora"  accounts of the instruction, the user pays first   *)
(*           "orca"     the wallet is the sender of the first leg          *)
(*           "pumpfun"  wallet, tokens and amounts come from the event     *)
(*           "ignored"  PHOENIX, LIFINITY                                  *)
(* ParseTransaction names a program only when validateDexInstruction       *)
(* accepts its accounts, so the handlers' tests on them never fail.        *)
(* Amounts are whole multiples of a step that is fine enough for decimals  *)
(* and for floats, and no transfer moves 0.  A mint is from "" and a burn  *)
(* to ""; a wallet or token that ParseTransaction did not find is "", too. *)
(* `call` numbers the exchange instructions; no code reads it.             *)
(***************************************************************************)
EXTENDS Integers, Sequences, SequencesExt, Lists

CONSTANTS Inputs,          \* the sequences of transfers of a transaction
          QuoteTokens,     \* SOL, USDT, USDC
          IgnoreTokens,    \* liquid staking tokens
          IgnoreToUsers,   \* fee and bot accounts
          FeeAccount,      \* the PumpFun fee account
          Rounded(_),      \* the float64 nearest to a number
          Written(_)       \* what big.Float.String leaves of it: ten digits

(* Neither float64 nor the ten digits take an amount to zero.              *)
ASSUME SwapAssumption ==
    /\ "" \notin QuoteTokens \union IgnoreTokens
    /\ Rounded(0) = 0
    /\ \A s \in Inputs : s \in Seq(Elements(s))
    /\ \A s \in Inputs : \A t \in Elements(s) :
           /\ t.amount \in Nat \ {0} /\ Rounded(t.amount) \in Nat \ {0}
           /\ t.type \in {"token", "mint", "burn", "native"}
           /\ t.type = "native" => t.mint \in QuoteTokens
           /\ \A n \in {t.event.paid, t.event.got} \ {0} :
                  Written(n) \in Nat \ {0} /\ Rounded(Written(n)) \in Nat \ {0}

VARIABLES transfers,   \* the transaction in hand
          at,          \* the loop of HandleSwaps
          swaps,       \* the swaps it has found
          finalSwaps,  \* the rows it returns
          queued,      \* tokens and pairs given to the finders' AddToQueue
          table,       \* the rows of swap_log for this transaction
          stage        \* "scan", "build", "insert" or "done"

swapVars == <<transfers, at, swaps, finalSwaps, queued, table, stage>>

AmmPrograms == {"raydium", "raydium_concentrated", "raydium_cpmm",
                "raydium_launchpad", "pumpfun_amm"}

-----------------------------------------------------------------------------
(* The handlers of internal/solana/dex.  They return the swap and how many *)
(* further transfers it uses.                                              *)

NoSwap == [wallet |-> "", pair |-> "", tokenOut |-> "", tokenIn |-> "",
           amountOut |-> 0, amountIn |-> 0, calls |-> {}]

Result(swap, inc) == [swap |-> swap, inc |-> inc]

(* The wallet pays `out` and gets `in`.                                    *)
SwapOf(wallet, pair, out, in) ==
    [wallet |-> wallet, pair |-> pair, tokenOut |-> out.mint, tokenIn |-> in.mint,
     amountOut |-> out.amount, amountIn |-> in.amount, calls |-> {out.call, in.call}]

(* The next transfer has the same parent program.                          *)
Paired(ts, k) == k < Len(ts) /\ ts[k].parent = ts[k + 1].parent

(* The leg that the user signed for is the one that was paid.  The five    *)
(* handlers differ in the accounts that are `user` and `pair`.             *)
AmmSwaps(ts, k) ==
    LET t == ts[k] IN
    IF ~Paired(ts, k) THEN Result(NoSwap, 0)
    ELSE Result(IF t.authority = t.user THEN SwapOf(t.user, t.pair, t, ts[k + 1])
                                        ELSE SwapOf(t.user, t.pair, ts[k + 1], t), 1)

HandleRaydiumSwaps(ts, k) == AmmSwaps(ts, k)
HandleRaydiumConcentratedSwaps(ts, k) == AmmSwaps(ts, k)
HandleRaydiumCPMMSwaps(ts, k) == AmmSwaps(ts, k)
HandleRaydiumLaunchpadSwaps(ts, k) == AmmSwaps(ts, k)
HandlePumpFunAmmSwaps(ts, k) == AmmSwaps(ts, k)

HandleMeteoraSwaps(ts, k) ==
    LET t == ts[k] IN
    IF ~Paired(ts, k) THEN Result(NoSwap, 0)
    ELSE Result(SwapOf(t.user, t.pair, t, ts[k + 1]), 1)

HandleOrcaSwaps(ts, k) ==
    LET t == ts[k] IN
    IF ~Paired(ts, k) THEN Result(NoSwap, 0)
    ELSE Result(SwapOf(t.from, t.pair, t, ts[k + 1]), 1)

(* HandlePumpFunSwapData: the trade event that follows the transfer.  An   *)
(* amount of zero, or no event, is no swap; the pair is set all the same.  *)
PumpFunSwap(t) ==
    IF t.event.paid = 0 \/ t.event.got = 0 THEN [NoSwap EXCEPT !.pair = t.pair]
    ELSE [wallet |-> t.event.user, pair |-> t.pair,
          tokenOut |-> t.event.tokenOut, tokenIn |-> t.event.tokenIn,
          amountOut |-> Written(t.event.paid), amountIn |-> Written(t.event.got),
          calls |-> {t.call}]

(* Mutant: the second leg of a trade is looked at again.                   *)
HandlePumpFunSwapsNoIncrement(ts, k) ==
    LET t == ts[k]
    IN  Result(IF t.to = FeeAccount THEN NoSwap ELSE PumpFunSwap(t), 0)

HandlePumpFunSwaps(ts, k) ==
    LET t == ts[k]
        incr == IF Paired(ts, k) THEN 1 ELSE 0
    IN  Result(IF t.to = FeeAccount THEN NoSwap ELSE PumpFunSwap(t), incr)

ProcessTransfer(ts, k) ==
    CASE ts[k].parent = "raydium"              -> HandleRaydiumSwaps(ts, k)
      [] ts[k].parent = "raydium_concentrated" -> HandleRaydiumConcentratedSwaps(ts, k)
      [] ts[k].parent = "raydium_cpmm"         -> HandleRaydiumCPMMSwaps(ts, k)
      [] ts[k].parent = "raydium_launchpad"    -> HandleRaydiumLaunchpadSwaps(ts, k)
      [] ts[k].parent = "pumpfun_amm"          -> HandlePumpFunAmmSwaps(ts, k)
      [] ts[k].parent = "meteora"              -> HandleMeteoraSwaps(ts, k)
      [] ts[k].parent = "orca"                 -> HandleOrcaSwaps(ts, k)
      [] ts[k].parent = "pumpfun"              -> HandlePumpFunSwaps(ts, k)
      [] OTHER                                 -> Result(NoSwap, 0)

SupportedDex(t) == t.parent \in AmmPrograms \union {"meteora", "orca", "pumpfun"}

-----------------------------------------------------------------------------
(* HandleSwaps, first loop: one disjunct per way through its body.         *)

(* A transaction without one of the known programs is left alone; all but  *)
(* native transfers are of the token program, which is one of them.        *)
ValidateTX(ts) == \E t \in Elements(ts) : t.type # "native" \/ SupportedDex(t)

IsSwap(t, swap) == swap.wallet # "" /\ swap.pair # "" /\ SupportedDex(t)

IsTransfer(t) == t.type # "native" /\ (SupportedDex(t) \/ t.parent = "")

(* A plain transfer becomes a receipt and a payment.                       *)
Receipt(t) == [NoSwap EXCEPT !.wallet = t.to, !.tokenIn = t.mint, !.amountIn = t.amount]
Payment(t) == [NoSwap EXCEPT !.wallet = t.from, !.tokenOut = t.mint, !.amountOut = t.amount]

SwapInit == /\ transfers \in Inputs
            /\ at = 1
            /\ swaps = <<>>
            /\ finalSwaps = <<>>
            /\ queued = {}
            /\ table = <<>>
            /\ stage = "scan"

Advance(inc, found) == /\ at' = at + 1 + inc
                       /\ swaps' = swaps \o found
                       /\ UNCHANGED <<transfers, finalSwaps, queued, table, stage>>

Scanning == stage = "scan" /\ ValidateTX(transfers) /\ at <= Len(transfers)

SkipIgnored == /\ Scanning
               /\ transfers[at].parent = "ignored"
               /\ Advance(0, <<>>)

(* continue: the second leg is not skipped here.                           *)
SkipSameToken == LET swap == ProcessTransfer(transfers, at).swap IN
                 /\ Scanning
                 /\ IsSwap(transfers[at], swap)
                 /\ swap.tokenIn = swap.tokenOut
                 /\ Advance(0, <<>>)

RecordSwap == LET r == ProcessTransfer(transfers, at) IN
              /\ Scanning
              /\ IsSwap(transfers[at], r.swap)
              /\ r.swap.tokenIn # r.swap.tokenOut
              /\ Advance(r.inc, <<r.swap>>)

RecordTransfer == LET t == transfers[at] IN
                  /\ Scanning
                  /\ ~IsSwap(t, ProcessTransfer(transfers, at).swap)
                  /\ IsTransfer(t)
                  /\ IF t.mint \in QuoteTokens
                       THEN Advance(0, <<>>)
                       ELSE Advance(ProcessTransfer(transfers, at).inc, <<Receipt(t), Payment(t)>>)

SkipOther == LET t == transfers[at] IN
             /\ Scanning
             /\ t.parent # "ignored"
             /\ ~IsSwap(t, ProcessTransfer(transfers, at).swap)
             /\ ~IsTransfer(t)
             /\ Advance(ProcessTransfer(transfers, at).inc, <<>>)

ScanEnds == /\ stage = "scan"
            /\ ~Scanning
            /\ stage' = "build"
            /\ UNCHANGED <<transfers, at, swaps, finalSwaps, queued, table>>

-----------------------------------------------------------------------------
(* HandleSwaps, second and third loop, from here on in float64.            *)

Usable(s) == /\ s.wallet # ""
             /\ s.tokenIn # "" \/ s.tokenOut # ""
             /\ s.tokenIn \notin IgnoreTokens
             /\ s.tokenOut \notin IgnoreTokens

ActionOf(s) == CASE s.tokenOut \in QuoteTokens -> "BUY"
                 [] s.tokenIn \in QuoteTokens  -> "SELL"
                 [] Rounded(s.amountIn) = 0    -> "TRANSFER"
                 [] Rounded(s.amountOut) = 0   -> "RECEIVE"
                 [] OTHER                      -> "UNKNOWN"

TokenOf(s) == CASE ActionOf(s) \in {"BUY", "RECEIVE"}   -> s.tokenIn
                [] ActionOf(s) \in {"SELL", "TRANSFER"} -> s.tokenOut
                [] OTHER                                -> ""

RowOf(s) == [wallet |-> s.wallet, action |-> ActionOf(s), token |-> TokenOf(s),
             pair |-> s.pair, amountOut |-> Rounded(s.amountOut),
             amountIn |-> Rounded(s.amountIn)]

Built(ss) == LET usable == Keep(ss, {s \in Elements(ss) : Usable(s)})
             IN  [k \in 1..Len(usable) |-> RowOf(usable[k])]

(* Mutant: the sheet keeps the last amount only.                           *)
BalanceOverwritten(rs, wallet, token) ==
    FoldLeft(LAMBDA sum, r : IF r.wallet = wallet /\ r.token = token
                             THEN Rounded(r.amountIn - r.amountOut) ELSE sum, 0, rs)

(* Mutant: one sheet for all tokens of a wallet.                           *)
BalanceOfWallet(rs, wallet, token) ==
    FoldLeft(LAMBDA sum, r : IF r.wallet = wallet
                             THEN Rounded(sum + Rounded(r.amountIn - r.amountOut)) ELSE sum, 0, rs)

(* balanceSheet[wallet][token]: each difference and each sum is rounded.   *)
Balance(rs, wallet, token) ==
    LET sum[k \in 0..Len(rs)] ==
            IF k = 0 THEN 0
            ELSE IF rs[k].wallet = wallet /\ rs[k].token = token
                   THEN Rounded(sum[k - 1] + Rounded(rs[k].amountIn - rs[k].amountOut))
                   ELSE sum[k - 1]
    IN  sum[Len(rs)]

Final(rs) ==
    Keep(rs, {r \in Elements(rs) : /\ Balance(rs, r.wallet, r.token) # 0
                                   /\ r.wallet \notin IgnoreToUsers})

Build == /\ stage = "build"
         /\ finalSwaps' = Final(Built(swaps))
         /\ queued' = queued \union {r.token : r \in Elements(Built(swaps))}
                             \union ({r.pair : r \in Elements(Built(swaps))} \ {""})
         /\ stage' = "insert"
         /\ UNCHANGED <<transfers, at, swaps, table>>

-----------------------------------------------------------------------------
(* InsertSwaps: the conflict key of swap_log besides id, timestamp and     *)
(* blockNumber, which are those of the transaction.                        *)
Key(r) == <<r.pair, r.action, r.amountOut, r.amountIn>>

(* Mutant: a row of the same wallet and token is in conflict.              *)
InsertSwapsByWallet ==
    /\ stage = "insert"
    /\ table' = FoldLeft(LAMBDA t, r : IF \E q \in Elements(t) : q.wallet = r.wallet /\ q.token = r.token
                                       THEN t ELSE Append(t, r), table, finalSwaps)
    /\ stage' = "done"
    /\ UNCHANGED <<transfers, at, swaps, finalSwaps, queued>>

(* Mutant: no ON CONFLICT.                                                 *)
InsertOrConflictPlain(t, r) == Append(t, r)

InsertOrConflict(t, r) == IF \E q \in Elements(t) : Key(q) = Key(r)
                          THEN t ELSE Append(t, r)

(* The statement over all rows, one after the other.                       *)
Inserted(t, rs) == LET ins[k \in 0..Len(rs)] ==
                           IF k = 0 THEN t ELSE InsertOrConflict(ins[k - 1], rs[k])
                   IN  ins[Len(rs)]

InsertSwaps == /\ stage = "insert"
               /\ table' = Inserted(table, finalSwaps)
               /\ stage' = "done"
               /\ UNCHANGED <<transfers, at, swaps, finalSwaps, queued>>

(* The message is delivered again, to this or another process.             *)
Redeliver == /\ stage = "done"
             /\ stage' = "scan"
             /\ at' = 1
             /\ swaps' = <<>>
             /\ finalSwaps' = <<>>
             /\ UNCHANGED <<transfers, queued, table>>

-----------------------------------------------------------------------------
SwapNext == \/ SkipIgnored \/ SkipSameToken \/ RecordSwap \/ RecordTransfer
            \/ SkipOther \/ ScanEnds \/ Build \/ InsertSwaps \/ Redeliver

SwapSpec == SwapInit /\ [][SwapNext]_swapVars

-----------------------------------------------------------------------------
(* Properties.                                                             *)

(* The legs of the call numbered c.                                        *)
LegsOf(c) == {t \in Elements(transfers) : t.call = c}

IsPaid(t) == t.from = t.user /\ t.to = t.pair
IsGot(t)  == t.from = t.pair /\ t.to = t.user

(* The exchange instructions; a PumpFun trade of nothing is none.          *)
TradeCalls == {t.call : t \in {u \in Elements(transfers) :
                                  SupportedDex(u) /\ (u.parent = "pumpfun" => PumpFunSwap(u).wallet # "")}}

(* What the instruction itself says: the user paid the pool one leg and    *)
(* got the other.  Of a PumpFun trade, the event says it.                  *)
TradeOf(c) ==
    LET paid == CHOOSE t \in LegsOf(c) : IsPaid(t)
        got  == CHOOSE t \in LegsOf(c) : IsGot(t)
        any  == CHOOSE t \in LegsOf(c) : TRUE
    IN  IF any.parent = "pumpfun" THEN PumpFunSwap(any) ELSE SwapOf(paid.user, paid.pair, paid, got)

(* Transfer k is of call c, and those from j on are all of its program.    *)
RunsInto(j, k, c) == /\ transfers[k].call = c
                     /\ \A i \in j..k : transfers[i].parent = transfers[k].parent

(* The call has a leg behind its two: a fee that is taken last.            *)
FeeBehind(c) ==
    \E j, k \in 1..Len(transfers) :
        /\ j < k /\ transfers[j].call = c /\ transfers[k].call = c /\ transfers[k].parent # "pumpfun"
        /\ IsPaid(transfers[j]) \/ IsGot(transfers[j])
        /\ ~IsPaid(transfers[k]) /\ ~IsGot(transfers[k])

(* One of the calls right before c, of the same program, had such a leg.   *)
Shifted(c) ==
    \E j, k \in 1..Len(transfers) : /\ j < k /\ RunsInto(j, k, c)
                                    /\ transfers[j].call # c /\ FeeBehind(transfers[j].call)

(* A PumpFun sale, of one transfer, right behind another PumpFun trade.    *)
Swallowed(c) ==
    /\ Cardinality(LegsOf(c)) = 1
    /\ \E k \in 2..Len(transfers) : /\ RunsInto(k - 1, k, c)
                                     /\ transfers[k].parent = "pumpfun"
                                     /\ transfers[k - 1].call # c

(* The rows of a wallet and token that HandleSwaps leaves out in the end.  *)
LeftOut(r) == \/ r.wallet \in IgnoreToUsers
              \/ Balance(Built(swaps), r.wallet, r.token) = 0

OnlyMoved(token) == \A r \in Elements(Built(swaps)) :
                        r.token = token => r.action \in {"RECEIVE", "TRANSFER"}

Moved(rs, token) ==
    Total([k \in 1..Len(rs) |-> IF rs[k].token = token
                                THEN rs[k].amountIn - rs[k].amountOut ELSE 0], Len(rs))

MintsMoved == {t.mint : t \in Elements(transfers)}

(* What the rows add to the sheet, one after the other.                    *)
Differences(rs, wallet, token) ==
    [k \in 1..Len(rs) |-> IF rs[k].wallet = wallet /\ rs[k].token = token
                          THEN rs[k].amountIn - rs[k].amountOut ELSE 0]

(* float64 has the token's amounts, and no sum of them is rounded.  0.3,   *)
(* less 0.1, less 0.2 is not such a token: its sheet is not quite zero.    *)
NothingRounded(token) ==
    /\ \A t \in Elements(transfers) : t.mint = token => Rounded(t.amount) = t.amount
    /\ \A wallet \in {r.wallet : r \in Elements(Built(swaps))} :
          LET d == Differences(Built(swaps), wallet, token)
          IN  \A k \in 1..Len(Built(swaps)) : /\ Rounded(d[k]) = d[k]
                                              /\ Rounded(Total(d, k)) = Total(d, k)

(* Where nothing is rounded, a token that was only moved between known     *)
(* wallets is conserved by the rows HandleSwaps returns: dropping the      *)
(* wallets it only passed through takes nothing from the others.           *)
MovesConserve ==
    stage = "insert" =>
        \A token \in MintsMoved :
            /\ NothingRounded(token)
            /\ OnlyMoved(token)
            /\ \A t \in Elements(transfers) : t.mint = token => t.from # "" /\ t.to # ""
            /\ \A r \in Elements(Built(swaps)) : r.wallet \notin IgnoreToUsers
            => Moved(finalSwaps, token) = 0

(* What a transfer brings to a wallet, and what all of them do.            *)
Brings(t, wallet, token) ==
    IF t.mint = token THEN (IF t.to = wallet THEN t.amount ELSE 0)
                             - (IF t.from = wallet THEN t.amount ELSE 0)
    ELSE 0

NetOf(wallet, token) ==
    Total([k \in 1..Len(transfers) |-> Brings(transfers[k], wallet, token)], Len(transfers))

(* The token moves, and no exchange moves or names it.                     *)
MovedOutside(token) ==
    \A t \in Elements(transfers) :
        /\ t.mint = token => t.parent = ""
        /\ t.parent = "pumpfun" => token \notin {t.event.tokenOut, t.event.tokenIn}

(* The wallets that HandleSwaps returns rows of the token for.             *)
WalletsOf(token) == {r.wallet : r \in {q \in Elements(finalSwaps) : q.token = token}}

(* The tokens that HandleSwaps records movements of.                       *)
Recorded == MintsMoved \ (QuoteTokens \union IgnoreTokens \union {""})

(* Read off the transfers: where a token moves outside exchanges and       *)
(* nothing is rounded, the wallets with rows of it are exactly those that  *)
(* end with more or less of it, so the intermediate accounts of a chain of *)
(* transfers have none.                                                    *)
RowsAreNetMovers ==
    stage = "insert" =>
        \A token \in Recorded :
            MovedOutside(token) /\ NothingRounded(token) =>
                WalletsOf(token)
                  = {w \in {t.from : t \in Elements(transfers)}
                            \union {t.to : t \in Elements(transfers)} :
                        NetOf(w, token) # 0} \ (IgnoreToUsers \union {""})

(* A second delivery of the message leaves swap_log as it is: InsertSwaps  *)
(* finds every row of it in conflict.                                      *)
InsertIdempotent == [][table # <<>> => table' = table]_table

(* The key of swap_log leaves out wallet and token.  A row of HandleSwaps  *)
(* is missing from the table only if another row of the transaction, with  *)
(* the same action, pair and amounts and of another wallet or token, is    *)
(* there in its place, or its very copy.                                   *)
RowsLostToTwins ==
    stage = "done" =>
        \A r \in Elements(finalSwaps) :
            r \in Elements(table) \/ \E q \in Elements(finalSwaps) \intersect Elements(table) :
                                        /\ q.action = r.action
                                        /\ q.pair = r.pair
                                        /\ q.amountIn = r.amountIn
                                        /\ q.amountOut = r.amountOut
                                        /\ q.wallet # r.wallet \/ q.token # r.token

(* processTransfer pairs transfers by program and by position.  Still, of  *)
(* the trades of a transaction, each is a row, with its user, its pool and *)
(* its two legs, and is one only once, but for these:                      *)
(*   - trades in a liquid staking token, of an ignored wallet, and those   *)
(*     of a wallet whose sheet of the token is 0: 1 SOL paid for 1 A;      *)
(*   - PumpFun sales that the trade before them swallows;                  *)
(*   - trades that follow a trade of the same program with a fee behind    *)
(*     its legs: from there on, legs of two trades may be paired, and a    *)
(*     row that no trade stands for is of the pool of one of them.         *)
TradesRecorded ==
    stage = "insert" =>
        LET trades == {c \in TradeCalls : Usable(TradeOf(c))}
            rows == {RowOf(TradeOf(c)) : c \in trades}
                      \union {q \in Elements(finalSwaps) : q.action \in {"BUY", "SELL", "UNKNOWN"}}
        IN  \A r \in rows :
                LET times == Cardinality({k \in 1..Len(finalSwaps) : finalSwaps[k] = r})
                    same  == {c \in trades : RowOf(TradeOf(c)) = r}
                IN  \/ LeftOut(r) /\ times = 0
                    \/ /\ ~LeftOut(r)
                       /\ times >= Cardinality({c \in same : ~Shifted(c) /\ ~Swallowed(c)})
                       /\ \/ times <= Cardinality(same)
                          \/ \E c \in TradeCalls : /\ FeeBehind(c) \/ Shifted(c)
                                                   /\ TradeOf(c).pair = r.pair

(* What moves outside of trades is recorded for whom it reached and whom   *)
(* it left, and for nobody in between, as long as nothing is rounded.      *)
MovementsRecorded == MovesConserve /\ RowsAreNetMovers

(* Whatever is rounded: a wallet that only gets a token or only pays it    *)
(* has rows, and one that passes on the very amount it got has none.       *)
RoundingHarmless ==
    stage = "insert" =>
        \A token \in {m \in Recorded : MovedOutside(m)} :
            \A w \in UNION {{t.from, t.to} : t \in Elements(transfers)} \ (IgnoreToUsers \union {""}) :
                LET moves == {k \in 1..Len(transfers) : transfers[k].mint = token}
                    ins   == {k \in moves : transfers[k].to = w}
                    outs  == {k \in moves : transfers[k].from = w}
                IN  /\ (ins = {}) # (outs = {}) => w \in WalletsOf(token)
                    /\ \A i \in ins, o \in outs :
                          ins = {i} /\ outs = {o} /\ transfers[i].amount = transfers[o].amount
                              => w \notin WalletsOf(token)
=============================================================================
