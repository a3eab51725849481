--------------------------- MODULE MCTransactions ---------------------------
(***************************************************************************)
(* Transactions of one user with one pool: ua and uq are the user's        *)
(* accounts of the mints X and WSOL, pa and pq the pool's.                 *)
(***************************************************************************)
EXTENDS Transactions

Static == <<"user", "other", "ua", "uq", "pa", "pq", "X", WSOL, "N1", "N2", TOKEN_PROGRAM,
            SYSTEM_PROGRAM, ASSOCIATED_TOKEN_PROGRAM, METAPLEX_TOKEN_METDATA,
            JUPITER_V6_AGGREGATOR>>
Loaded == <<"pool", RAYDIUM_CPMM, PUMPFUN>>

Index(name) == (CHOOSE k \in 1..Len(Static \o Loaded) : (Static \o Loaded)[k] = name) - 1

MCOwner      == [ua |-> "user", uq |-> "user", pa |-> "pool", pq |-> "pool"]
MCPayer      == [ua |-> "other", uq |-> "other", pa |-> "pool", pq |-> "pool"]
MCMintOf     == [ua |-> "X", uq |-> WSOL, pa |-> "X", pq |-> WSOL]
MCDecimalsOf == [X |-> 6, WSOL |-> 9]

Bytes(len, tag, amount) ==
    [len |-> len, tag |-> tag, amount |-> amount, decimals |-> 6, owner |-> "user", name |-> ""]

MCPayload ==
    [d \in {"", "transfer", "checked", "nothing", "mint", "mint checked", "burn", "burn checked", "open",
            "open3", "close", "create", "lamports", "init mint", "swap", "short",
            "name 1", "name 2", "garbled", "e1", "e2", "e3", "e4"} |->
       CASE d = ""             -> Bytes(0, 0, 0)
         [] d = "transfer"     -> Bytes(9, 3, 5)
         [] d = "checked"      -> Bytes(10, 12, 5)
         [] d = "nothing"      -> Bytes(9, 3, 0)
         [] d = "mint"         -> Bytes(9, 7, 5)
         [] d = "mint checked" -> Bytes(10, 14, 5)
         [] d = "burn"         -> Bytes(9, 8, 5)
         [] d = "burn checked" -> Bytes(10, 15, 5)
         [] d = "open"         -> Bytes(1, 1, 0)
         [] d = "open3"        -> Bytes(33, 18, 0)
         [] d = "close"        -> Bytes(1, 9, 0)
         [] d = "create"       -> Bytes(52, 0, 2)
         [] d = "lamports"     -> Bytes(12, 2, 3)
         [] d = "init mint"    -> Bytes(67, 20, 0)
         [] d = "short"        -> Bytes(4, 3, 0)
         [] d = "name 1"       -> [Bytes(99, 33, 0) EXCEPT !.name = "one"]
         [] d = "name 2"       -> [Bytes(99, 33, 0) EXCEPT !.name = "two"]
         [] OTHER              -> Bytes(24, 200, 0)]

Ix(program, accounts, data, depth, what) ==
    [program |-> Index(program), data |-> data, depth |-> depth, what |-> what,
     accounts |-> [k \in 1..Len(accounts) |-> Index(accounts[k])]]

Token(accounts, data, depth) == Ix(TOKEN_PROGRAM, accounts, data, depth, "move")
Lamports(depth) == Ix(SYSTEM_PROGRAM, <<"user", "pool">>, "lamports", depth, "move")
SwapX(depth) == Token(<<"ua", "pa", "user">>, "transfer", depth)
SwapQ(depth) == Token(<<"pq", WSOL, "uq", "pool">>, "checked", depth)

Padded(n, last) == [k \in 1..n |-> IF k = n THEN last ELSE "pool"]
Cpmm(depth)  == Ix(RAYDIUM_CPMM, Padded(13, "pool"), "swap", depth, "swap")
Pump(depth)  == Ix(PUMPFUN, Padded(12, PUMPFUN), "swap", depth, "swap")
Event(d, depth) == Ix(PUMPFUN, <<"pool">>, d, depth, "event")
Jupiter      == Ix(JUPITER_V6_AGGREGATOR, <<"user">>, "swap", 1, "route")

-----------------------------------------------------------------------------
(* A log message; one of PumpFun's mentions the word invoke. *)
Line(says, program, by, launch) == [says |-> says, program |-> program, by |-> by, launch |-> launch]

MCLogLine ==
    [l \in {"J invoke", "J log", "P invoke", "P log", "P data", "P launch", "P says invoke",
            "C invoke", "C launch", "success", "failed"} |->
       CASE l = "J invoke" -> Line("invoke", JUPITER_V6_AGGREGATOR, "", "")
         [] l = "J log"    -> Line("log", "", JUPITER_V6_AGGREGATOR, "")
         [] l = "P invoke" -> Line("invoke", PUMPFUN, "", "")
         [] l = "P log"    -> Line("log", "", PUMPFUN, "")
         [] l = "P data"   -> Line("data", "", PUMPFUN, "")
         [] l = "P launch" -> Line("data", "", PUMPFUN, "N1")
         [] l = "P says invoke" -> Line("invoke", "log:", PUMPFUN, "")
         [] l = "C invoke" -> Line("invoke", RAYDIUM_CPMM, "", "")
         [] l = "C launch" -> Line("data", "", RAYDIUM_CPMM, "N2")
         [] l = "success"  -> Line("success", "", "", "")
         [] l = "failed"   -> Line("nothing", "", "", "")]

Plainest == {<<"J invoke", "success">>}

(* Calls of PumpFun and of a copy of it, alone or in a route, in any order *)
(* of messages; cut off anywhere.                                          *)
PumpCalls == {<<"P invoke">> \o m \o <<"success">> :
                m \in {<<"P log">>, <<"P launch">>, <<"P says invoke", "P data">>,
                       <<"P log", "C invoke", "C launch", "success", "P launch">>,
                       <<"P invoke", "P data", "success", "P launch">>}}
CopyCalls == {<<"C invoke", "C launch", "success">>}
Routes    == {<<"J invoke", "J log">> \o a \o b \o <<"J log", "success">> :
                a \in PumpCalls \cup CopyCalls, b \in PumpCalls \cup CopyCalls \cup {<<>>}}
WholeLogs == {a \o b : a \in Routes \cup PumpCalls, b \in PumpCalls \cup {<<>>}}
CutLogs   == UNION {{SubSeq(l, 1, k) \o end : k \in 1..Len(l), end \in {<<>>, <<"failed">>}} :
                    l \in Routes}

-----------------------------------------------------------------------------
Balance(account) == [account |-> Index(account), mint |-> MCMintOf[account],
                     owner |-> MCOwner[account], empty |-> account = "uq"]

All == <<"ua", "uq", "pa", "pq">>
Balances(accounts) ==
    LET s == SelectSeq(All, LAMBDA a : a \in accounts)
    IN  [k \in 1..Len(s) |-> Balance(s[k])]

Transaction(outer, inner) ==
    [keys |-> Static, writable |-> SubSeq(Loaded, 1, 1), readonly |-> SubSeq(Loaded, 2, 3),
     lookups |-> <<[table |-> "table", writable |-> <<1>>, readonly |-> <<2, 3>>]>>,
     outer |-> outer, inner |-> inner, post |-> Balances(ToSet(All)), pre |-> Balances(ToSet(All)),
     logs |-> Plainest, err |-> "none"]

Group(index, ixs) == [index |-> index, instructions |-> ixs]

(* Up to three trades in a row, called by a router or inside an exchange.  *)
Trades(d) ==
    {<<Cpmm(d), SwapX(d + 1), SwapQ(d + 1)>>,
     <<Pump(d), SwapX(d + 1), Lamports(d + 1), Event("e1", d + 1)>>,
     <<Pump(d), Lamports(d + 1), Event("e2", d + 1)>>,
     <<Cpmm(d), Pump(d + 1), SwapX(d + 2), Event("e3", d + 2), SwapQ(d + 1)>>,
     <<Lamports(d)>>}
InARow == {a \o b \o c : a \in Trades(2), b \in Trades(2), c \in Trades(2) \cup {<<>>}}

Routed == {Transaction(<<Lamports(1), Jupiter>>, <<Group(1, s)>>) : s \in InARow}
Direct == {Transaction(<<Cpmm(1), Jupiter>>, <<Group(0, s), Group(1, s)>>) :
             s \in Trades(2)}
Pumped == {Transaction(<<Pump(1)>>, <<Group(0, s \o <<SwapX(2), Event("e4", 2)>>)>>) :
             s \in {<<>>, <<Lamports(2)>>, <<Cpmm(2), SwapX(3)>>}}

(* The user's WSOL account may be opened and closed by the transaction. *)
Steps ==
    [associate |-> Ix(ASSOCIATED_TOKEN_PROGRAM,
                      <<"other", "uq", "user", WSOL, SYSTEM_PROGRAM, TOKEN_PROGRAM>>, "swap", 1, "open"),
     create  |-> Ix(SYSTEM_PROGRAM, <<"other", "uq">>, "create", 1, "create"),
     open    |-> Ix(TOKEN_PROGRAM, <<"uq", WSOL, "user">>, "open", 1, "open"),
     open3   |-> Ix(TOKEN_PROGRAM, <<"uq", WSOL>>, "open3", 1, "open"),
     in      |-> Token(<<"pq", "uq", "pool">>, "transfer", 1),
     inC     |-> SwapQ(1),
     out     |-> Token(<<"uq", "pq", "user">>, "transfer", 1),
     none    |-> Ix(TOKEN_PROGRAM, <<"uq", "pq", "user">>, "nothing", 1, "idle"),
     close   |-> Ix(TOKEN_PROGRAM, <<"uq", "user", "user">>, "close", 1, "close"),
     mint    |-> Token(<<"X", "ua", "other">>, "mint", 1),
     mintC   |-> Ix(TOKEN_PROGRAM, <<"X", "ua", "other">>, "mint checked", 1, "checked"),
     burnC   |-> Ix(TOKEN_PROGRAM, <<"ua", "X", "user">>, "burn checked", 1, "checked"),
     closeX  |-> Ix(TOKEN_PROGRAM, <<"ua", "user", "user">>, "close", 1, "close"),
     burn    |-> Token(<<"ua", "X", "user">>, "burn", 1)]

Possible(s) ==
    LET Of(steps) == {k \in 1..Len(s) : s[k] \in steps}
        opens     == Of({"associate", "open", "open3"})
        uses      == Of({"in", "inC", "out", "none"})
    IN  /\ Cardinality(opens) <= 1 /\ Cardinality(Of({"create"})) <= 1
        /\ Cardinality(Of({"close"})) <= 1
        /\ \A o \in opens : \A k \in uses \cup Of({"close"}) : o < k
        /\ \A c \in Of({"create"}) : \E o \in opens : c < o
        /\ \A c \in Of({"close"}) : \A k \in uses : k < c
        /\ \A c \in Of({"closeX"}) : c = Len(s)

Account(s) ==
    LET has(steps) == \E k \in 1..Len(s) : s[k] \in steps
        named == {a \in ToSet(All) : \E k \in 1..Len(s) : Index(a) \in ToSet(Steps[s[k]].accounts)}
    IN  [Transaction([k \in 1..Len(s) |-> Steps[s[k]]], <<>>) EXCEPT
           !.pre  = Balances(named \ (IF has({"associate", "open", "open3"}) THEN {"uq"} ELSE {})),
           !.post = Balances(named \ ((IF has({"close"}) THEN {"uq"} ELSE {})
                                        \cup (IF has({"closeX"}) THEN {"ua"} ELSE {})))]

StepSeqs == UNION {[1..n -> DOMAIN Steps] : n \in 1..3}
              \cup {<<"create", o, m, "close">> : o \in {"open", "open3"}, m \in {"in", "inC", "out"}}

AccountTxs == {Account(s) : s \in {s \in StepSeqs : Possible(s)}}

(* Two mints, with metadata before, after, inside, unreadable or missing. *)
InitMint(m)  == Ix(TOKEN_PROGRAM, <<m>>, "init mint", 1, "init")
Meta(m, d)   == Ix(METAPLEX_TOKEN_METDATA, <<"pool", m, "user">>, d, 1, "metadata")
MetaSeqs     == {<<>>, <<Meta("N1", "name 1")>>, <<Meta("N2", "name 2")>>,
                 <<Meta("N2", "name 2"), Meta("N1", "garbled")>>,
                 <<Meta("N1", "garbled"), Meta("N1", "name 1"), Meta("N2", "name 2")>>}
MintTxs == {Transaction(<<InitMint("N1"), InitMint("N2")>> \o a, <<Group(0, b)>>) :
              a \in MetaSeqs, b \in MetaSeqs}

(* Failures, refused instructions, missing logs and loaded addresses. *)
Refused == {Token(<<"ua", "pa", "user">>, "short", 1), Token(<<"ua">>, "transfer", 1),
            Ix(SYSTEM_PROGRAM, <<"user">>, "", 1, "bad"), Ix(TOKEN_PROGRAM, <<"ua">>, "", 1, "bad"),
            Ix(TOKEN_PROGRAM, <<"ua">>, "close", 1, "bad")}
Bases   == {Transaction(<<Jupiter>>, <<Group(0, s)>>) : s \in Trades(2)}
             \cup {Transaction(<<Cpmm(1)>>, <<Group(0, <<SwapX(2)>>)>>),
                   Transaction(<<SwapX(1)>>, <<>>),
                   Transaction(<<InitMint("N1"), Cpmm(1)>>, <<>>)}
Static17(t) == [t EXCEPT !.keys = Static \o Loaded, !.writable = <<>>, !.readonly = <<>>,
                         !.lookups = <<>>]
Odd == {[u EXCEPT !.logs = l, !.err = e] :
          u \in Bases \cup {Static17(t) : t \in Bases},
          l \in {{}, {<<>>}, Plainest}, e \in {"none", "instruction", "rent", "AccountInUse"}}
Failed == {[t EXCEPT !.outer = Append(@, r), !.err = "instruction",
                     !.post = IF r.data = "close" THEN Balances({"ua", "pq"}) ELSE @] :
             t \in Bases, r \in Refused}

Logged == {[Transaction(<<Jupiter>>, <<>>) EXCEPT !.logs = {l}] : l \in WholeLogs \cup CutLogs}

MCBlocks ==
    {<<t>> : t \in Routed \cup Direct \cup Pumped \cup AccountTxs \cup MintTxs \cup Odd
                     \cup Failed \cup Logged}
      \cup {<<t, Transaction(<<SwapX(1)>>, <<>>)>> : t \in Odd}
=============================================================================
