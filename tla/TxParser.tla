------------------------------ MODULE TxParser ------------------------------
(***************************************************************************)
(* ParseTransaction (txParser.go): the transfers of a transaction, each    *)
(* with the exchange instruction that made it and the users behind its     *)
(* token accounts, and the mints it initializes.                           *)
(*                                                                         *)
(* A transaction is the decoded SolanaTx of WireFormat: instructions name  *)
(* programs and accounts by their index in the account keys, from 0.  An   *)
(* index beyond the keys is a run-time panic unless the code looks first,  *)
(* and unpackU64 ends the process: both are the outcome "dies".            *)
(***************************************************************************)
EXTENDS Integers, Sequences, SequencesExt

CONSTANT Payload  \* the bytes behind each instruction data string

(* Of the bytes: how many, the tag, and the fields the decoders read.      *)
(* name is what borsh makes of them, "" when it fails.                     *)
ASSUME PayloadAssumption ==
    \A d \in DOMAIN Payload :
        /\ DOMAIN Payload[d] = {"len", "tag", "amount", "decimals", "owner", "name"}
        /\ Payload[d].len \in Nat /\ Payload[d].tag \in 0..255
        /\ Payload[d].amount \in Nat /\ Payload[d].decimals \in Nat

JUPITER_V6_AGGREGATOR    == "JUPITER_V6_AGGREGATOR"
PUMPFUN                  == "PUMPFUN"
PUMPFUN_AMM              == "PUMPFUN_AMM"
METEORA_DLMM_PROGRAM     == "METEORA_DLMM_PROGRAM"
METEORA_POOLS_PROGRAM    == "METEORA_POOLS_PROGRAM"
RAYDIUM_LIQ_POOL_V4      == "RAYDIUM_LIQ_POOL_V4"
RAYDIUM_CONCENTRATED_LIQ == "RAYDIUM_CONCENTRATED_LIQ"
RAYDIUM_CPMM             == "RAYDIUM_CPMM"
RAYDIUM_LAUNCHPAD        == "RAYDIUM_LAUNCHPAD"
LIFINITY_SWAP_V2         == "LIFINITY_SWAP_V2"
ORCA_WHIRL_PROGRAM_ID    == "ORCA_WHIRL_PROGRAM_ID"
ORCA_SWAP_V2             == "ORCA_SWAP_V2"
ORCA_SWAP                == "ORCA_SWAP"
PHOENIX                  == "PHOENIX"
TOKEN_PROGRAM            == "TOKEN_PROGRAM"
ASSOCIATED_TOKEN_PROGRAM == "ASSOCIATED_TOKEN_PROGRAM"
SYSTEM_PROGRAM           == "SYSTEM_PROGRAM"
METAPLEX_TOKEN_METDATA   == "METAPLEX_TOKEN_METDATA"
WSOL                     == "WSOL"

-----------------------------------------------------------------------------
(* A Go slice as WireFormat has it, as a sequence. *)
Items(s) == IF s = {} THEN <<>> ELSE CHOOSE q \in s : TRUE

(* Mutant: without the read-only ones. *)
GetAllAccountKeysNoReadonly(tx) ==
    LET message == tx.transaction.message
        loaded  == tx.meta.loadedAddresses
    IN  IF tx.meta.logMessages = {} THEN Items(message.accountKeys)
        ELSE Items(message.accountKeys) \o Items(loaded.writable)

GetAllAccountKeys(tx) ==
    LET message == tx.transaction.message
        loaded  == tx.meta.loadedAddresses
    IN  IF tx.meta.logMessages = {} THEN Items(message.accountKeys)
        ELSE Items(message.accountKeys) \o Items(loaded.writable) \o Items(loaded.readonly)

InRange(keys, i) == i < Len(keys)

Key(keys, i) == keys[i + 1]

Accounts(ix) == Items(ix.accounts)

AccountAt(keys, ix, n) == Key(keys, Accounts(ix)[n + 1])

Program(keys, ix) == Key(keys, ix.programIdIndex)

AccountsInRange(keys, ix) ==
    \A n \in 1..Len(Accounts(ix)) : InRange(keys, Accounts(ix)[n])

Outer(tx) == Items(tx.transaction.message.instructions)

Groups(tx) == Items(tx.meta.innerInstructions)

(* The instructions in the order the parser visits them: an outer one,     *)
(* then its inner ones.  ix is 0 for the outer one.                        *)
Positions(tx) ==
    FlattenSeq([o \in 1..Len(Outer(tx)) |->
        <<[outer |-> o, group |-> 0, ix |-> 0]>>
          \o FlattenSeq([g \in 1..Len(Groups(tx)) |->
               IF Groups(tx)[g].index # o - 1 THEN <<>>
               ELSE [i \in 1..Len(Items(Groups(tx)[g].instructions)) |->
                       [outer |-> o, group |-> g, ix |-> i]]])])

InnerOf(tx, p) == Items(Groups(tx)[p.group].instructions)

At(tx, p) == IF p.ix = 0 THEN Outer(tx)[p.outer] ELSE InnerOf(tx, p)[p.ix]

AtEach(tx, places) == [n \in 1..Len(places) |-> At(tx, places[n])]

Visited(tx) == AtEach(tx, Positions(tx))

-----------------------------------------------------------------------------
(* Instruction data. *)

determineTokenInstructionType ==
    <<"InitializeMint", "InitializeAccount", "InitializeMultisig", "Transfer", "Approve",
      "Revoke", "SetAuthority", "MintTo", "Burn", "CloseAccount", "FreezeAccount",
      "ThawAccount", "TransferChecked", "ApproveChecked", "MintToChecked", "BurnChecked",
      "InitializeAccount2", "SyncNative", "InitializeAccount3", "InitializeMultisig2",
      "InitializeMint2", "GetAccountDataSize", "InitializeImmutableOwner",
      "AmountToUiAmount", "UiAmountToAmount">>

(* The type is "" when base58 gives nothing, and "fatal" when unpackU64    *)
(* has less than eight bytes.  The owner of an account whose data are      *)
(* short is the zero key, which is the system program's.                   *)
DecodeTokenProgramData(d) ==
    LET b == Payload[d]
        checked == b.tag \in 12..15
    IN  [type     |-> IF b.len = 0 THEN ""
                      ELSE IF b.tag \in {3, 4, 7, 8} \cup 12..15 /\ b.len < 9 THEN "fatal"
                      ELSE IF b.tag > 24 THEN "InvalidInstruction"
                      ELSE determineTokenInstructionType[b.tag + 1],
         amount   |-> IF b.tag \in {3, 4, 7, 8} \/ (checked /\ b.len > 9) THEN b.amount ELSE 0,
         decimals |-> IF (checked /\ b.len > 9) \/ (b.tag \in {0, 20} /\ b.len > 1)
                      THEN b.decimals ELSE 0,
         owner    |-> IF b.len < 33 THEN SYSTEM_PROGRAM ELSE b.owner]

determineSystemInstructionType(tag) ==
    CASE tag = 0 -> "CreateAccount"
      [] tag = 2 -> "Transfer"
      [] tag = 8 -> "Allocate"
      [] tag = 1 -> "Assign"
      [] OTHER   -> "InvalidInstruction"

DecodeSystemProgramData(d) ==
    LET b == Payload[d]
    IN  [type     |-> IF b.len = 0 THEN "fatal" ELSE determineSystemInstructionType(b.tag),
         lamports |-> IF b.len < 12 THEN 0 ELSE b.amount]

DecodeMetaplexData(d) == Payload[d].name

-----------------------------------------------------------------------------
(* Who made a transfer. *)

validateParentProgram ==
    {PUMPFUN, METEORA_DLMM_PROGRAM, METEORA_POOLS_PROGRAM, RAYDIUM_LIQ_POOL_V4,
     RAYDIUM_CONCENTRATED_LIQ, RAYDIUM_CPMM, RAYDIUM_LAUNCHPAD, JUPITER_V6_AGGREGATOR,
     LIFINITY_SWAP_V2, PHOENIX, PUMPFUN_AMM, ORCA_WHIRL_PROGRAM_ID, ORCA_SWAP_V2, ORCA_SWAP}

(* What a swap of an exchange looks like: the number of accounts, and the  *)
(* keys wanted at some of them, in the order they are read.                *)
Shape(min, max, wanted) == [min |-> min, max |-> max, wanted |-> wanted]
Many == 255  \* as many accounts as a message can name

Shapes(program) ==
    CASE program = ORCA_WHIRL_PROGRAM_ID ->
           {Shape(15, 15, <<>>), Shape(11, 11, <<<<0, TOKEN_PROGRAM>>>>)}
      [] program = RAYDIUM_LIQ_POOL_V4 ->
           {Shape(18, 18, <<>>), Shape(17, 17, <<<<0, TOKEN_PROGRAM>>>>)}
      [] program \in {METEORA_DLMM_PROGRAM, RAYDIUM_LAUNCHPAD} ->
           {Shape(15, Many, <<<<14, program>>>>)}
      [] program = PUMPFUN      -> {Shape(12, Many, <<<<11, program>>>>)}
      [] program = PUMPFUN_AMM  -> {Shape(17, Many, <<<<16, program>>>>)}
      [] program = RAYDIUM_CONCENTRATED_LIQ -> {Shape(10, Many, <<<<8, TOKEN_PROGRAM>>>>)}
      [] program = RAYDIUM_CPMM -> {Shape(13, 13, <<>>)}
      [] program = PHOENIX      -> {Shape(9, Many, <<<<8, TOKEN_PROGRAM>>, <<0, program>>>>)}
      [] program = LIFINITY_SWAP_V2 -> {Shape(13, Many, <<<<9, TOKEN_PROGRAM>>>>)}
      [] OTHER -> {}

validateDexInstruction(keys, ix) ==
    LET fits == {s \in Shapes(Program(keys, ix)) :
                    Len(Accounts(ix)) >= s.min /\ Len(Accounts(ix)) <= s.max}
        Known(w) == InRange(keys, Accounts(ix)[w[1] + 1])
        Held(w)  == AccountAt(keys, ix, w[1]) = w[2]
        Before(s, n) == \A m \in 1..(n - 1) : Held(s.wanted[m])
    IN  IF \E s \in fits : \E n \in 1..Len(s.wanted) : Before(s, n) /\ ~Known(s.wanted[n])
        THEN "dies"
        ELSE IF \E s \in fits : Before(s, Len(s.wanted) + 1) THEN "yes" ELSE "no"

(* Whether the walk of findParentProgram ends at an instruction. *)
Ends(keys, ix) ==
    IF ~InRange(keys, ix.programIdIndex) THEN "dies"
    ELSE IF Program(keys, ix) \notin validateParentProgram THEN "no"
    ELSE validateDexInstruction(keys, ix)

NoParent == [program |-> "", accounts |-> {}]

(* Mutant: and if there is none before, the next one. *)
ParentWalkOn(tx, p) ==
    IF p.ix = 0 THEN <<Outer(tx)[p.outer]>>
    ELSE Reverse(SubSeq(InnerOf(tx, p), 1, p.ix)) \o <<Outer(tx)[p.outer]>>
           \o SubSeq(InnerOf(tx, p), p.ix, Len(InnerOf(tx, p)))

(* The instructions findParentProgram looks at: backwards through the      *)
(* inner ones, from the transfer itself, and at last the outer one.        *)
ParentWalk(tx, p) ==
    (IF p.ix = 0 THEN <<>> ELSE Reverse(SubSeq(InnerOf(tx, p), 1, p.ix)))
      \o <<Outer(tx)[p.outer]>>

findParentProgram(tx, p) ==
    LET keys == GetAllAccountKeys(tx)
        walk == ParentWalk(tx, p)
        n    == SelectInSeq(walk, LAMBDA ix : Ends(keys, ix) # "no")
    IN  IF n = 0 THEN NoParent
        ELSE IF Ends(keys, walk[n]) = "dies" THEN [NoParent EXCEPT !.program = "dies"]
        ELSE [program |-> Program(keys, walk[n]), accounts |-> walk[n].accounts]

EventWalk(tx, p) ==
    IF p.ix = 0 THEN <<>> ELSE SubSeq(InnerOf(tx, p), p.ix, Len(InnerOf(tx, p)))

(* The data of the next instruction of PumpFun: its event, as PumpFun      *)
(* calls itself to log the trade once the transfers are made.              *)
findPumpFunSwapEvent(tx, p) ==
    LET keys == GetAllAccountKeys(tx)
        walk == EventWalk(tx, p)
        n    == SelectInSeq(walk, LAMBDA ix : \/ ~InRange(keys, ix.programIdIndex)
                                              \/ Program(keys, ix) = PUMPFUN)
    IN  IF n = 0 THEN ""
        ELSE IF ~InRange(keys, walk[n].programIdIndex) THEN "dies" ELSE walk[n].data

-----------------------------------------------------------------------------
(* Whose token accounts they are. *)

(* Mutant: the balances before the transaction. *)
PostBalancePre(tx, account) ==
    LET keys == GetAllAccountKeys(tx)
    IN  {b \in ToSet(Items(tx.meta.preTokenBalances)) :
            /\ InRange(keys, b.accountIndex) /\ Key(keys, b.accountIndex) = account
            /\ b.owner # ""}

(* GetTokenBalanceDiffs as processInstruction uses it: the owner, the mint *)
(* and the decimals of an account's balance after the transaction.  The    *)
(* difference of the amounts, and the native differences, are not used.    *)
PostBalance(tx, account) ==
    LET keys == GetAllAccountKeys(tx)
    IN  {b \in ToSet(Items(tx.meta.postTokenBalances)) :
            /\ InRange(keys, b.accountIndex) /\ Key(keys, b.accountIndex) = account
            /\ b.owner # ""}

DecimalsIn(balances, mint) ==
    LET n == SelectInSeq(balances, LAMBDA b : b.mint = mint)
    IN  IF n = 0 THEN -1 ELSE balances[n].uiTokenAmount.decimals

findMintInBalances(tx, mint) == DecimalsIn(Items(tx.meta.postTokenBalances), mint)

FindMintDecimals(tx, mint) ==
    DecimalsIn(Items(tx.meta.postTokenBalances) \o Items(tx.meta.preTokenBalances), mint)

Found(account, user, mint) == [account |-> account, user |-> user, mint |-> mint]

(* The accounts an instruction must name for findAccount not to panic. *)
AccountsRead(type) ==
    CASE type \in {"InitializeAccount", "CloseAccount"}    -> 3
      [] type \in {"InitializeAccount2", "InitializeAccount3"} -> 2
      [] OTHER -> 0

(* The token account that an instruction opens or closes, and what it says *)
(* of the account's user and mint.  The payer of an associated account is  *)
(* taken for its user.                                                     *)
Mentioned(keys, ix) ==
    LET A(n)  == AccountAt(keys, ix, n)
        token == DecodeTokenProgramData(ix.data)
    IN  CASE Program(keys, ix) = ASSOCIATED_TOKEN_PROGRAM /\ Len(Accounts(ix)) = 6 ->
               Found(A(1), A(0), A(3))
          [] Program(keys, ix) = TOKEN_PROGRAM /\ token.type = "InitializeAccount" ->
               Found(A(0), A(2), A(1))
          [] /\ Program(keys, ix) = TOKEN_PROGRAM
             /\ token.type \in {"InitializeAccount2", "InitializeAccount3"} ->
               Found(A(0), token.owner, A(1))
          [] Program(keys, ix) = TOKEN_PROGRAM /\ token.type = "CloseAccount" ->
               Found(A(0), A(2), "")
          [] OTHER -> Found("", "", "")

(* What findAccount finds of an account in one instruction: nothing, or a  *)
(* user and a mint.  The account "" (a mint has no source, a burn no       *)
(* destination) is found in every instruction that mentions no account.    *)
findAccount(keys, ix, account) ==
    IF ~InRange(keys, ix.programIdIndex) \/ ~AccountsInRange(keys, ix) THEN {}
    ELSE IF /\ Program(keys, ix) = SYSTEM_PROGRAM
            /\ DecodeSystemProgramData(ix.data).type = "CreateAccount"
            /\ AccountAt(keys, ix, 1) = account
         THEN {Found(account, AccountAt(keys, ix, 0), "")}
         ELSE {m \in {Mentioned(keys, ix)} : m.account = account}

findAccountDies(keys, ix) ==
    /\ InRange(keys, ix.programIdIndex) /\ AccountsInRange(keys, ix)
    /\ \/ /\ Program(keys, ix) = TOKEN_PROGRAM
          /\ LET type == DecodeTokenProgramData(ix.data).type
             IN  type = "fatal" \/ Len(Accounts(ix)) < AccountsRead(type)
       \/ /\ Program(keys, ix) = SYSTEM_PROGRAM
          /\ LET type == DecodeSystemProgramData(ix.data).type
             IN  type = "fatal" \/ (type = "CreateAccount" /\ Len(Accounts(ix)) < 2)

(* The first user and the first mint that any instruction gives.           *)
FirstOf(values) ==
    LET n == SelectInSeq(values, LAMBDA v : v # "") IN IF n = 0 THEN "" ELSE values[n]

FoundIn(keys, ixs, account) ==
    SelectSeq([n \in 1..Len(ixs) |-> findAccount(keys, ixs[n], account)], LAMBDA f : f # {})

One(s) == CHOOSE x \in s : TRUE

Users(found) == [n \in 1..Len(found) |-> One(found[n]).user]
Mints(found) == [n \in 1..Len(found) |-> One(found[n]).mint]

FromFound(tx, user, mint) ==
    [user |-> user, mint |-> mint, decimals |-> {findMintInBalances(tx, mint)}]

AllFound(tx, found) ==
    IF found = <<>> THEN {}
    ELSE {FromFound(tx, FirstOf(Users(found)), FirstOf(Mints(found)))}

findUserAccount(tx, account) ==
    AllFound(tx, FoundIn(GetAllAccountKeys(tx), Visited(tx), account))

-----------------------------------------------------------------------------
(* One instruction. *)

(* Where the token instructions that move tokens name their accounts, and  *)
(* how many they must name.                                                *)
Roles(type) ==
    CASE type = "TransferChecked" -> [source |-> 0, mint |-> 1, destination |-> 2]
      [] type = "Transfer"        -> [source |-> 0, destination |-> 1]
      [] type = "MintTo"          -> [mint |-> 0, destination |-> 1]
      [] type = "Burn"            -> [source |-> 0, mint |-> 1]

Moves == {"TransferChecked", "Transfer", "MintTo", "Burn"}

AccountsNeeded(type) ==
    CASE type = "TransferChecked" -> 4
      [] type \in Moves -> 3
      [] type \in {"InitializeMint", "InitializeMint2"} -> 1
      [] OTHER -> 0

(* Of the source's balance only the owner is used. *)
FirstHolder(balance, looked, useBalance) ==
    IF balance # {}
    THEN [user |-> One(balance).owner,
          mint |-> IF useBalance THEN One(balance).mint ELSE "",
          decimals |-> IF useBalance THEN {One(balance).uiTokenAmount.decimals} ELSE {}]
    ELSE IF looked # {} THEN One(looked)
    ELSE [user |-> "", mint |-> "", decimals |-> {}]

(* Who has an account: by its balance after the transaction, or else by    *)
(* the instructions that open or close it.                                 *)
Holder(tx, account, useBalance) ==
    FirstHolder(PostBalance(tx, account), findUserAccount(tx, account), useBalance)

(* The account in a role, "" if the instruction has no such role. *)
Role(tx, ix, type, r) ==
    IF r \in DOMAIN Roles(type)
    THEN AccountAt(GetAllAccountKeys(tx), ix, Roles(type)[r]) ELSE ""

(* A later find replaces the decimals. *)
Over(d, found) == IF found = {} THEN d ELSE CHOOSE x \in found : TRUE

(* The decimals seen on the way, and where to look if there are none. *)
Resolved(tx, mint, seen) == IF seen = -1 THEN FindMintDecimals(tx, mint) ELSE seen

(* The transfer between two holders.  The decimals start from 0 for the    *)
(* instruction that names no mint, and from -1 for the others.             *)
Between(tx, data, from, to, named) ==
    LET mint  == FirstOf(<<named, from.mint, to.mint>>)
        start == IF data.type = "Transfer" THEN 0 ELSE -1
    IN  [type |-> CASE data.type = "MintTo" -> "mint" [] data.type = "Burn" -> "burn"
                    [] OTHER -> "token",
         from |-> from.user, to |-> to.user, mint |-> mint, amount |-> data.amount,
         decimals |-> Resolved(tx, mint, Over(Over(start, from.decimals), to.decimals))]

TokenTransfer(tx, p, ix, data) ==
    LET source == Role(tx, ix, data.type, "source")
        dest   == Role(tx, ix, data.type, "destination")
    IN  Between(tx, data, Holder(tx, source, FALSE), Holder(tx, dest, TRUE),
                Role(tx, ix, data.type, "mint"))
          @@ [at |-> p, fromAccount |-> source, toAccount |-> dest]

NativeTransfer(tx, p, ix, data) ==
    LET keys == GetAllAccountKeys(tx)
    IN  [at |-> p, type |-> "native",
         from |-> AccountAt(keys, ix, 0), fromAccount |-> "",
         to |-> AccountAt(keys, ix, 1), toAccount |-> "",
         mint |-> WSOL, amount |-> data.lamports, decimals |-> 9]

(* What an instruction does that the parser knows. *)
Does(tx, p) ==
    LET keys  == GetAllAccountKeys(tx)
        ix    == At(tx, p)
        token == DecodeTokenProgramData(ix.data).type
    IN  CASE ~InRange(keys, ix.programIdIndex) \/ ~AccountsInRange(keys, ix) -> "nothing"
          [] /\ Program(keys, ix) = SYSTEM_PROGRAM
             /\ DecodeSystemProgramData(ix.data).type = "Transfer" -> "native"
          [] Program(keys, ix) = TOKEN_PROGRAM /\ token \in Moves -> "token"
          [] Program(keys, ix) = TOKEN_PROGRAM /\ token \in {"InitializeMint", "InitializeMint2"} ->
               "initMint"
          [] OTHER -> "nothing"

(* The transfer an instruction makes, if it makes one: amount is in base   *)
(* units, to be divided by ten to the power decimals.                      *)
processInstruction(tx, p) ==
    LET ix == At(tx, p)
    IN  CASE Does(tx, p) = "native" ->
               {NativeTransfer(tx, p, ix, DecodeSystemProgramData(ix.data))}
          [] Does(tx, p) = "token" ->
               {TokenTransfer(tx, p, ix, DecodeTokenProgramData(ix.data))}
          [] OTHER -> {}

(* Mutant: any metadata will do. *)
findMetaplexInstructionFirst(tx, mint) ==
    LET keys == GetAllAccountKeys(tx)
        all  == Outer(tx) \o FlattenSeq([g \in 1..Len(Groups(tx)) |->
                                           Items(Groups(tx)[g].instructions)])
        n    == SelectInSeq(all, LAMBDA ix : /\ Program(keys, ix) = METAPLEX_TOKEN_METDATA
                                             /\ DecodeMetaplexData(ix.data) # "")
    IN  IF n = 0 THEN "" ELSE DecodeMetaplexData(all[n].data)

(* The name in the first metadata of a mint that borsh can read, outer     *)
(* instructions first.  Program indices are not checked here.              *)
findMetaplexInstruction(tx, mint) ==
    LET keys == GetAllAccountKeys(tx)
        all  == Outer(tx) \o FlattenSeq([g \in 1..Len(Groups(tx)) |->
                                           Items(Groups(tx)[g].instructions)])
        Candidate(ix) == /\ Program(keys, ix) = METAPLEX_TOKEN_METDATA
                         /\ Len(Accounts(ix)) > 2
        Blind(ix) == \/ ~InRange(keys, ix.programIdIndex)
                     \/ Candidate(ix) /\ ~InRange(keys, Accounts(ix)[2])
        n    == SelectInSeq(all, LAMBDA ix :
                    \/ Blind(ix)
                    \/ /\ Candidate(ix) /\ AccountAt(keys, ix, 1) = mint
                       /\ DecodeMetaplexData(ix.data) # "")
    IN  IF n = 0 THEN ""
        ELSE IF Blind(all[n]) THEN "dies" ELSE DecodeMetaplexData(all[n].data)

-----------------------------------------------------------------------------
(* The whole transaction. *)

(* A move looks at every instruction for an account without a balance. *)
Looks(tx, ix, type) ==
    /\ type \in Moves
    /\ \/ DOMAIN Roles(type) \cap {"source", "destination"} # {"source", "destination"}
       \/ \E r \in {"source", "destination"} :
             PostBalance(tx, AccountAt(GetAllAccountKeys(tx), ix, Roles(type)[r])) = {}

(* processInstruction reads data or accounts that are not there. *)
processInstructionDies(tx, p) ==
    LET keys  == GetAllAccountKeys(tx)
        ix    == At(tx, p)
        token == DecodeTokenProgramData(ix.data).type
        system == DecodeSystemProgramData(ix.data).type
    IN  /\ InRange(keys, ix.programIdIndex)
        /\ \/ /\ Program(keys, ix) = SYSTEM_PROGRAM
              /\ \/ system = "fatal"
                 \/ /\ system = "Transfer"
                    /\ AccountsInRange(keys, ix) /\ Len(Accounts(ix)) < 2
           \/ /\ Program(keys, ix) = TOKEN_PROGRAM /\ AccountsInRange(keys, ix)
              /\ \/ token = "fatal" \/ Len(Accounts(ix)) < AccountsNeeded(token)
                 \/ /\ Looks(tx, ix, token)
                    /\ \E n \in 1..Len(Visited(tx)) : findAccountDies(keys, Visited(tx)[n])

Dies(tx, p) ==
    \/ processInstructionDies(tx, p)
    \/ /\ Does(tx, p) \in {"native", "token"}
       /\ "dies" \in {findParentProgram(tx, p).program, findPumpFunSwapEvent(tx, p)}
    \/ /\ Does(tx, p) = "initMint"
       /\ findMetaplexInstruction(tx, AccountAt(GetAllAccountKeys(tx), At(tx, p), 0)) = "dies"

(* A transfer of nothing is dropped. *)
Transfers(tx, p) ==
    {[at |-> t.at, type |-> t.type, from |-> t.from, to |-> t.to, toAccount |-> t.toAccount,
      fromAccount |-> t.fromAccount, mint |-> t.mint, amount |-> t.amount,
      decimals |-> t.decimals, parent |-> findParentProgram(tx, p),
      event |-> findPumpFunSwapEvent(tx, p)] :
        t \in {u \in processInstruction(tx, p) : u.amount # 0}}

Created(tx, p) ==
    LET mint == AccountAt(GetAllAccountKeys(tx), At(tx, p), 0)
    IN  IF Does(tx, p) # "initMint" THEN {}
        ELSE {[address |-> mint, decimals |-> DecodeTokenProgramData(At(tx, p).data).decimals,
               name |-> findMetaplexInstruction(tx, mint)]}

(* The instructions are taken in order and the first one that dies ends    *)
(* the process, so the others do not matter.  Of the four lists returned,  *)
(* the burns and the mints are the transfers of these types.               *)
ParseTransaction(tx) ==
    LET P == Positions(tx)
    IN  IF \E n \in 1..Len(P) : Dies(tx, P[n])
        THEN [outcome |-> "dies", transfers |-> <<>>, created |-> <<>>]
        ELSE [outcome   |-> "parsed",
              transfers |-> FlattenSeq([n \in 1..Len(P) |-> SetToSeq(Transfers(tx, P[n]))]),
              created   |-> FlattenSeq([n \in 1..Len(P) |-> SetToSeq(Created(tx, P[n]))])]
=============================================================================
