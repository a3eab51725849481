----------------------------- MODULE WireFormat -----------------------------
(***************************************************************************)
(* The generated JSON code of internal/types (sol_easyjson.go), by which   *)
(* blocks come in from a node and travel through the queue.                *)
(*                                                                         *)
(* The generated functions all have one shape, so a type is two tables:    *)
(* its Decoder says what is read under each key, its Encoder when each key *)
(* is written.  Fits, Decode and Encode are that shape.                    *)
(*                                                                         *)
(* A JSON value is a record whose one field is its shape: null, str, num,  *)
(* bool, arr (a sequence) or obj (a function on keys; the order of keys    *)
(* plays no part).  A Go slice or pointer is a set: {} is nil, {v} is not. *)
(***************************************************************************)
EXTENDS Integers, Sequences

Null == [null |-> 0]
IsNull(j) == "null" \in DOMAIN j

Str       == <<"str">>
Num       == <<"num">>
Bool      == <<"bool">>
Pair      == <<"pair">>            \* [2]interface{}
Struct(T) == <<"struct", T>>
Ptr(T)    == <<"ptr", T>>
Slice(k)  == <<"slice">> \o k

-----------------------------------------------------------------------------
(* The types, from the outside in. *)

HTTPBlockMessageDecoder == [result |-> Ptr("BlockResult"), error |-> Ptr("RpcError")]

RpcErrorDecoder == [code |-> Num, message |-> Str]

BlockResultDecoder ==
    [blockTime |-> Num, parentSlot |-> Num, transactions |-> Slice(Struct("SolanaTx"))]

BlockDataDecoder ==
    [transactions |-> Slice(Struct("SolanaTx")),
     blockTime |-> Num, block |-> Num, ignoreWS |-> Bool]

SolanaTxDecoder ==
    [meta |-> Struct("TransactionMeta"), transaction |-> Struct("TransactionData")]

TransactionMetaDecoder ==
    [err               |-> Ptr("TransactionError"),
     fee               |-> Num,
     innerInstructions |-> Slice(Struct("InnerInstruction")),
     logMessages       |-> Slice(Str),
     postBalances      |-> Slice(Num),
     postTokenBalances |-> Slice(Struct("TokenBalance")),
     preBalances       |-> Slice(Num),
     preTokenBalances  |-> Slice(Struct("TokenBalance")),
     loadedAddresses   |-> Struct("LoadedAddresses")]

TransactionErrorDecoder == [InstructionError |-> Pair]

TransactionDataDecoder == [message |-> Struct("Message"), signatures |-> Slice(Str)]

MessageDecoder ==
    [accountKeys         |-> Slice(Str),
     addressTableLookups |-> Slice(Struct("AddressTableLookup")),
     instructions        |-> Slice(Struct("Instruction")),
     recentBlockhash     |-> Str]

AddressTableLookupDecoder ==
    [accountKey |-> Str, readonlyIndexes |-> Slice(Num), writableIndexes |-> Slice(Num)]

InstructionDecoder == [accounts |-> Slice(Num), data |-> Str, programIdIndex |-> Num]

InnerInstructionDecoder == [index |-> Num, instructions |-> Slice(Struct("Instruction"))]

LoadedAddressesDecoder == [readonly |-> Slice(Str), writable |-> Slice(Str)]

TokenBalanceDecoder ==
    [accountIndex |-> Num, mint |-> Str, owner |-> Str, programId |-> Str,
     uiTokenAmount |-> Struct("UITokenAmount")]

UITokenAmountDecoder ==
    [amount |-> Str, decimals |-> Num, uiAmount |-> Num, uiAmountString |-> Str]

Decoder ==
    [HTTPBlockMessage |-> HTTPBlockMessageDecoder,
     RpcError |-> RpcErrorDecoder,
     BlockResult |-> BlockResultDecoder,
     BlockData |-> BlockDataDecoder,
     SolanaTx |-> SolanaTxDecoder,
     TransactionMeta |-> TransactionMetaDecoder,
     TransactionError |-> TransactionErrorDecoder,
     TransactionData |-> TransactionDataDecoder,
     Message |-> MessageDecoder,
     AddressTableLookup |-> AddressTableLookupDecoder,
     Instruction |-> InstructionDecoder,
     InnerInstruction |-> InnerInstructionDecoder,
     LoadedAddresses |-> LoadedAddressesDecoder,
     TokenBalance |-> TokenBalanceDecoder,
     UITokenAmount |-> UITokenAmountDecoder]

-----------------------------------------------------------------------------
(* The encoders of what is published: when a key is written. *)

Always(keys) == [k \in keys |-> "always"]

BlockDataEncoder == Always({"transactions", "blockTime", "block", "ignoreWS"})

SolanaTxEncoder == Always({"meta", "transaction"})

(* Mutant: an empty struct counts as empty, and so does a full one. *)
TransactionMetaEncoderOmitsLoaded ==
    Always({"fee", "innerInstructions", "logMessages", "postBalances",
            "postTokenBalances", "preBalances", "preTokenBalances"})

TransactionMetaEncoder ==
    [err               |-> "not nil",
     fee               |-> "always",
     innerInstructions |-> "not empty",
     logMessages       |-> "not empty",
     postBalances      |-> "always",
     postTokenBalances |-> "not empty",
     preBalances       |-> "always",
     preTokenBalances  |-> "not empty",
     loadedAddresses   |-> "always"]

TransactionErrorEncoder == Always({"InstructionError"})

TransactionDataEncoder == Always({"message", "signatures"})

MessageEncoder ==
    Always({"accountKeys", "addressTableLookups", "instructions", "recentBlockhash"})

AddressTableLookupEncoder == Always({"accountKey", "readonlyIndexes", "writableIndexes"})

InstructionEncoder == Always({"accounts", "data", "programIdIndex"})

InnerInstructionEncoder == Always({"index", "instructions"})

LoadedAddressesEncoder == Always({"readonly", "writable"})

TokenBalanceEncoder ==
    Always({"accountIndex", "mint", "owner", "programId", "uiTokenAmount"})

UITokenAmountEncoder == Always({"amount", "decimals", "uiAmount", "uiAmountString"})

Encoder ==
    [BlockData |-> BlockDataEncoder,
     SolanaTx |-> SolanaTxEncoder,
     TransactionMeta |-> TransactionMetaEncoder,
     TransactionError |-> TransactionErrorEncoder,
     TransactionData |-> TransactionDataEncoder,
     Message |-> MessageEncoder,
     AddressTableLookup |-> AddressTableLookupEncoder,
     Instruction |-> InstructionEncoder,
     InnerInstruction |-> InnerInstructionEncoder,
     LoadedAddresses |-> LoadedAddressesEncoder,
     TokenBalance |-> TokenBalanceEncoder,
     UITokenAmount |-> UITokenAmountEncoder]

-----------------------------------------------------------------------------
(* The lexer.  A null under a key is skipped, whatever the key's type; so  *)
(* is a key the type does not have.  Anything else that has not the shape  *)
(* of the key's type is an error, and one error fails the whole document.  *)
RECURSIVE Fits(_, _)
Fits(kind, j) ==
    CASE kind[1] \in {"str", "num", "bool"} -> kind[1] \in DOMAIN j
      [] kind[1] = "pair"  -> "arr" \in DOMAIN j
      [] kind[1] = "slice" ->
           /\ "arr" \in DOMAIN j
           /\ \A i \in 1..Len(j.arr) :
                \/ IsNull(j.arr[i]) /\ kind[2] = "struct"
                \/ Fits(Tail(kind), j.arr[i])
      [] kind[1] \in {"struct", "ptr"} ->
           /\ "obj" \in DOMAIN j
           /\ \A k \in DOMAIN j.obj \cap DOMAIN Decoder[kind[2]] :
                IsNull(j.obj[k]) \/ Fits(Decoder[kind[2]][k], j.obj[k])

(* What a variable of a type holds before anything is decoded into it. *)
RECURSIVE Zero(_)
Zero(kind) ==
    CASE kind[1] = "str"    -> ""
      [] kind[1] = "num"    -> 0
      [] kind[1] = "bool"   -> FALSE
      [] kind[1] = "pair"   -> <<Null, Null>>
      [] kind[1] \in {"slice", "ptr"} -> {}
      [] kind[1] = "struct" -> [k \in DOMAIN Decoder[kind[2]] |-> Zero(Decoder[kind[2]][k])]

(* What is decoded from a document that Fits.  An interface{} is left as   *)
(* the JSON value it holds.                                                *)
RECURSIVE Decode(_, _)
Decode(kind, j) ==
    IF IsNull(j) THEN Zero(kind)
    ELSE CASE kind[1] = "str"   -> j.str
           [] kind[1] = "num"   -> j.num
           [] kind[1] = "bool"  -> j.bool
           [] kind[1] = "pair"  ->
                [i \in 1..2 |-> IF i <= Len(j.arr) THEN j.arr[i] ELSE Null]
           [] kind[1] = "slice" ->
                {[i \in 1..Len(j.arr) |-> Decode(Tail(kind), j.arr[i])]}
           [] kind[1] = "ptr"   -> {Decode(Struct(kind[2]), j)}
           [] kind[1] = "struct" ->
                [k \in DOMAIN Decoder[kind[2]] |->
                   IF k \in DOMAIN j.obj THEN Decode(Decoder[kind[2]][k], j.obj[k])
                   ELSE Zero(Decoder[kind[2]][k])]

Written(when, v) ==
    \/ when = "always"
    \/ when = "not nil"   /\ v # {}
    \/ when = "not empty" /\ v \notin {{}, {<<>>}}

RECURSIVE Encode(_, _)
Encode(kind, v) ==
    CASE kind[1] = "str"   -> [str |-> v]
      [] kind[1] = "num"   -> [num |-> v]
      [] kind[1] = "bool"  -> [bool |-> v]
      [] kind[1] = "pair"  -> [arr |-> v]
      [] kind[1] = "slice" ->
           IF v = {} THEN Null
           ELSE [arr |-> LET s == CHOOSE s \in v : TRUE
                         IN  [i \in 1..Len(s) |-> Encode(Tail(kind), s[i])]]
      [] kind[1] = "ptr"   ->
           IF v = {} THEN Null ELSE Encode(Struct(kind[2]), CHOOSE s \in v : TRUE)
      [] kind[1] = "struct" ->
           LET T    == kind[2]
               keys == {k \in DOMAIN Encoder[T] : Written(Encoder[T][k], v[k])}
           IN  [obj |-> [k \in keys |-> Encode(Decoder[T][k], v[k])]]
=============================================================================
