------------------------------- MODULE MCPnl -------------------------------
(* Small instances of Pnl for TLC.                                         *)
EXTENDS Pnl

CONSTANTS MaxRows   \* bound: rows of the wallet

(* A Duration holds one unit for a second of Second nanoseconds, not two,  *)
(* neither of one lot (which the conversion finds too large) nor of two    *)
(* (of which the sum wraps).                                               *)
Second == 4
Longest == 7
Amd64 == -Longest - 1

ThreeTokens == {"a", "b", "c"}
Alphabetic == [t \in ThreeTokens |-> CASE t = "a" -> 1 [] t = "b" -> 2 [] t = "c" -> 3]

Row(token, action, out, in) ==
    [token |-> token, action |-> action, amountOut |-> out, amountIn |-> in,
     pair |-> IF action \in {"BUY", "SELL"} THEN token \o "/SOL" ELSE "", ts |-> 0]

(* Lots of one and two units, sales of one and two.                        *)
KindsOfA == {Row("a", "BUY", 2, 2), Row("a", "RECEIVE", 0, 1),
             Row("a", "SELL", 1, 1), Row("a", "TRANSFER", 2, 0)}

(* Rows of seconds 1 to 2; the second of a row is that of the one before   *)
(* or a later one.                                                         *)
Times(n) == {f \in [1..n -> {Second, 2 * Second}] : \A k \in 1..n - 1 : f[k] <= f[k + 1]}
Dated(s, f) == [k \in 1..Len(s) |-> [s[k] EXCEPT !.ts = f[k]]]

(* Everything one token can see in MaxRows rows, and wallets whose tokens  *)
(* keep several goroutines busy.                                           *)
OneToken == UNION {{Dated(s, f) : s \in [1..n -> KindsOfA], f \in Times(n)} : n \in 1..MaxRows}
SeveralTokens == {<<Row("a", "BUY", 1, 1), Row("b", "BUY", 1, 1)>>,
                  <<Row("a", "BUY", 1, 1), Row("a", "SELL", 1, 2), Row("b", "SELL", 1, 2)>>,
                  <<Row("a", "RECEIVE", 0, 1), Row("b", "BUY", 1, 1), Row("c", "SELL", 1, 2)>>,
                  <<Row("a", "BUY", 1, 1), Row("b", "BUY", 1, 1), Row("c", "SELL", 1, 2)>>,
                  Dated(<<Row("a", "BUY", 1, 1), Row("b", "BUY", 1, 1),
                          Row("a", "SELL", 1, 2), Row("b", "SELL", 1, 2)>>,
                        <<Second, Second, 2 * Second, 2 * Second>>)}
Wallets == OneToken \union SeveralTokens

Latest == {NoLatest, [action |-> "BUY", amountOut |-> 3, amountIn |-> 1]}

=============================================================================
