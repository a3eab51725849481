------------------------- MODULE MCWebSocketServer -------------------------
(* A small instance of WebSocketServer for TLC: two connections, and a     *)
(* transaction that trades for two wallets and launches a token.           *)
EXTENDS WebSocketServer, TLC

CONSTANTS c1, c2, t1, u, v

TwoAsks == {[type |-> "wallet", wallets |-> {u}], [type |-> "pf-tokens", wallets |-> {}]}
TradesOf == t1 :> {u, v}
=============================================================================
