---------------------------- MODULE MCSwapHandler ----------------------------
(* Model-checking instances of SwapHandler: transactions of up to MaxCalls *)
(* exchange instructions and transfers.                                    *)
EXTENDS SwapHandler

CONSTANT MaxCalls

Quotes   == {"SOL"}
Staking  == {"mSOL"}
Bots     == {"bot"}
Fee      == "fee"

(* A float in small: four binary digits.  Decimals of tenths are multiples *)
(* of 128 and floats from 1/16 on are multiples of 10, both in steps of    *)
(* 1/1280.  0.1, 0.2 and 0.3 are no floats; 0.5, 1 and 2 are.              *)
Tenths(n) == 128 * n

Spacing(n) == CHOOSE q \in {10 * 2^e : e \in 0..10} : /\ n < 16 * q
                                                      /\ q > 10 => n >= 8 * q

Nearest(n) == LET q == Spacing(n)
                  m == n \div q
                  r == 2 * (n % q)
              IN  IF r < q \/ (r = q /\ m % 2 = 0) THEN m * q ELSE (m + 1) * q

ToFloat(n) == IF n < 0 THEN -Nearest(-n) ELSE Nearest(n)

(* One decimal digit, for the ten of big.Float.String.                     *)
OneDigit(n) == IF n < Tenths(10) THEN n
               ELSE Tenths(10) * ((n + Tenths(5)) \div Tenths(10))

NoEvent == [user |-> "", tokenOut |-> "", tokenIn |-> "", paid |-> 0, got |-> 0]

(* The amounts are given in tenths.                                        *)
Leg(parent, c, user, from, to, authority, mint, amount) ==
    [type |-> "token", mint |-> mint, from |-> from, to |-> to,
     authority |-> authority, amount |-> Tenths(amount), parent |-> parent,
     user |-> user, pair |-> parent, event |-> NoEvent, call |-> c]

Plain(from, to, mint, amount) == Leg("", 0, "", from, to, from, mint, amount)

Native(leg) == [leg EXCEPT !.type = "native", !.mint = "SOL", !.authority = ""]

(* The legs of an exchange instruction; a pool has its program's name.     *)
Pay(parent, c, user, mint, amount) == Leg(parent, c, user, user, parent, user, mint, amount)
Get(parent, c, user, mint, amount) == Leg(parent, c, user, parent, user, parent, mint, amount)
FeeOf(parent, c, user, from, to, amount) == Leg(parent, c, user, from, to, from, "SOL", amount)

PumpFun(c, user, out, in, paid, got, legs) ==
    [k \in 1..Len(legs) |->
        [legs[k] EXCEPT !.parent = "pumpfun", !.call = c, !.pair = "curve", !.user = user,
                        !.event = [user |-> user, tokenOut |-> out, tokenIn |-> in,
                                   paid |-> Tenths(paid), got |-> Tenths(got)]]]

AmmBuy(c, user, mint, amount) ==
    <<Get("pumpfun_amm", c, user, mint, amount), Pay("pumpfun_amm", c, user, "SOL", 10),
      FeeOf("pumpfun_amm", c, user, user, "fee2", 1)>>

Calls(c) ==
    { <<Pay("raydium", c, "u", "SOL", 10), Get("raydium", c, "u", "A", 2)>>,
      <<Get("raydium", c, "v", "A", 2), Pay("raydium", c, "v", "SOL", 2)>>,
      <<Pay("raydium_cpmm", c, "u", "A", 2), Get("raydium_cpmm", c, "u", "SOL", 1)>>,
      <<Get("raydium_concentrated", c, "v", "B", 10), Pay("raydium_concentrated", c, "v", "SOL", 10)>>,
      <<Get("raydium_concentrated", c, "bot", "B", 1), Pay("raydium_concentrated", c, "bot", "SOL", 10)>>,
      <<Pay("raydium_cpmm", c, "u", "SOL", 10), Get("raydium_cpmm", c, "u", "mSOL", 9)>>,
      <<Get("pumpfun_amm", c, "u", "SOL", 2), Pay("pumpfun_amm", c, "u", "B", 1)>>,
      AmmBuy(c, "u", "A", 3),
      Append(AmmBuy(c, "v", "B", 2), FeeOf("pumpfun_amm", c, "v", "v", "fee3", 2)),
      <<Pay("pumpfun_amm", c, "u", "A", 3), Get("pumpfun_amm", c, "u", "SOL", 5),
        FeeOf("pumpfun_amm", c, "u", "pumpfun_amm", "fee2", 1)>>,
      <<FeeOf("raydium_launchpad", c, "u", "u", "fee2", 1),
        Pay("raydium_launchpad", c, "u", "SOL", 2), Get("raydium_launchpad", c, "u", "B", 1)>>,
      <<Pay("meteora", c, "v", "A", 1), Get("meteora", c, "v", "SOL", 2)>>,
      <<Pay("orca", c, "u", "A", 1), Get("orca", c, "u", "B", 2)>>,
      <<Pay("ignored", c, "u", "A", 1), Get("ignored", c, "u", "SOL", 1)>>,
      PumpFun(c, "u", "SOL", "B", 12, 2,
              <<Plain("curve", "u", "B", 2), Native(Plain("u", "curve", "SOL", 12)),
                Native(Plain("u", "fee", "SOL", 1))>>),
      PumpFun(c, "v", "B", "SOL", 2, 1, <<Plain("v", "curve", "B", 2)>>),
      PumpFun(c, "v", "B", "SOL", 1, 0, <<Plain("v", "curve", "B", 1)>>) }

(* u passes 0.3 A on to v, and v to w; or, with 0.1 and 0.2, to two.       *)
Moves ==
    { <<Plain("u", "v", "A", 3)>>, <<Plain("v", "w", "A", 3)>>,
      <<Plain("v", "w", "A", 1)>>, <<Plain("v", "x", "A", 2)>>,
      <<Plain("u", "v", "D", 10)>>, <<Plain("v", "w", "D", 5)>>,
      <<Plain("u", "v", "SOL", 1)>>,
      <<Native(Plain("u", "v", "SOL", 1))>>, <<Plain("v", "u", "mSOL", 1)>>,
      <<Plain("v", "bot", "D", 5)>>,
      <<[Plain("u", "", "D", 5) EXCEPT !.type = "burn"]>>,
      <<[Plain("", "v", "D", 10) EXCEPT !.type = "mint", !.authority = "u"]>> }

Transactions ==
    LET Parts(c) == Calls(c) \union Moves
    IN  {p : p \in Parts(1)}
          \union {p \o q : p \in Parts(1), q \in Parts(2)}
          \union (IF MaxCalls < 3 THEN {}
                  ELSE {p \o q \o r : p \in Parts(1), q \in Parts(2), r \in Parts(3)})
=============================================================================
