-------------------------- MODULE MCBlockProcessor --------------------------
(* A block of three transactions: a PumpFun launch with its mint, a trade  *)
(* with a mint and a burn of the same token, and a plain mint account.     *)
EXTENDS BlockProcessor

CONSTANTS w1, w2, k1, k2

Change(k, n) == [token |-> k, amount |-> n]

ThreeTxs ==
    << [swaps |-> 1, launched |-> <<k1>>, created |-> <<k1, k2>>, burns |-> <<>>,
        mints |-> <<Change(k1, 2)>>],
       [swaps |-> 1, launched |-> <<>>, created |-> <<>>, burns |-> <<Change(k1, 1)>>,
        mints |-> <<Change(k2, 1)>>],
       [swaps |-> 0, launched |-> <<>>, created |-> <<>>, burns |-> <<>>, mints |-> <<>>] >>
=============================================================================
