--------------------------- MODULE MCTokenFinder ---------------------------
(* Small instances of TokenFinder for TLC.                                 *)
EXTENDS TokenFinder, TLC

CONSTANTS t1, t2, p1, p2, a1, a2, w1, w2, v1, r1, g1

(* A mint of unknown metadata, a PumpFun token, and later mints and burns. *)
Creations == {[token |-> t1, creates |-> "unnamed", burns |-> 0, mints |-> 1],
              [token |-> t1, creates |-> "named", burns |-> 0, mints |-> 0],
              [token |-> t1, creates |-> "no", burns |-> 1, mints |-> 0]}

FinderSymmetry == Permutations({a1, a2}) \union Permutations({w1, w2})

=============================================================================
