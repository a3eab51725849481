------------------------------- MODULE Lists -------------------------------
(* Sums of finitely many numbers, and a part of a sequence.                *)
EXTENDS Integers, Sequences

Elements(s) == {s[k] : k \in 1..Len(s)}

(* f[1] + ... + f[n] *)
Total(f, n) == LET sum[k \in 0..n] == IF k = 0 THEN 0 ELSE sum[k - 1] + f[k]
               IN  sum[n]

(* The elements of s that are in S, in their order.                        *)
Keep(s, S) == LET kept[k \in 0..Len(s)] ==
                      IF k = 0 THEN <<>>
                      ELSE IF s[k] \in S THEN Append(kept[k - 1], s[k]) ELSE kept[k - 1]
              IN  kept[Len(s)]
=============================================================================
