---------------------------- MODULE ListTheorems ----------------------------
(***************************************************************************)
(* Induction over the natural numbers in the form the provers can use,     *)
(* with a set in the place of a predicate; that functions defined by       *)
(* recursion exist; and what follows for sums and parts of sequences.      *)
(***************************************************************************)
EXTENDS Lists, Sequences, WellFoundedInduction, TLAPS

(* A set with zero and all successors of its elements has every number.    *)
LEMMA Induction ==
  ASSUME NEW S, 0 \in S, \A n \in Nat : n \in S => n + 1 \in S
  PROVE  \A n \in Nat : n \in S
<1> DEFINE R == {ss \in Nat \X Nat : ss[1] < ss[2]}
           T == Nat \ S
<1> SUFFICES ASSUME T # {} PROVE FALSE
  OBVIOUS
<1>1. IsWellFoundedOn(R, Nat)
  BY NatLessThanWellFounded DEF OpToRel
<1>2. PICK m \in T : \A x \in T : ~(<<x, m>> \in R)
  BY <1>1, WFMin
<1>3. m \in Nat /\ m # 0 /\ m - 1 \in Nat /\ m - 1 < m /\ (m - 1) + 1 = m
  OBVIOUS
<1>4. m - 1 \in S
  BY <1>2, <1>3
<1> QED BY <1>3, <1>4

(* g starts with base and goes on with step, which stays in S.             *)
Iterates(g, base, step, n) == g[0] = base /\ \A i \in 1..n : g[i] = step[<<g[i - 1], i>>]
StaysIn(S, step, n) == \A x \in S : \A i \in 1..n : step[<<x, i>>] \in S

(* There is such a function.                                               *)
LEMMA RecursionExists ==
  ASSUME NEW S, NEW base \in S, NEW n \in Nat, NEW step, StaysIn(S, step, n)
  PROVE  \E g \in [0..n -> S] : Iterates(g, base, step, n)
<1> USE DEF Iterates, StaysIn
<1> DEFINE Upto(m) == \E g \in [0..m -> S] : g[0] = base
                                /\ \A i \in 1..m : g[i] = step[<<g[i - 1], i>>]
           T == {m \in Nat : m <= n => Upto(m)}
<1>1. 0 \in T
  <2> DEFINE g == [i \in 0..0 |-> base]
  <2>1. g \in [0..0 -> S] /\ g[0] = base /\ \A i \in 1..0 : g[i] = step[<<g[i - 1], i>>]
    OBVIOUS
  <2>2. Upto(0)
    BY <2>1
  <2> QED BY <2>2
<1>2. ASSUME NEW m \in Nat, m \in T PROVE m + 1 \in T
  <2> SUFFICES ASSUME m + 1 <= n PROVE Upto(m + 1)
    OBVIOUS
  <2>1. PICK g \in [0..m -> S] : g[0] = base /\ \A i \in 1..m : g[i] = step[<<g[i - 1], i>>]
    BY <1>2
  <2> DEFINE h == [i \in 0..(m + 1) |-> IF i = m + 1 THEN step[<<g[m], m + 1>>] ELSE g[i]]
  <2>2. /\ \A i \in 0..(m + 1) : i = m + 1 \/ i \in 0..m
        /\ m + 1 \in 1..n /\ m \in 0..m
    OBVIOUS
  <2>3. g[m] \in S /\ step[<<g[m], m + 1>>] \in S
    BY <2>1, <2>2
  <2>4. h \in [0..(m + 1) -> S]
    BY <2>1, <2>2, <2>3
  <2>5. h[0] = base
    BY <2>1
  <2>6. ASSUME NEW i \in 1..(m + 1) PROVE h[i] = step[<<h[i - 1], i>>]
    <3>1. h[i - 1] = g[i - 1]
      OBVIOUS
    <3>2. CASE i = m + 1
      <4>1. i - 1 = m /\ h[i] = step[<<g[m], m + 1>>]
        BY <3>2
      <4> HIDE DEF h
      <4> QED BY <3>1, <3>2, <4>1
    <3>3. CASE i # m + 1
      BY <2>1, <3>1, <3>3
    <3> QED BY <3>2, <3>3
  <2> HIDE DEF h
  <2> QED BY <2>4, <2>5, <2>6
<1> HIDE DEF T
<1>3. n \in T
  BY <1>1, <1>2, Induction
<1> QED BY <1>3 DEF T

-----------------------------------------------------------------------------
(* The recursive function of Total.                                        *)
IsSum(g, f, n) == g = [i \in 0..n |-> IF i = 0 THEN 0 ELSE g[i - 1] + f[i]]

(* There is a list of partial sums.                                        *)
LEMMA SumExists ==
  ASSUME NEW n \in Nat, NEW f, \A i \in 1..n : f[i] \in Int
  PROVE  \E g \in [0..n -> Int] : IsSum(g, f, n)
<1> DEFINE step == [p \in Int \X (1..n) |-> p[1] + f[p[2]]]
<1>1. \A x \in Int : \A i \in 1..n : step[<<x, i>>] = x + f[i]
  OBVIOUS
<1>2. \A x \in Int : \A i \in 1..n : step[<<x, i>>] \in Int
  OBVIOUS
<1> HIDE DEF step
<1>3. PICK g \in [0..n -> Int] : Iterates(g, 0, step, n)
  <2>1. StaysIn(Int, step, n)
    BY <1>2 DEF StaysIn
  <2>2. 0 \in Int
    OBVIOUS
  <2> QED BY ONLY n \in Nat, <2>1, <2>2, RecursionExists
<1>4. ASSUME NEW i \in 1..n PROVE g[i] = g[i - 1] + f[i]
  <2>1. i - 1 \in 0..n
    OBVIOUS
  <2>2. g[i - 1] \in Int
    BY <2>1
  <2> QED BY <1>1, <1>3, <2>2 DEF Iterates
<1>5. \A i \in 0..n : g[i] = IF i = 0 THEN 0 ELSE g[i - 1] + f[i]
  BY <1>3, <1>4 DEF Iterates
<1>6. g = [i \in 0..n |-> IF i = 0 THEN 0 ELSE g[i - 1] + f[i]]
  BY <1>5
<1> QED BY <1>6 DEF IsSum

(* Partial sums of lists that agree are equal.                             *)
LEMMA SumUnique ==
  ASSUME NEW n \in Nat, NEW m \in Nat, NEW f, NEW k, NEW g, NEW h,
         IsSum(g, f, n), IsSum(h, k, m),
         NEW l \in Nat, l <= n, l <= m, \A i \in 1..l : f[i] = k[i]
  PROVE  g[l] = h[l]
<1> DEFINE T == {i \in Nat : i <= l => g[i] = h[i]}
<1>1. /\ \A i \in 0..n : g[i] = IF i = 0 THEN 0 ELSE g[i - 1] + f[i]
      /\ \A i \in 0..m : h[i] = IF i = 0 THEN 0 ELSE h[i - 1] + k[i]
  BY DEF IsSum
<1>2. 0 \in T
  BY <1>1
<1>3. ASSUME NEW i \in Nat, i \in T PROVE i + 1 \in T
  <2> SUFFICES ASSUME i + 1 <= l PROVE g[i + 1] = h[i + 1]
    OBVIOUS
  <2>1. i + 1 \in 0..n /\ i + 1 \in 0..m /\ i + 1 \in 1..l /\ (i + 1) - 1 = i /\ i + 1 # 0
    OBVIOUS
  <2>2. g[i] = h[i]
    BY <1>3
  <2>3. g[i + 1] = g[i] + f[i + 1] /\ h[i + 1] = h[i] + k[i + 1]
    BY <1>1, <2>1
  <2> QED BY <2>1, <2>2, <2>3
<1> HIDE DEF T
<1>4. l \in T
  BY <1>2, <1>3, Induction
<1> QED BY <1>4 DEF T

(* Total is the last value of any such function.                           *)
LEMMA TotalIs ==
  ASSUME NEW n \in Nat, NEW f, \A i \in 1..n : f[i] \in Int
  PROVE  \E g \in [0..n -> Int] : IsSum(g, f, n) /\ Total(f, n) = g[n]
<1> DEFINE sum == CHOOSE g : g = [i \in 0..n |-> IF i = 0 THEN 0 ELSE g[i - 1] + f[i]]
<1>1. PICK g \in [0..n -> Int] : IsSum(g, f, n)
  BY SumExists
<1>2. IsSum(sum, f, n)
  BY <1>1 DEF IsSum
<1>3. Total(f, n) = sum[n]
  BY DEF Total
<1>4. sum[n] = g[n]
  BY <1>1, <1>2, SumUnique
<1> QED BY <1>1, <1>3, <1>4

(* A sum is a number, and adding a summand adds it.                        *)
LEMMA TotalStep ==
  ASSUME NEW n \in Nat, NEW f, \A i \in 1..(n + 1) : f[i] \in Int
  PROVE  /\ Total(f, n) \in Int
         /\ Total(f, n + 1) = Total(f, n) + f[n + 1]
<1>1. \A i \in 1..n : f[i] \in Int
  OBVIOUS
<1>2. PICK g \in [0..n -> Int] : IsSum(g, f, n) /\ Total(f, n) = g[n]
  BY <1>1, TotalIs
<1>3. PICK h \in [0..(n + 1) -> Int] : IsSum(h, f, n + 1) /\ Total(f, n + 1) = h[n + 1]
  <2>1. n + 1 \in Nat
    OBVIOUS
  <2> QED BY <2>1, TotalIs
<1>4. g[n] = h[n]
  BY <1>2, <1>3, SumUnique
<1>5. h[n + 1] = h[n] + f[n + 1]
  BY <1>3 DEF IsSum
<1> QED BY <1>2, <1>3, <1>4, <1>5

(* A sum of integers is an integer.                                        *)
LEMMA TotalInt ==
  ASSUME NEW n \in Nat, NEW f, \A i \in 1..n : f[i] \in Int
  PROVE  Total(f, n) \in Int
<1>1. PICK g \in [0..n -> Int] : Total(f, n) = g[n]
  BY TotalIs
<1> QED BY <1>1

(* The empty sum is 0.                                                     *)
LEMMA TotalZero == ASSUME NEW f PROVE Total(f, 0) = 0
<1>1. PICK g \in [0..0 -> Int] : IsSum(g, f, 0) /\ Total(f, 0) = g[0]
  <2>1. \A i \in 1..0 : f[i] \in Int
    OBVIOUS
  <2> QED BY <2>1, TotalIs
<1> QED BY <1>1 DEF IsSum

(* Only the summands matter.                                               *)
LEMMA TotalSame ==
  ASSUME NEW n \in Nat, NEW f, NEW k, \A i \in 1..n : f[i] \in Int /\ f[i] = k[i]
  PROVE  Total(f, n) = Total(k, n)
<1>1. PICK g \in [0..n -> Int] : IsSum(g, f, n) /\ Total(f, n) = g[n]
  BY TotalIs
<1>2. PICK h \in [0..n -> Int] : IsSum(h, k, n) /\ Total(k, n) = h[n]
  BY TotalIs
<1>3. g[n] = h[n]
  BY <1>1, <1>2, SumUnique
<1> QED BY <1>1, <1>2, <1>3

(* Larger summands, larger sum.                                            *)
LEMMA TotalMonotone ==
  ASSUME NEW n \in Nat, NEW f, NEW k,
         \A i \in 1..n : f[i] \in Int /\ k[i] \in Int /\ f[i] <= k[i]
  PROVE  Total(f, n) <= Total(k, n)
<1> DEFINE T == {m \in Nat : m <= n => Total(f, m) <= Total(k, m)}
<1>1. 0 \in T
  BY TotalZero
<1>2. ASSUME NEW m \in Nat, m \in T PROVE m + 1 \in T
  <2> SUFFICES ASSUME m + 1 <= n PROVE Total(f, m + 1) <= Total(k, m + 1)
    OBVIOUS
  <2>1. m + 1 \in 1..n /\ \A i \in 1..(m + 1) : i \in 1..n
    OBVIOUS
  <2>2. /\ Total(f, m) \in Int /\ Total(f, m + 1) = Total(f, m) + f[m + 1]
        /\ Total(k, m) \in Int /\ Total(k, m + 1) = Total(k, m) + k[m + 1]
    BY <2>1, TotalStep
  <2>3. Total(f, m) <= Total(k, m)
    BY <1>2
  <2> QED BY <2>1, <2>2, <2>3
<1> HIDE DEF T
<1>3. n \in T
  BY <1>1, <1>2, Induction
<1> QED BY <1>3 DEF T

(* A sum of zeros is 0.                                                    *)
LEMMA TotalOfZeros ==
  ASSUME NEW n \in Nat, NEW f, \A i \in 1..n : f[i] = 0
  PROVE  Total(f, n) = 0
<1> DEFINE T == {m \in Nat : m <= n => Total(f, m) = 0}
<1>1. 0 \in T
  BY TotalZero
<1>2. ASSUME NEW m \in Nat, m \in T PROVE m + 1 \in T
  <2> SUFFICES ASSUME m + 1 <= n PROVE Total(f, m + 1) = 0
    OBVIOUS
  <2>1. m + 1 \in 1..n /\ \A i \in 1..(m + 1) : f[i] \in Int
    OBVIOUS
  <2>2. Total(f, m + 1) = Total(f, m) + f[m + 1]
    BY <2>1, TotalStep
  <2> QED BY <1>2, <2>1, <2>2
<1> HIDE DEF T
<1>3. n \in T
  BY <1>1, <1>2, Induction
<1> QED BY <1>3 DEF T

(* A sum of natural numbers is one.                                        *)
LEMMA TotalNat ==
  ASSUME NEW n \in Nat, NEW f, \A i \in 1..n : f[i] \in Nat
  PROVE  Total(f, n) \in Nat
<1> DEFINE z == [i \in 1..n |-> 0]
<1>1. Total(z, n) = 0
  BY TotalOfZeros
<1>2. Total(z, n) <= Total(f, n)
  BY TotalMonotone
<1>3. Total(f, n) \in Int
  BY TotalInt
<1> QED BY <1>1, <1>2, <1>3

(* One summand is replaced.                                                *)
LEMMA TotalUpdate ==
  ASSUME NEW n \in Nat, NEW f, NEW k, NEW t \in 1..n,
         \A i \in 1..n : f[i] \in Int /\ k[i] \in Int /\ (i # t => f[i] = k[i])
  PROVE  Total(k, n) = Total(f, n) + k[t] - f[t]
<1> DEFINE T == {m \in Nat : m <= n =>
                    Total(k, m) = IF m < t THEN Total(f, m) ELSE Total(f, m) + k[t] - f[t]}
<1>1. 0 \in T
  BY TotalZero
<1>2. ASSUME NEW m \in Nat, m \in T PROVE m + 1 \in T
  <2> SUFFICES ASSUME m + 1 <= n
               PROVE  Total(k, m + 1) = IF m + 1 < t THEN Total(f, m + 1)
                                                     ELSE Total(f, m + 1) + k[t] - f[t]
    OBVIOUS
  <2>1. m + 1 \in 1..n /\ \A i \in 1..(m + 1) : i \in 1..n
    OBVIOUS
  <2>2. /\ Total(f, m) \in Int /\ Total(f, m + 1) = Total(f, m) + f[m + 1]
        /\ Total(k, m) \in Int /\ Total(k, m + 1) = Total(k, m) + k[m + 1]
    BY <2>1, TotalStep
  <2>3. Total(k, m) = IF m < t THEN Total(f, m) ELSE Total(f, m) + k[t] - f[t]
    BY <1>2
  <2>4. /\ f[t] \in Int /\ k[t] \in Int /\ f[m + 1] \in Int /\ k[m + 1] \in Int
        /\ m + 1 # t => f[m + 1] = k[m + 1]
    BY <2>1
  <2> QED BY <2>2, <2>3, <2>4
<1> HIDE DEF T
<1>3. n \in T
  BY <1>1, <1>2, Induction
<1> QED BY <1>3 DEF T

(* A sum in two parts.                                                     *)
LEMMA TotalSplit ==
  ASSUME NEW m \in Nat, NEW n \in Nat, NEW f, NEW k,
         \A i \in 1..(m + n) : f[i] \in Int,
         \A i \in 1..n : k[i] = f[m + i]
  PROVE  Total(f, m + n) = Total(f, m) + Total(k, n)
<1> DEFINE T == {l \in Nat : l <= n => Total(f, m + l) = Total(f, m) + Total(k, l)}
<1>1. 0 \in T
  <2>1. \A i \in 1..m : f[i] \in Int
    OBVIOUS
  <2>2. Total(f, m) \in Int /\ Total(k, 0) = 0 /\ m + 0 = m
    BY <2>1, TotalInt, TotalZero
  <2> QED BY <2>2
<1>2. ASSUME NEW l \in Nat, l \in T PROVE l + 1 \in T
  <2> SUFFICES ASSUME l + 1 <= n PROVE Total(f, m + (l + 1)) = Total(f, m) + Total(k, l + 1)
    OBVIOUS
  <2>1. /\ \A i \in 1..(l + 1) : i \in 1..n /\ m + i \in 1..(m + n)
        /\ \A i \in 1..((m + l) + 1) : i \in 1..(m + n)
        /\ \A i \in 1..m : i \in 1..(m + n)
        /\ m + l \in Nat /\ l + 1 \in 1..(l + 1) /\ m + (l + 1) = (m + l) + 1
    OBVIOUS
  <2>2. \A i \in 1..(l + 1) : k[i] \in Int
    BY <2>1
  <2>3. /\ Total(k, l) \in Int /\ Total(k, l + 1) = Total(k, l) + k[l + 1]
    BY <2>2, TotalStep
  <2>4. Total(f, m + l) \in Int /\ Total(f, (m + l) + 1) = Total(f, m + l) + f[(m + l) + 1]
    BY <2>1, TotalStep
  <2>5. Total(f, m) \in Int
    BY <2>1, TotalInt
  <2>6. k[l + 1] = f[(m + l) + 1] /\ k[l + 1] \in Int
    BY <2>1, <2>2
  <2>7. Total(f, m + l) = Total(f, m) + Total(k, l)
    BY <1>2
  <2> QED BY <2>1, <2>3, <2>4, <2>5, <2>6, <2>7
<1> HIDE DEF T
<1>3. n \in T
  BY <1>1, <1>2, Induction
<1> QED BY <1>3 DEF T
(* Equal summands at the end.                                              *)
LEMMA TotalConstant ==
  ASSUME NEW m \in Nat, NEW n \in Nat, NEW f, NEW v \in Int,
         \A i \in 1..(m + n) : f[i] \in Int,
         \A i \in (m + 1)..(m + n) : f[i] = v
  PROVE  Total(f, m + n) = Total(f, m) + v * n
<1> DEFINE T == {l \in Nat : l <= n => Total(f, m + l) = Total(f, m) + v * l}
<1>1. Total(f, m) \in Int
  <2>1. \A i \in 1..m : f[i] \in Int
    OBVIOUS
  <2> QED BY <2>1, TotalInt
<1>2. 0 \in T
  <2>1. m + 0 = m /\ v * 0 = 0
    OBVIOUS
  <2> QED BY <1>1, <2>1
<1>3. ASSUME NEW l \in Nat, l \in T PROVE l + 1 \in T
  <2> SUFFICES ASSUME l + 1 <= n PROVE Total(f, m + (l + 1)) = Total(f, m) + v * (l + 1)
    OBVIOUS
  <2>1. /\ m + l \in Nat /\ m + (l + 1) = (m + l) + 1
        /\ \A i \in 1..((m + l) + 1) : i \in 1..(m + n)
        /\ (m + l) + 1 \in (m + 1)..(m + n)
    OBVIOUS
  <2>2. /\ Total(f, m + l) \in Int
        /\ Total(f, (m + l) + 1) = Total(f, m + l) + f[(m + l) + 1]
    BY <2>1, TotalStep
  <2>3. f[(m + l) + 1] = v
    BY <2>1
  <2>4. Total(f, m + l) = Total(f, m) + v * l
    BY <1>3
  <2>5. v * l \in Int /\ v * (l + 1) = v * l + v
    OBVIOUS
  <2> QED BY <1>1, <2>1, <2>2, <2>3, <2>4, <2>5
<1> HIDE DEF T
<1>4. n \in T
  BY <1>2, <1>3, Induction
<1> QED BY <1>4 DEF T

(* The sum of sums.                                                        *)
LEMMA TotalPlus ==
  ASSUME NEW n \in Nat, NEW f, NEW k, NEW h,
         \A i \in 1..n : f[i] \in Int /\ k[i] \in Int /\ h[i] = f[i] + k[i]
  PROVE  Total(h, n) = Total(f, n) + Total(k, n)
<1> DEFINE T == {m \in Nat : m <= n => Total(h, m) = Total(f, m) + Total(k, m)}
<1>1. 0 \in T
  BY TotalZero
<1>2. ASSUME NEW m \in Nat, m \in T PROVE m + 1 \in T
  <2> SUFFICES ASSUME m + 1 <= n PROVE Total(h, m + 1) = Total(f, m + 1) + Total(k, m + 1)
    OBVIOUS
  <2>1. m + 1 \in 1..n /\ \A i \in 1..(m + 1) : i \in 1..n
    OBVIOUS
  <2>2. \A i \in 1..(m + 1) : f[i] \in Int /\ k[i] \in Int /\ h[i] \in Int
    BY <2>1
  <2>3. /\ Total(f, m) \in Int /\ Total(f, m + 1) = Total(f, m) + f[m + 1]
        /\ Total(k, m) \in Int /\ Total(k, m + 1) = Total(k, m) + k[m + 1]
        /\ Total(h, m) \in Int /\ Total(h, m + 1) = Total(h, m) + h[m + 1]
    BY <2>2, TotalStep
  <2>4. /\ f[m + 1] \in Int /\ k[m + 1] \in Int /\ h[m + 1] = f[m + 1] + k[m + 1]
        /\ Total(h, m) = Total(f, m) + Total(k, m)
    BY <1>2, <2>1
  <2> QED BY <2>3, <2>4
<1> HIDE DEF T
<1>3. n \in T
  BY <1>1, <1>2, Induction
<1> QED BY <1>3 DEF T

(* The amounts in groups, each of an owner: what belongs to the groups     *)
(* that add up to 0.                                                       *)
Settles(n, amt, owner, group, bal, out) ==
    /\ \A i \in 1..n : amt[i] \in Int
    /\ \A i, j \in 1..n : group[i][j] = IF owner[j] = owner[i] THEN amt[j] ELSE 0
    /\ \A i \in 1..n : bal[i] = Total(group[i], n)
    /\ \A i \in 1..n : out[i] = IF bal[i] = 0 THEN amt[i] ELSE 0

(* It adds up to 0.                                                        *)
LEMMA SettledGroups ==
  ASSUME NEW n \in Nat, NEW amt, NEW owner, NEW group, NEW bal, NEW out,
         Settles(n, amt, owner, group, bal, out)
  PROVE  Total(out, n) = 0
<1>0. /\ \A i \in 1..n : amt[i] \in Int
      /\ \A i, j \in 1..n : group[i][j] = IF owner[j] = owner[i] THEN amt[j] ELSE 0
      /\ \A i \in 1..n : bal[i] = Total(group[i], n)
      /\ \A i \in 1..n : out[i] = IF bal[i] = 0 THEN amt[i] ELSE 0
  BY DEF Settles
<1> USE <1>0
<1> DEFINE z(m) == [i \in 1..n |-> IF bal[i] = 0 /\ \E j \in 1..m : owner[j] = owner[i]
                                    THEN amt[i] ELSE 0]
           T == {m \in Nat : m <= n => Total(z(m), n) = 0}
<1>1. 0 \in T
  <2>1. \A i \in 1..n : z(0)[i] = 0
    OBVIOUS
  <2> HIDE DEF z
  <2>2. Total(z(0), n) = 0
    BY <2>1, TotalOfZeros
  <2> QED BY <2>2
<1>2. ASSUME NEW m \in Nat, m \in T PROVE m + 1 \in T
  <2> SUFFICES ASSUME m + 1 <= n PROVE Total(z(m + 1), n) = 0
    OBVIOUS
  <2>1. m + 1 \in 1..n /\ \A j \in 1..(m + 1) : j \in 1..m \/ j = m + 1
    OBVIOUS
  <2>2. PICK g : g = group[m + 1]
    OBVIOUS
  <2>3. /\ \A i \in 1..n : z(m)[i] \in Int /\ g[i] \in Int
        /\ Total(z(m), n) = 0
    <3>1. \A i \in 1..n : z(m)[i] \in Int
      OBVIOUS
    <3>2. \A i \in 1..n : g[i] \in Int
      BY <2>1, <2>2
    <3> QED BY <1>2, <3>1, <3>2
  <2>4. CASE bal[m + 1] # 0 \/ \E j \in 1..m : owner[j] = owner[m + 1]
    <3>1. \A i \in 1..n : owner[i] = owner[m + 1] => bal[i] = bal[m + 1]
      <4> SUFFICES ASSUME NEW i \in 1..n, owner[i] = owner[m + 1] PROVE bal[i] = bal[m + 1]
        OBVIOUS
      <4>1. \A j \in 1..n : group[i][j] \in Int /\ group[i][j] = g[j]
        BY <2>1, <2>2
      <4>2. Total(group[i], n) = Total(g, n)
        BY <4>1, TotalSame
      <4>3. bal[i] = Total(group[i], n) /\ bal[m + 1] = Total(g, n)
        BY ONLY <1>0, <2>1, <2>2, i \in 1..n
      <4> QED BY ONLY <4>2, <4>3
    <3>2. \A i \in 1..n : z(m)[i] = z(m + 1)[i]
      BY <2>1, <2>4, <3>1
    <3>3. PICK a, b : a = z(m) /\ b = z(m + 1)
      OBVIOUS
    <3> HIDE DEF z
    <3>4. \A i \in 1..n : a[i] \in Int /\ a[i] = b[i]
      BY ONLY <2>3, <3>2, <3>3
    <3>5. Total(a, n) = Total(b, n)
      BY ONLY n \in Nat, <3>4, TotalSame
    <3> QED BY ONLY <2>3, <3>3, <3>5
  <2>5. CASE bal[m + 1] = 0 /\ ~\E j \in 1..m : owner[j] = owner[m + 1]
    <3>1. \A i \in 1..n : owner[i] = owner[m + 1] => bal[i] = 0
      <4> SUFFICES ASSUME NEW i \in 1..n, owner[i] = owner[m + 1] PROVE bal[i] = 0
        OBVIOUS
      <4>1. \A j \in 1..n : group[i][j] \in Int /\ group[i][j] = g[j]
        BY <2>1, <2>2
      <4>2. Total(group[i], n) = Total(g, n)
        BY <4>1, TotalSame
      <4>3. bal[i] = Total(group[i], n) /\ bal[m + 1] = Total(g, n)
        BY ONLY <1>0, <2>1, <2>2, i \in 1..n
      <4> QED BY ONLY <2>5, <4>2, <4>3
    <3>2. \A i \in 1..n : z(m + 1)[i] = z(m)[i] + g[i]
      <4> SUFFICES ASSUME NEW i \in 1..n PROVE z(m + 1)[i] = z(m)[i] + g[i]
        OBVIOUS
      <4>1. CASE owner[i] = owner[m + 1]
        BY <2>1, <2>2, <2>5, <3>1, <4>1
      <4>2. CASE owner[i] # owner[m + 1]
        <5>1. g[i] = 0
          BY <2>1, <2>2, <4>2
        <5>2. z(m + 1)[i] = z(m)[i]
          BY <2>1, <4>2
        <5> QED BY <2>3, <5>1, <5>2
      <4> QED BY <4>1, <4>2
    <3>3. Total(g, n) = 0
      BY <2>1, <2>2, <2>5
    <3> HIDE DEF z
    <3>4. Total(z(m + 1), n) = Total(z(m), n) + Total(g, n)
      BY <2>3, <3>2, TotalPlus
    <3> QED BY <2>3, <3>3, <3>4
  <2> QED BY <2>4, <2>5
<1>3. \A i \in 1..n : out[i] \in Int /\ out[i] = z(n)[i]
  OBVIOUS
<1> HIDE DEF T, z
<1>4. n \in T
  BY <1>1, <1>2, Induction
<1>5. Total(out, n) = Total(z(n), n)
  BY <1>3, TotalSame
<1> QED BY <1>4, <1>5 DEF T

-----------------------------------------------------------------------------
(* The recursive function of Keep.                                         *)
IsKept(g, s, S) ==
    /\ g[0] = <<>>
    /\ \A k \in 1..Len(s) : g[k] = IF s[k] \in S THEN Append(g[k - 1], s[k]) ELSE g[k - 1]

(* Keep is the last of its lists, one for every beginning of the sequence. *)
LEMMA KeepIs ==
  ASSUME NEW X, NEW s \in Seq(X), NEW S
  PROVE  \E g \in [0..Len(s) -> Seq(X \intersect S)] : IsKept(g, s, S) /\ Keep(s, S) = g[Len(s)]
<1> DEFINE n == Len(s)
           Y == X \intersect S
           step == [p \in Seq(Y) \X (1..n) |->
                       IF s[p[2]] \in S THEN Append(p[1], s[p[2]]) ELSE p[1]]
           kept == CHOOSE g : g = [k \in 0..n |->
                       IF k = 0 THEN <<>>
                       ELSE IF s[k] \in S THEN Append(g[k - 1], s[k]) ELSE g[k - 1]]
<1>1. n \in Nat /\ \A k \in 1..n : s[k] \in X
  OBVIOUS
<1>2. \A z \in Seq(Y) : \A k \in 1..n :
        step[<<z, k>>] = IF s[k] \in S THEN Append(z, s[k]) ELSE z
  OBVIOUS
<1>3. \A z \in Seq(Y) : \A k \in 1..n : step[<<z, k>>] \in Seq(Y)
  <2> SUFFICES ASSUME NEW z \in Seq(Y), NEW k \in 1..n PROVE step[<<z, k>>] \in Seq(Y)
    OBVIOUS
  <2>1. s[k] \in S => s[k] \in Y
    BY <1>1
  <2> HIDE DEF Y
  <2>2. s[k] \in S => Append(z, s[k]) \in Seq(Y)
    BY <2>1
  <2>3. step[<<z, k>>] = IF s[k] \in S THEN Append(z, s[k]) ELSE z
    BY <1>2
  <2> HIDE DEF step
  <2> QED BY <2>2, <2>3
<1> HIDE DEF step, n
<1>4. PICK g \in [0..n -> Seq(Y)] : Iterates(g, <<>>, step, n)
  <2>1. StaysIn(Seq(Y), step, n)
    BY <1>3 DEF StaysIn
  <2>2. <<>> \in Seq(Y)
    OBVIOUS
  <2> QED BY ONLY <1>1, <2>1, <2>2, RecursionExists
<1>5. ASSUME NEW k \in 1..n
      PROVE  g[k] = IF s[k] \in S THEN Append(g[k - 1], s[k]) ELSE g[k - 1]
  <2>1. k - 1 \in 0..n /\ g[k - 1] \in Seq(Y)
    BY <1>1
  <2> QED BY <1>2, <1>4, <2>1 DEF Iterates
<1>6. g = [k \in 0..n |-> IF k = 0 THEN <<>>
                          ELSE IF s[k] \in S THEN Append(g[k - 1], s[k]) ELSE g[k - 1]]
  <2>1. g[0] = <<>> /\ DOMAIN g = 0..n /\ g = [k \in 0..n |-> g[k]]
    BY <1>4 DEF Iterates
  <2>2. ASSUME NEW k \in 0..n
        PROVE  g[k] = IF k = 0 THEN <<>>
                      ELSE IF s[k] \in S THEN Append(g[k - 1], s[k]) ELSE g[k - 1]
    <3>1. k # 0 => k \in 1..n
      BY <1>1
    <3> QED BY <1>5, <2>1, <3>1
  <2> QED BY ONLY <2>1, <2>2
<1>7. kept = [k \in 0..n |-> IF k = 0 THEN <<>>
                             ELSE IF s[k] \in S THEN Append(kept[k - 1], s[k]) ELSE kept[k - 1]]
  BY <1>6
<1> HIDE DEF kept
<1> DEFINE T == {k \in Nat : k <= n => kept[k] = g[k]}
<1>8. 0 \in T
  <2>1. 0 \in 0..n
    BY <1>1
  <2> QED BY <1>4, <1>7, <2>1 DEF Iterates
<1>9. ASSUME NEW k \in Nat, k \in T PROVE k + 1 \in T
  <2> SUFFICES ASSUME k + 1 <= n PROVE kept[k + 1] = g[k + 1]
    OBVIOUS
  <2>1. k + 1 \in 0..n /\ k + 1 \in 1..n /\ k + 1 # 0 /\ (k + 1) - 1 = k /\ kept[k] = g[k]
    BY <1>1, <1>9
  <2>2. kept[k + 1] = IF s[k + 1] \in S THEN Append(kept[k], s[k + 1]) ELSE kept[k]
    <3>1. kept[k + 1] = IF k + 1 = 0 THEN <<>>
                        ELSE IF s[k + 1] \in S THEN Append(kept[(k + 1) - 1], s[k + 1])
                        ELSE kept[(k + 1) - 1]
      BY ONLY <1>7, <2>1
    <3> QED BY ONLY <2>1, <3>1
  <2>3. g[k + 1] = IF s[k + 1] \in S THEN Append(g[k], s[k + 1]) ELSE g[k]
    BY <1>5, <2>1
  <2> QED BY <2>1, <2>2, <2>3
<1> HIDE DEF T
<1>10. n \in T
  BY <1>1, <1>8, <1>9, Induction
<1>11. Keep(s, S) = kept[n]
  BY DEF Keep, kept, n
<1>12. IsKept(g, s, S)
  BY <1>4, <1>5 DEF IsKept, Iterates, n
<1> QED BY <1>1, <1>10, <1>11, <1>12 DEF T, n

(* A part of a sequence is a sequence, of elements that are kept.          *)
LEMMA KeepSeq ==
  ASSUME NEW X, NEW s \in Seq(X), NEW S
  PROVE  Keep(s, S) \in Seq(X \intersect S)
<1>1. PICK g \in [0..Len(s) -> Seq(X \intersect S)] : Keep(s, S) = g[Len(s)]
  <2>1. \E g \in [0..Len(s) -> Seq(X \intersect S)] : IsKept(g, s, S) /\ Keep(s, S) = g[Len(s)]
    BY ONLY s \in Seq(X), KeepIs
  <2> QED BY ONLY <2>1
<1>2. Len(s) \in 0..Len(s)
  OBVIOUS
<1> QED BY <1>1, <1>2

(* The elements of the part have their places in the sequence, each its own. *)
PlacedIn(z, s, n) == \E p \in [1..Len(z) -> 1..n] :
                        /\ \A i, j \in 1..Len(z) : p[i] = p[j] => i = j
                        /\ \A i \in 1..Len(z) : z[i] = s[p[i]]

(* The elements that are kept come from different places, in their order.  *)
LEMMA KeepPlaces ==
  ASSUME NEW X, NEW s \in Seq(X), NEW S
  PROVE  PlacedIn(Keep(s, S), s, Len(s))
<1> DEFINE n == Len(s)
           Y == X \intersect S
<1>1. PICK g \in [0..n -> Seq(Y)] : IsKept(g, s, S) /\ Keep(s, S) = g[n]
  <2>1. \E g \in [0..Len(s) -> Seq(X \intersect S)] : IsKept(g, s, S) /\ Keep(s, S) = g[Len(s)]
    BY ONLY s \in Seq(X), KeepIs
  <2> QED BY ONLY <2>1
<1>2. n \in Nat
  OBVIOUS
<1> HIDE DEF n, Y
<1> DEFINE T == {m \in Nat : m <= n => PlacedIn(g[m], s, m)}
<1>3. 0 \in T
  <2>1. g[0] = <<>> /\ Len(<<>>) = 0
    BY <1>1 DEF IsKept
  <2>2. PICK p : p = [i \in 1..0 |-> 0]
    OBVIOUS
  <2>3. p \in [1..0 -> 1..0]
    BY <2>2
  <2> QED BY <2>1, <2>3 DEF PlacedIn
<1>4. ASSUME NEW m \in Nat, m \in T PROVE m + 1 \in T
  <2> SUFFICES ASSUME m + 1 <= n PROVE PlacedIn(g[m + 1], s, m + 1)
    OBVIOUS
  <2>1. m + 1 \in 1..n /\ m \in 0..n /\ (m + 1) - 1 = m /\ g[m] \in Seq(Y)
    BY <1>1, <1>2
  <2>2. g[m + 1] = IF s[m + 1] \in S THEN Append(g[m], s[m + 1]) ELSE g[m]
    BY <1>1, <2>1 DEF IsKept, n
  <2>3. PICK z, l : z = g[m] /\ l = Len(z)
    OBVIOUS
  <2>4. l \in Nat /\ z \in Seq(Y)
    BY <2>1, <2>3
  <2>5. PICK p \in [1..l -> 1..m] : /\ \A i, j \in 1..l : p[i] = p[j] => i = j
                                    /\ \A i \in 1..l : z[i] = s[p[i]]
    <3>1. m <= n /\ PlacedIn(z, s, m)
      BY <1>2, <1>4, <2>3
    <3> QED BY ONLY <2>3, <3>1 DEF PlacedIn
  <2>6. CASE s[m + 1] \notin S
    <3>1. p \in [1..l -> 1..(m + 1)]
      OBVIOUS
    <3> QED BY <2>2, <2>3, <2>5, <2>6, <3>1 DEF PlacedIn
  <2>7. CASE s[m + 1] \in S
    <3>1. PICK y : y = g[m + 1]
      OBVIOUS
    <3>2. y = Append(z, s[m + 1])
      BY <2>2, <2>3, <2>7, <3>1
    <3>3. Len(y) = l + 1 /\ y[l + 1] = s[m + 1] /\ \A i \in 1..l : y[i] = z[i]
      BY <2>3, <2>4, <3>2
    <3> DEFINE q == [i \in 1..(l + 1) |-> IF i = l + 1 THEN m + 1 ELSE p[i]]
    <3>4. \A i \in 1..(l + 1) : i = l + 1 \/ i \in 1..l
      BY <2>4
    <3>5. /\ q[l + 1] = m + 1
          /\ \A i \in 1..l : q[i] = p[i] /\ p[i] \in 1..m
      BY <2>4
    <3>6. q \in [1..(l + 1) -> 1..(m + 1)]
      <4>1. \A i \in 1..l : p[i] \in 1..(m + 1)
        OBVIOUS
      <4> QED BY <3>4, <4>1
    <3> HIDE DEF q
    <3>7. \A i, j \in 1..(l + 1) : q[i] = q[j] => i = j
      BY <2>5, <3>4, <3>5
    <3>8. \A i \in 1..(l + 1) : y[i] = s[q[i]]
      BY <2>5, <3>3, <3>4, <3>5
    <3>9. Len(g[m + 1]) = l + 1 /\ \A i \in 1..(l + 1) : g[m + 1][i] = s[q[i]]
      BY ONLY <3>1, <3>3, <3>8
    <3>10. \E r \in [1..Len(g[m + 1]) -> 1..(m + 1)] :
               /\ \A i, j \in 1..Len(g[m + 1]) : r[i] = r[j] => i = j
               /\ \A i \in 1..Len(g[m + 1]) : g[m + 1][i] = s[r[i]]
      <4>1. q \in [1..Len(g[m + 1]) -> 1..(m + 1)]
        BY ONLY <3>6, <3>9
      <4>2. \A i, j \in 1..Len(g[m + 1]) : q[i] = q[j] => i = j
        BY ONLY <3>7, <3>9
      <4>3. \A i \in 1..Len(g[m + 1]) : g[m + 1][i] = s[q[i]]
        BY ONLY <3>9
      <4> QED BY ONLY <4>1, <4>2, <4>3
    <3> QED BY ONLY <3>10 DEF PlacedIn
  <2> QED BY <2>6, <2>7
<1> HIDE DEF T
<1>5. n \in T
  BY <1>2, <1>3, <1>4, Induction
<1> QED BY <1>1, <1>2, <1>5 DEF T, n

(* The sum over the elements that are kept, each with its weight.          *)
LEMMA KeepTotal ==
  ASSUME NEW X, NEW s \in Seq(X), NEW S, NEW w, \A x \in X : w[x] \in Int,
         NEW f, \A i \in 1..Len(Keep(s, S)) : f[i] = w[Keep(s, S)[i]],
         NEW h, \A i \in 1..Len(s) : h[i] = IF s[i] \in S THEN w[s[i]] ELSE 0
  PROVE  Total(f, Len(Keep(s, S))) = Total(h, Len(s))
<1> DEFINE n == Len(s)
           Y == X \intersect S
<1>1. PICK g \in [0..n -> Seq(Y)] : IsKept(g, s, S) /\ Keep(s, S) = g[n]
  <2>1. \E g \in [0..Len(s) -> Seq(X \intersect S)] : IsKept(g, s, S) /\ Keep(s, S) = g[Len(s)]
    BY ONLY s \in Seq(X), KeepIs
  <2> QED BY ONLY <2>1
<1>2. n \in Nat /\ \A i \in 1..n : s[i] \in X
  OBVIOUS
<1>3. \A x \in Y : w[x] \in Int
  OBVIOUS
<1>4. \A i \in 1..n : h[i] \in Int
  BY <1>2
<1> HIDE DEF n, Y
<1> DEFINE v(z) == [i \in 1..Len(z) |-> w[z[i]]]
           T == {m \in Nat : m <= n => Total(v(g[m]), Len(g[m])) = Total(h, m)}
<1>5. 0 \in T
  <2>1. g[0] = <<>> /\ Len(<<>>) = 0
    BY <1>1 DEF IsKept
  <2> HIDE DEF v
  <2>2. Total(v(g[0]), 0) = 0 /\ Total(h, 0) = 0
    BY TotalZero
  <2> QED BY <2>1, <2>2
<1>6. ASSUME NEW m \in Nat, m \in T PROVE m + 1 \in T
  <2> SUFFICES ASSUME m + 1 <= n PROVE Total(v(g[m + 1]), Len(g[m + 1])) = Total(h, m + 1)
    OBVIOUS
  <2>1. m + 1 \in 1..n /\ m \in 0..n /\ (m + 1) - 1 = m /\ \A i \in 1..(m + 1) : i \in 1..n
    BY <1>2
  <2>2. g[m + 1] = IF s[m + 1] \in S THEN Append(g[m], s[m + 1]) ELSE g[m]
    BY <1>1, <2>1 DEF IsKept, n
  <2>3. Total(h, m) \in Int /\ Total(h, m + 1) = Total(h, m) + h[m + 1]
    BY <1>4, <2>1, TotalStep
  <2>4. Total(v(g[m]), Len(g[m])) = Total(h, m)
    BY <1>2, <1>6
  <2>5. CASE s[m + 1] \notin S
    <3>1. h[m + 1] = 0
      BY <2>1, <2>5 DEF n
    <3> QED BY <2>2, <2>3, <2>4, <2>5, <3>1
  <2>6. CASE s[m + 1] \in S
    <3>1. PICK z, y, l, x : z = g[m] /\ y = g[m + 1] /\ l = Len(z) /\ x = s[m + 1]
      OBVIOUS
    <3>2. z \in Seq(Y) /\ l \in Nat /\ x \in Y
      BY <1>1, <1>2, <2>1, <2>6, <3>1 DEF Y
    <3>3. y = Append(z, x)
      BY <2>2, <2>6, <3>1
    <3>4. Len(y) = l + 1 /\ y[l + 1] = x /\ \A i \in 1..l : y[i] = z[i] /\ z[i] \in Y
      BY <3>1, <3>2, <3>3
    <3>5. /\ \A i \in 1..l : v(y)[i] = v(z)[i] /\ v(z)[i] \in Int
          /\ v(y)[l + 1] = w[x] /\ w[x] \in Int
      BY <1>3, <3>1, <3>2, <3>4
    <3> HIDE DEF v
    <3>6. \A i \in 1..(l + 1) : v(y)[i] \in Int
      <4>1. \A i \in 1..(l + 1) : i \in 1..l \/ i = l + 1
        BY <3>2
      <4> QED BY <3>5, <4>1
    <3>7. Total(v(y), l + 1) = Total(v(y), l) + w[x]
      <4>1. l \in Nat
        BY <3>2
      <4>2. Total(v(y), l + 1) = Total(v(y), l) + v(y)[l + 1]
        BY ONLY <3>6, <4>1, TotalStep
      <4> QED BY ONLY <3>5, <4>2
    <3>8. Total(v(z), l) = Total(v(y), l)
      BY <3>2, <3>5, TotalSame
    <3>9. h[m + 1] = w[x]
      BY <2>1, <2>6, <3>1 DEF n
    <3> QED BY <2>3, <2>4, <3>1, <3>4, <3>7, <3>8, <3>9
  <2> QED BY <2>5, <2>6
<1>7. ASSUME NEW z \in Seq(Y), z = Keep(s, S) PROVE Total(f, Len(z)) = Total(v(z), Len(z))
  <2>1. Len(z) \in Nat /\ \A i \in 1..Len(z) : z[i] \in Y
    OBVIOUS
  <2>2. \A i \in 1..Len(z) : f[i] \in Int /\ f[i] = v(z)[i]
    BY <1>3, <1>7, <2>1
  <2> HIDE DEF v
  <2> QED BY <2>1, <2>2, TotalSame
<1> HIDE DEF T, v
<1>8. n \in T
  BY <1>2, <1>5, <1>6, Induction
<1>9. g[n] \in Seq(Y)
  BY <1>1, <1>2
<1> QED BY <1>1, <1>2, <1>7, <1>8, <1>9 DEF T, n

(* Every element that is in S is kept.                                     *)
LEMMA KeepAll ==
  ASSUME NEW X, NEW s \in Seq(X), NEW S, NEW i \in 1..Len(s), s[i] \in S
  PROVE  s[i] \in Elements(Keep(s, S))
<1> DEFINE n == Len(s)
           Y == X \intersect S
<1>1. PICK g \in [0..n -> Seq(Y)] : IsKept(g, s, S) /\ Keep(s, S) = g[n]
  <2>1. \E g \in [0..Len(s) -> Seq(X \intersect S)] : IsKept(g, s, S) /\ Keep(s, S) = g[Len(s)]
    BY ONLY s \in Seq(X), KeepIs
  <2> QED BY ONLY <2>1
<1>2. n \in Nat /\ i \in 1..n
  OBVIOUS
<1> HIDE DEF n, Y
<1> DEFINE T == {m \in Nat : m <= n => \A j \in 1..m : s[j] \in S => s[j] \in Elements(g[m])}
<1>3. 0 \in T
  OBVIOUS
<1>4. ASSUME NEW m \in Nat, m \in T PROVE m + 1 \in T
  <2> SUFFICES ASSUME m + 1 <= n, NEW j \in 1..(m + 1), s[j] \in S PROVE s[j] \in Elements(g[m + 1])
    OBVIOUS
  <2>1. m + 1 \in 1..n /\ m \in 0..n /\ (m + 1) - 1 = m /\ (j \in 1..m \/ j = m + 1) /\ m <= n
    BY <1>2
  <2>2. PICK z, y, l : z = g[m] /\ y = g[m + 1] /\ l = Len(z)
    OBVIOUS
  <2>3. z \in Seq(Y) /\ l \in Nat
    BY <1>1, <2>1, <2>2
  <2>4. y = IF s[m + 1] \in S THEN Append(z, s[m + 1]) ELSE z
    BY <1>1, <2>1, <2>2 DEF IsKept, n
  <2>5. \A x \in 1..m : s[x] \in S => s[x] \in Elements(z)
    BY <1>4, <2>1, <2>2
  <2>6. CASE s[m + 1] \notin S
    BY <2>1, <2>2, <2>4, <2>5, <2>6
  <2>7. CASE s[m + 1] \in S
    <3>1. y = Append(z, s[m + 1])
      BY <2>4, <2>7
    <3>2. Len(y) = l + 1 /\ y[l + 1] = s[m + 1] /\ \A x \in 1..l : y[x] = z[x] /\ x \in 1..(l + 1)
      BY <2>2, <2>3, <3>1
    <3>3. l + 1 \in 1..(l + 1)
      BY <2>3
    <3>4. s[m + 1] \in Elements(y) /\ Elements(z) \subseteq Elements(y)
      BY <2>2, <3>2, <3>3 DEF Elements
    <3> QED BY <2>1, <2>2, <2>5, <3>4
  <2> QED BY <2>6, <2>7
<1> HIDE DEF T
<1>5. n \in T
  BY <1>2, <1>3, <1>4, Induction
<1> QED BY <1>1, <1>2, <1>5 DEF T

(* And nothing else.                                                       *)
LEMMA KeepOnly ==
  ASSUME NEW X, NEW s \in Seq(X), NEW S
  PROVE  Elements(Keep(s, S)) \subseteq Elements(s) \intersect S
<1>1. PICK z : z = Keep(s, S)
  OBVIOUS
<1>2. z \in Seq(X \intersect S)
  BY <1>1, KeepSeq
<1>3. PICK p \in [1..Len(z) -> 1..Len(s)] : \A i \in 1..Len(z) : z[i] = s[p[i]]
  BY <1>1, KeepPlaces DEF PlacedIn
<1>4. \A i \in 1..Len(z) : z[i] \in S /\ p[i] \in 1..Len(s) /\ z[i] = s[p[i]]
  BY <1>2, <1>3
<1> QED BY <1>1, <1>4 DEF Elements
=============================================================================
