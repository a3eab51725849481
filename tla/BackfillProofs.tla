--------------------------- MODULE BackfillProofs ---------------------------
(***************************************************************************)
(* Proofs about Backfill: for every number of blocks, table, set of        *)
(* unavailable blocks, retry limit and number of faults.                   *)
(***************************************************************************)
EXTENDS Backfill, FiniteSetTheorems, WellFoundedInduction, TLAPS

(* The ranges FindMissingBlocks returns lie between two rows of the table  *)
(* and hold no row.                                                        *)
LEMMA RangeFacts ==
  ASSUME NEW S \in SUBSET Blocks, NEW r \in FindMissingBlocks(S)
  PROVE  /\ r \in Blocks \X Blocks
         /\ r[1] <= r[2]
         /\ \A b \in r[1]..r[2] : b \notin S
         /\ r[1] - 1 \in S /\ r[2] + 1 \in S /\ r[1] - 1 # 0
<1>1. PICK p \in Neighbours(S \ {0}) : r = <<p[1] + 1, p[2] - 1>> /\ p[2] - p[1] - 1 > 0
  BY DEF FindMissingBlocks
<1>2. /\ p[1] \in S /\ p[2] \in S /\ p[1] # 0
      /\ \A c \in S \ {0} : ~(p[1] < c /\ c < p[2])
  BY <1>1 DEF Neighbours
<1>3. p[1] \in 0..MaxBlock /\ p[2] \in 0..MaxBlock
  BY <1>2 DEF Blocks
<1>4. r[1] = p[1] + 1 /\ r[2] = p[2] - 1
  BY <1>1
<1> QED BY <1>1, <1>2, <1>3, <1>4, BackfillAssumption DEF Blocks

(* Two of them are apart.                                                  *)
LEMMA RangesFoundApart ==
  ASSUME NEW S \in SUBSET Blocks,
         NEW r \in FindMissingBlocks(S), NEW q \in FindMissingBlocks(S), r # q
  PROVE  r[2] < q[1] \/ q[2] < r[1]
<1>1. PICK p \in Neighbours(S \ {0}) : r = <<p[1] + 1, p[2] - 1>>
  BY DEF FindMissingBlocks
<1>2. PICK n \in Neighbours(S \ {0}) : q = <<n[1] + 1, n[2] - 1>>
  BY DEF FindMissingBlocks
<1>3. /\ p[1] \in S \ {0} /\ p[2] \in S \ {0} /\ p[1] < p[2]
      /\ n[1] \in S \ {0} /\ n[2] \in S \ {0} /\ n[1] < n[2]
      /\ \A c \in S \ {0} : ~(p[1] < c /\ c < p[2]) /\ ~(n[1] < c /\ c < n[2])
  BY DEF Neighbours
<1>4. \A b \in S : b \in Int
  BY BackfillAssumption DEF Blocks
<1>5. p[1] \in S /\ p[2] \in S /\ n[1] \in S /\ n[2] \in S
  BY DEF Neighbours
<1>6. p[1] \in Int /\ p[2] \in Int /\ n[1] \in Int /\ n[2] \in Int
  BY <1>4, <1>5
<1>7. p[1] # n[1] \/ p[2] # n[2]
  BY <1>1, <1>2
<1>8. p[2] <= n[1] \/ n[2] <= p[1]
  BY <1>3, <1>6, <1>7
<1> QED BY <1>1, <1>2, <1>6, <1>8

(* A set of numbers has a least one.                                       *)
LEMMA LeastElement ==
  ASSUME NEW T \in SUBSET Nat, T # {}
  PROVE  \E m \in T : \A x \in T : m <= x
<1> DEFINE R == {ss \in Nat \X Nat : ss[1] < ss[2]}
<1>1. IsWellFoundedOn(R, Nat)
  BY NatLessThanWellFounded DEF OpToRel
<1>2. PICK m \in T : \A x \in T : ~(<<x, m>> \in R)
  BY <1>1, WFMin
<1>3. \A x \in T : ~(x < m)
  BY <1>2
<1> QED BY <1>3

(* And a greatest one, if it is bounded.                                   *)
LEMMA GreatestElement ==
  ASSUME NEW n \in Nat, NEW T \in SUBSET (0..n), T # {}
  PROVE  \E m \in T : \A x \in T : x <= m
<1> DEFINE U == {n - x : x \in T}
<1>1. U \in SUBSET Nat /\ U # {}
  <2>1. \A x \in T : n - x \in Nat
    OBVIOUS
  <2>2. PICK x \in T : TRUE
    OBVIOUS
  <2>3. n - x \in U
    OBVIOUS
  <2> QED BY <2>1, <2>3
<1>2. PICK u \in U : \A y \in U : u <= y
  <2> HIDE DEF U
  <2> QED BY <1>1, LeastElement
<1>3. PICK m \in T : u = n - m
  OBVIOUS
<1>4. ASSUME NEW x \in T PROVE x <= m
  <2>1. n - m <= n - x
    BY <1>2, <1>3
  <2>2. x \in Int /\ m \in Int
    OBVIOUS
  <2> QED BY <2>1, <2>2
<1> QED BY <1>4

(* A missing block lies between the last row before it and the first after *)
(* it, which are neighbours: FindMissingBlocks covers every gap.           *)
LEMMA GapsFound ==
  ASSUME NEW S \in SUBSET Blocks, NEW b \in Gaps(S)
  PROVE  \E r \in FindMissingBlocks(S) : b \in r[1]..r[2]
<1> DEFINE R == S \ {0}
           Below == {a \in R : a < b}
           Above == {c \in R : b < c}
<1>1. b \in Nat /\ b \notin S /\ MaxBlock \in Nat /\ \A x \in R : x \in 0..MaxBlock /\ x \in Nat
  BY BackfillAssumption DEF Gaps, Blocks
<1>2. Below # {} /\ Above # {}
  BY DEF Gaps
<1>3. Below \in SUBSET (0..MaxBlock) /\ Above \in SUBSET Nat
  BY <1>1
<1>4. PICK a \in Below : \A x \in Below : x <= a
  <2> HIDE DEF Below
  <2> QED BY <1>1, <1>2, <1>3, GreatestElement
<1>5. PICK c \in Above : \A x \in Above : c <= x
  <2> HIDE DEF Above
  <2> QED BY <1>2, <1>3, LeastElement
<1>6. a \in R /\ c \in R /\ a \in Nat /\ c \in Nat /\ a < b /\ b < c
  BY <1>1
<1>7. ASSUME NEW x \in R PROVE ~(a < x /\ x < c)
  <2>1. x \in Nat /\ x # b
    BY <1>1
  <2>2. x < b => x <= a
    BY <1>4
  <2>3. b < x => c <= x
    BY <1>5
  <2> QED BY <1>1, <1>6, <2>1, <2>2, <2>3
<1> HIDE DEF R
<1>8. <<a, c>> \in Neighbours(R)
  <2>. PICK p : p = <<a, c>>
    OBVIOUS
  <2>1. p \in R \X R /\ p[1] = a /\ p[2] = c
    BY <1>6
  <2>2. a < c /\ \A x \in R : ~(p[1] < x /\ x < p[2])
    BY <1>1, <1>6, <1>7, <2>1
  <2> QED BY <2>1, <2>2 DEF Neighbours
<1>9. c - a - 1 > 0 /\ b \in (a + 1)..(c - 1)
  BY <1>1, <1>6
<1>. PICK r : r = <<a + 1, c - 1>>
  OBVIOUS
<1>10. r \in FindMissingBlocks(S)
  BY <1>8, <1>9 DEF FindMissingBlocks, R
<1>11. b \in r[1]..r[2]
  BY <1>9
<1> QED BY <1>10, <1>11

(* For every table: the ranges hold exactly the missing blocks, none is    *)
(* empty and no two share a block.                                         *)
THEOREM FindMissingBlocksExact ==
  ASSUME NEW S \in SUBSET Blocks
  PROVE  /\ BlocksOf(FindMissingBlocks(S)) = Gaps(S)
         /\ \A r \in FindMissingBlocks(S) : r[1] <= r[2]
         /\ \A r, q \in FindMissingBlocks(S) : r # q => r[1]..r[2] \intersect q[1]..q[2] = {}
<1>1. ASSUME NEW b \in BlocksOf(FindMissingBlocks(S)) PROVE b \in Gaps(S)
  <2>1. PICK r \in FindMissingBlocks(S) : b \in r[1]..r[2]
    BY DEF BlocksOf
  <2>2. /\ r[1] \in 0..MaxBlock /\ r[2] \in 0..MaxBlock /\ b \notin S
        /\ r[1] - 1 \in S /\ r[2] + 1 \in S /\ r[1] - 1 # 0
    BY <2>1, RangeFacts DEF Blocks
  <2>3. /\ b \in 0..MaxBlock /\ r[1] - 1 < b /\ b < r[2] + 1 /\ r[2] + 1 # 0
    BY <2>1, <2>2, BackfillAssumption
  <2> QED BY <2>2, <2>3 DEF Gaps, Blocks
<1>2. BlocksOf(FindMissingBlocks(S)) = Gaps(S)
  BY <1>1, GapsFound DEF BlocksOf
<1>3. ASSUME NEW r \in FindMissingBlocks(S), NEW q \in FindMissingBlocks(S), r # q
      PROVE  r[1]..r[2] \intersect q[1]..q[2] = {}
  <2>1. r[2] < q[1] \/ q[2] < r[1]
    BY <1>3, RangesFoundApart
  <2>2. r[1] \in Int /\ r[2] \in Int /\ q[1] \in Int /\ q[2] \in Int
    BY RangeFacts DEF Blocks
  <2> QED BY <2>1, <2>2
<1> QED BY <1>2, <1>3, RangeFacts

(* Every step keeps the types.                                             *)
LEMMA TypeStep == TypeOK /\ RangesApart /\ [Next]_vars => TypeOK'
<1> SUFFICES ASSUME TypeOK, RangesApart, [Next]_vars PROVE TypeOK'
  OBVIOUS
<1> USE FaultsAssumption, BackfillAssumption
<1> USE DEF TypeOK, PublisherTypeOK, Conns, PCs, Blocks, RangesApart, publisherVars, tableVars, loopVars
<1>1. CASE Start
  BY <1>1 DEF Start, Connect
<1>2. CASE Crash
  BY <1>2 DEF Crash, Dies, ResetLoop, Fault
<1>3. CASE Cancel
  BY <1>3 DEF Cancel, Fault
<1>4. CASE Connection
  <2>1. CASE ConnBreaks
    BY <1>4, <2>1 DEF Connection, ConnBreaks, Fault
  <2>2. CASE ConnNoticed
    BY <1>4, <2>2 DEF Connection, ConnNoticed
  <2> QED BY <1>4, <2>1, <2>2 DEF Connection
<1>5. CASE FindMissing
  <2>1. ranges' \subseteq Blocks \X Blocks
    BY <1>5, RangeFacts DEF FindMissing, Dies, ResetLoop
  <2> QED BY <1>5, <2>1 DEF FindMissing, Dies, ResetLoop
<1>6. CASE NextRange
  BY <1>6 DEF NextRange
<1>7. CASE RequestSucceeds
  BY <1>7 DEF RequestSucceeds, Fault
<1>8. CASE RequestRetried
  BY <1>8 DEF RequestRetried, AttemptFails, Fault
<1>9. CASE RequestGivenUp
  BY <1>9 DEF RequestGivenUp, Dies, ResetLoop, Fault
<1>10. CASE MarkBlockProcessed
  <2>1. i \in Blocks /\ i + 1 \in 0..MaxBlock + 1
    BY <1>10 DEF MarkBlockProcessed
  <2>2. processed' \subseteq Blocks /\ i' \in 0..MaxBlock + 1
    BY <1>10, <2>1 DEF MarkBlockProcessed, NextBlock
  <2>3. faults' \in 0..MaxFaults /\ chanFaults' \in 0..faults'
    BY <1>10 DEF MarkBlockProcessed, Fault
  <2> QED BY <1>10, <2>2, <2>3 DEF MarkBlockProcessed, NextBlock
<1>11. CASE PublishBlock
  <2>1. i \in Blocks /\ i' \in 0..MaxBlock + 1 /\ pc' \in PCs
    BY <1>11 DEF PublishBlock, NextBlock
  <2>2. CASE PublishReaches(i)
    BY <1>11, <2>1, <2>2 DEF PublishBlock, PublishReaches
  <2>3. CASE PublishRefused(i)
    BY <1>11, <2>1, <2>3 DEF PublishBlock, PublishRefused
  <2>4. CASE PublishSwallowed(i)
    BY <1>11, <2>1, <2>4 DEF PublishBlock, PublishSwallowed, Fault
  <2> QED BY <1>11, <2>2, <2>3, <2>4 DEF PublishBlock, AddToSolanaQueue
<1>12. CASE PublishDies
  BY <1>12 DEF PublishDies, ReconnectFatal, Dies, ResetLoop, Fault
<1>13. CASE UNCHANGED vars
  BY <1>13 DEF vars
<1> QED
  BY <1>1, <1>2, <1>3, <1>4, <1>5, <1>6, <1>7, <1>8, <1>9, <1>10, <1>11, <1>12, <1>13
  DEF Next, Step

(* Every step keeps the ranges apart and unmarked.                         *)
LEMMA ApartStep == TypeOK /\ RangesApart /\ [Next]_vars => RangesApart'
<1> SUFFICES ASSUME TypeOK, RangesApart, [Next]_vars PROVE RangesApart'
  OBVIOUS
<1> USE FaultsAssumption, BackfillAssumption
<1> USE DEF TypeOK, PublisherTypeOK, Conns, PCs, Blocks, RangesApart, publisherVars, tableVars, loopVars
<1>1. CASE Start
  BY <1>1 DEF Start, Connect
<1>2. CASE Crash
  BY <1>2 DEF Crash, Dies, ResetLoop, Fault
<1>3. CASE Cancel
  BY <1>3 DEF Cancel, Fault
<1>4. CASE Connection
  BY <1>4 DEF Connection, ConnBreaks, ConnNoticed, Fault
<1>5. CASE FindMissing
  <2> SUFFICES ASSUME ctx = "live" PROVE RangesApart'
    BY <1>5 DEF FindMissing, Dies, ResetLoop
  <2>1. ranges' = FindMissingBlocks(processed) /\ processed' = processed
    BY <1>5 DEF FindMissing
  <2>2. \A r \in ranges' : r[1] <= r[2] /\ \A b \in r[1]..r[2] : b \notin processed'
    BY <2>1, RangeFacts
  <2>3. \A r, q \in ranges' : r # q => r[2] < q[1] \/ q[2] < r[1]
    BY <2>1, RangesFoundApart
  <2> QED BY <1>5, <2>2, <2>3 DEF FindMissing
<1>6. CASE NextRange
  BY <1>6 DEF NextRange
<1>7. CASE RequestSucceeds
  BY <1>7 DEF RequestSucceeds, Fault
<1>8. CASE RequestRetried
  BY <1>8 DEF RequestRetried, AttemptFails, Fault
<1>9. CASE RequestGivenUp
  BY <1>9 DEF RequestGivenUp, Dies, ResetLoop, Fault
<1>10. CASE MarkBlockProcessed
  BY <1>10 DEF MarkBlockProcessed, NextBlock, Fault
<1>11. CASE PublishBlock
  BY <1>11 DEF PublishBlock, AddToSolanaQueue, PublishReaches,
         PublishRefused, PublishSwallowed, NextBlock, Fault
<1>12. CASE PublishDies
  BY <1>12 DEF PublishDies, ReconnectFatal, Dies, ResetLoop, Fault
<1>13. CASE UNCHANGED vars
  BY <1>13 DEF vars
<1> QED
  BY <1>1, <1>2, <1>3, <1>4, <1>5, <1>6, <1>7, <1>8, <1>9, <1>10, <1>11, <1>12, <1>13
  DEF Next, Step

(* Every step keeps what is left to fetch unmarked.                         *)
LEMMA MissingStep == TypeOK /\ RangesApart /\ WorkIsMissing /\ RangesApart' /\ [Next]_vars => WorkIsMissing'
<1> SUFFICES ASSUME TypeOK, RangesApart, WorkIsMissing, RangesApart', [Next]_vars PROVE WorkIsMissing'
  OBVIOUS
<1> USE FaultsAssumption, BackfillAssumption
<1> USE DEF TypeOK, PublisherTypeOK, Conns, PCs, Blocks, RangesApart, WorkIsMissing, Remaining, BlocksOf, publisherVars, tableVars, loopVars
<1>1. CASE Start
  BY <1>1 DEF Start, Connect
<1>2. CASE Crash
  BY <1>2 DEF Crash, Dies, ResetLoop, Fault
<1>3. CASE Cancel
  BY <1>3 DEF Cancel, Fault
<1>4. CASE Connection
  BY <1>4 DEF Connection, ConnBreaks, ConnNoticed, Fault
<1>5. CASE FindMissing
  BY <1>5 DEF FindMissing, Dies, ResetLoop
<1>6. CASE NextRange
  BY <1>6 DEF NextRange
<1>7. CASE RequestSucceeds
  BY <1>7 DEF RequestSucceeds, Fault
<1>8. CASE RequestRetried
  BY <1>8 DEF RequestRetried, AttemptFails, Fault
<1>9. CASE RequestGivenUp
  BY <1>9 DEF RequestGivenUp, Dies, ResetLoop, Fault
<1>10. CASE MarkBlockProcessed
  BY <1>10 DEF MarkBlockProcessed, NextBlock, Fault
<1>11. CASE PublishBlock
  BY <1>11 DEF PublishBlock, AddToSolanaQueue, PublishReaches,
         PublishRefused, PublishSwallowed, NextBlock, Fault
<1>12. CASE PublishDies
  BY <1>12 DEF PublishDies, ReconnectFatal, Dies, ResetLoop, Fault
<1>13. CASE UNCHANGED vars
  BY <1>13 DEF vars
<1> QED
  BY <1>1, <1>2, <1>3, <1>4, <1>5, <1>6, <1>7, <1>8, <1>9, <1>10, <1>11, <1>12, <1>13
  DEF Next, Step

(* How a step changes the lost blocks and the debt, as long as no channel  *)
(* exception happened: at most one block more is lost, and a loss is paid  *)
(* for by the debt or by a fault.                                          *)
LossChange ==
    /\ seeded' \subseteq processed'
    /\ conn' = "chanClosed" => chanFaults' > 0
    /\ chanFaults' = 0 =>
          \/ LostBlocks' \subseteq LostBlocks /\ Debt' <= Debt /\ faults <= faults'
          \/ LostBlocks' \subseteq LostBlocks \union {i} /\ Debt' + 1 <= Debt /\ faults' = faults
          \/ LostBlocks' \subseteq LostBlocks \union {i} /\ Debt' <= Debt + 1 /\ faults' = faults + 1

(* Every step changes the losses in one of these ways.                     *)
LEMMA LossChangeStep == TypeOK /\ RangesApart /\ WorkIsMissing /\ LossInv /\ [Next]_vars => LossChange
<1> SUFFICES ASSUME TypeOK, RangesApart, WorkIsMissing, LossInv, [Next]_vars PROVE LossChange
  OBVIOUS
<1> USE FaultsAssumption, BackfillAssumption
<1> USE DEF TypeOK, PublisherTypeOK, Conns, PCs, Blocks, LossInv, LossChange, LostBlocks, Debt, publisherVars, tableVars, loopVars
<1>1. CASE Start
  BY <1>1 DEF Start, Connect
<1>2. CASE Crash
  BY <1>2 DEF Crash, Dies, ResetLoop, Fault
<1>3. CASE Cancel
  BY <1>3 DEF Cancel, Fault
<1>4. CASE Connection
  BY <1>4 DEF Connection, ConnBreaks, ConnNoticed, Fault
<1>5. CASE FindMissing
  BY <1>5 DEF FindMissing, Dies, ResetLoop
<1>6. CASE NextRange
  BY <1>6 DEF NextRange
<1>7. CASE RequestSucceeds
  BY <1>7 DEF RequestSucceeds, Fault
<1>8. CASE RequestRetried
  BY <1>8 DEF RequestRetried, AttemptFails, Fault
<1>9. CASE RequestGivenUp
  BY <1>9 DEF RequestGivenUp, Dies, ResetLoop, Fault
<1>10. CASE MarkBlockProcessed
  BY <1>10 DEF MarkBlockProcessed, NextBlock, Fault
<1>11. CASE PublishBlock
  BY <1>11 DEF PublishBlock, AddToSolanaQueue, PublishReaches,
         PublishRefused, PublishSwallowed, NextBlock, Fault
<1>12. CASE PublishDies
  BY <1>12 DEF PublishDies, ReconnectFatal, Dies, ResetLoop, Fault
<1>13. CASE UNCHANGED vars
  BY <1>13 DEF vars
<1> QED
  BY <1>1, <1>2, <1>3, <1>4, <1>5, <1>6, <1>7, <1>8, <1>9, <1>10, <1>11, <1>12, <1>13
  DEF Next, Step

(* The arithmetic of one step that grows l losses to l2, debt d to d2 and  *)
(* f faults to f2.                                                         *)
LEMMA NothingToPay == ASSUME NEW l \in Int, NEW d \in Int, NEW f \in Int,
                             NEW l2 \in Int, NEW d2 \in Int, NEW f2 \in Int,
                             l + d <= 2 * f, l2 <= l, d2 <= d, f <= f2
                      PROVE  l2 + d2 <= 2 * f2
  OBVIOUS

(* A loss the debt pays for.                                               *)
LEMMA PaidByDebt == ASSUME NEW l \in Int, NEW d \in Int, NEW f \in Int,
                           NEW l2 \in Int, NEW d2 \in Int,
                           l + d <= 2 * f, l2 <= l + 1, d2 + 1 <= d
                    PROVE  l2 + d2 <= 2 * f
  OBVIOUS

(* A loss a fault pays for.                                               *)
LEMMA PaidByFault == ASSUME NEW l \in Int, NEW d \in Int, NEW f \in Int,
                            NEW l2 \in Int, NEW d2 \in Int,
                            l + d <= 2 * f, l2 <= l + 1, d2 <= d + 1
                     PROVE  l2 + d2 <= 2 * (f + 1)
  OBVIOUS

(* Every step keeps the bound on the losses.                               *)
LEMMA LossStep == TypeOK /\ RangesApart /\ WorkIsMissing /\ LossInv /\ TypeOK'
                    /\ [Next]_vars => LossInv'
<1> SUFFICES ASSUME TypeOK, RangesApart, WorkIsMissing, LossInv, TypeOK', [Next]_vars
             PROVE  LossInv'
  OBVIOUS
<1>1. LossChange
  BY LossChangeStep
<1>2. Debt \in Int /\ Debt' \in Int /\ faults \in Int /\ faults' \in Int
  BY FaultsAssumption DEF Debt, TypeOK, PublisherTypeOK
<1>3. IsFiniteSet(Blocks)
  BY BackfillAssumption, FS_Interval DEF Blocks
<1>4. IsFiniteSet(LostBlocks) /\ IsFiniteSet(LostBlocks')
  <2>1. LostBlocks \subseteq Blocks /\ LostBlocks' \subseteq Blocks
    BY DEF LostBlocks, TypeOK
  <2> QED BY <2>1, <1>3, FS_Subset
<1>5. Cardinality(LostBlocks) \in Nat /\ Cardinality(LostBlocks') \in Nat
  BY <1>4, FS_CardinalityType
<1>6. ASSUME chanFaults' = 0 PROVE Cardinality(LostBlocks') + Debt' <= 2 * faults'
  <2>1. chanFaults = 0
    BY <1>6 DEF TypeOK, PublisherTypeOK, Next, Start, Crash, Cancel, Connection, Step,
         FindMissing, NextRange, RequestSucceeds, RequestRetried, RequestGivenUp,
         MarkBlockProcessed, PublishBlock, PublishDies, Connect, ConnBreaks,
         ConnNoticed, AddToSolanaQueue, PublishReaches, PublishRefused,
         PublishSwallowed, ReconnectFatal, publisherVars, vars
  <2>2. Cardinality(LostBlocks) + Debt <= 2 * faults
    BY <2>1 DEF LossInv
  <2>3. LostBlocks' \subseteq LostBlocks => Cardinality(LostBlocks') <= Cardinality(LostBlocks)
    BY <1>4, FS_Subset
  <2>4. LostBlocks' \subseteq LostBlocks \union {i}
          => Cardinality(LostBlocks') <= Cardinality(LostBlocks) + 1
    <3>1. /\ IsFiniteSet(LostBlocks \union {i})
          /\ \/ Cardinality(LostBlocks \union {i}) = Cardinality(LostBlocks)
             \/ Cardinality(LostBlocks \union {i}) = Cardinality(LostBlocks) + 1
      BY <1>4, FS_AddElement
    <3>2. LostBlocks' \subseteq LostBlocks \union {i}
            => Cardinality(LostBlocks') <= Cardinality(LostBlocks \union {i})
      BY <3>1, FS_Subset
    <3> QED BY <1>5, <3>1, <3>2
  <2>5. Cardinality(LostBlocks) \in Int /\ Cardinality(LostBlocks') \in Int
    BY <1>5
  <2>6. CASE LostBlocks' \subseteq LostBlocks /\ Debt' <= Debt /\ faults <= faults'
    BY <1>2, <2>2, <2>3, <2>5, <2>6, NothingToPay
  <2>7. CASE LostBlocks' \subseteq LostBlocks \union {i} /\ Debt' + 1 <= Debt /\ faults' = faults
    BY <1>2, <2>2, <2>4, <2>5, <2>7, PaidByDebt
  <2>8. CASE LostBlocks' \subseteq LostBlocks \union {i} /\ Debt' <= Debt + 1 /\ faults' = faults + 1
    BY <1>2, <2>2, <2>4, <2>5, <2>8, PaidByFault
  <2> QED BY <1>1, <1>6, <2>6, <2>7, <2>8 DEF LossChange
<1> QED BY <1>1, <1>6 DEF LossInv, LossChange

-----------------------------------------------------------------------------
(* The inductive invariant holds in every reachable state of the backfill. *)
THEOREM BackfillInvariance == Spec => []BackfillInv
<1>1. Init => BackfillInv
  <2> SUFFICES ASSUME Init PROVE BackfillInv
    OBVIOUS
  <2>1. TypeOK
    BY FaultsAssumption, BackfillAssumption
    DEF Init, PublisherInit, TypeOK, PublisherTypeOK, Conns, PCs, Blocks
  <2>2. RangesApart /\ WorkIsMissing
    BY DEF Init, RangesApart, WorkIsMissing, Remaining, BlocksOf
  <2>3. LostBlocks = {} /\ Debt = 0 /\ Cardinality({}) = 0
    BY FS_EmptySet DEF Init, PublisherInit, LostBlocks, Debt
  <2>4. LossInv
    BY <2>3 DEF Init, PublisherInit, LossInv
  <2> QED BY <2>1, <2>2, <2>4 DEF BackfillInv
<1>2. BackfillInv /\ [Next]_vars => BackfillInv'
  BY TypeStep, ApartStep, MissingStep, LossStep DEF BackfillInv
<1> QED BY <1>1, <1>2, PTL DEF Spec

(* Every reachable state of the backfill has its declared type.            *)
THEOREM BackfillTyping == Spec => []TypeOK
<1>1. BackfillInv => TypeOK
  BY DEF BackfillInv
<1> QED BY <1>1, BackfillInvariance, PTL

(* No block that is still to be fetched has been marked: the snapshot of   *)
(* the gaps is never stale where it matters.                               *)
THEOREM SnapshotStaysFresh == Spec => []WorkIsMissing
<1>1. BackfillInv => WorkIsMissing
  BY DEF BackfillInv
<1> QED BY <1>1, BackfillInvariance, PTL

(* Without a channel exception at most two blocks are lost per fault.      *)
THEOREM LossesAreBounded == Spec => []LossBound
<1>1. BackfillInv => LossBound
  <2> SUFFICES ASSUME BackfillInv, chanFaults = 0
               PROVE  Cardinality(LostBlocks) <= 2 * faults
    BY DEF LossBound
  <2>1. IsFiniteSet(Blocks)
    BY BackfillAssumption, FS_Interval DEF Blocks
  <2>2. LostBlocks \subseteq Blocks
    BY DEF LostBlocks, BackfillInv, TypeOK
  <2>3. Cardinality(LostBlocks) \in Nat
    BY <2>1, <2>2, FS_Subset, FS_CardinalityType
  <2>4. Debt \in Nat /\ faults \in Nat
    BY FaultsAssumption DEF Debt, BackfillInv, TypeOK, PublisherTypeOK
  <2> QED BY <2>3, <2>4 DEF BackfillInv, LossInv
<1> QED BY <1>1, BackfillInvariance, PTL

(* In every reachable state FindMissingBlocks would return exactly the     *)
(* gaps of the table.                                                      *)
THEOREM RangesStayGaps == Spec => []RangesAreGaps
<1>1. TypeOK => RangesAreGaps
  <2> SUFFICES ASSUME TypeOK PROVE RangesAreGaps
    OBVIOUS
  <2>1. processed \in SUBSET Blocks
    BY DEF TypeOK
  <2> QED BY <2>1, FindMissingBlocksExact DEF RangesAreGaps
<1> QED BY <1>1, BackfillTyping, PTL
=============================================================================
