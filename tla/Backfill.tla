------------------------------ MODULE Backfill ------------------------------
(***************************************************************************)
(* The backfill process: cmd/backfill/main.go and HandleBackFill of        *)
(* internal/solana/backfill.go, with the blocks table it reads the gaps    *)
(* from and marks blocks in, the node it fetches from and AddToSolanaQueue *)
(* of Publisher.  A block is marked as processed before it is published.   *)
(***************************************************************************)
EXTENDS Publisher, FiniteSets

CONSTANTS MaxBlock,      \* bound: highest block number
          Unavailable,   \* blocks the node answers with an error object
          Undecodable,   \* blocks whose answer GetBlockMessage cannot decode
          MaxAttempts    \* attempts of sendRequestWithRetry (3)

Blocks == 0..MaxBlock

ASSUME BackfillAssumption == /\ MaxBlock \in Nat
                             /\ Unavailable \subseteq Blocks
                             /\ Undecodable \subseteq Blocks
                             /\ MaxAttempts \in Nat \ {0}

VARIABLES seeded,      \* history: the rows an operator put in the table
          processed,   \* the rows of the blocks table
          answered,    \* history: blocks answered with an error object
          ctx,         \* "live" or "done": main's context, which its loop ignores
          pc,          \* "down", "find", "range", "get", "mark", "publish"
          ranges,      \* the channel blockRanges
          i, to,       \* HandleBackFill's loop
          attempt,     \* failed attempts of the current request
          body,        \* "fresh" or "spent": the request's strings.Reader
          resp         \* "block" or "error": the node's answer

tableVars == <<seeded, processed, answered>>
loopVars  == <<ranges, i, to, attempt, body, resp>>
vars == <<publisherVars, tableVars, ctx, pc, loopVars>>

PCs == {"down", "find", "range", "get", "mark", "publish"}

TypeOK == /\ PublisherTypeOK
          /\ sent \subseteq Blocks
          /\ seeded \subseteq Blocks
          /\ processed \subseteq Blocks
          /\ answered \subseteq Blocks
          /\ ctx \in {"live", "done"}
          /\ pc \in PCs
          /\ ranges \subseteq Blocks \X Blocks
          /\ i \in 0..MaxBlock + 1
          /\ to \in Blocks
          /\ attempt \in 0..MaxAttempts - 1
          /\ body \in {"fresh", "spent"}
          /\ resp \in {"block", "error"}

-----------------------------------------------------------------------------
(* FindMissingBlocks: neighbours in the sorted table, without a leading 0, *)
(* that are more than one apart.                                           *)
Neighbours(S) == {p \in S \X S : p[1] < p[2] /\ \A c \in S : ~(p[1] < c /\ c < p[2])}

(* Mutant: a gap of one block is no gap.                                   *)
FindMissingBlocksSkipsSingles(S) ==
    {<<p[1] + 1, p[2] - 1>> : p \in {q \in Neighbours(S \ {0}) : q[2] - q[1] - 1 > 1}}

FindMissingBlocks(S) ==
    {<<p[1] + 1, p[2] - 1>> : p \in {q \in Neighbours(S \ {0}) : q[2] - q[1] - 1 > 0}}

Init == /\ PublisherInit
        /\ seeded \in SUBSET Blocks
        /\ processed = seeded
        /\ answered = {}
        /\ ctx = "live"
        /\ pc = "down"
        /\ ranges = {}
        /\ i = 0 /\ to = 0
        /\ attempt = 0 /\ body = "fresh" /\ resp = "block"

(* Loop variables of a process that has none.                              *)
ResetLoop == /\ ranges' = {}
             /\ i' = 0 /\ to' = 0
             /\ attempt' = 0 /\ body' = "fresh" /\ resp' = "block"

(* The supervisor starts main, which connects to the database and the      *)
(* broker or dies again.                                                   *)
Start == /\ pc = "down"
         /\ pc' = "find"
         /\ Connect
         /\ UNCHANGED <<tableVars, ctx, loopVars>>

Dies == pc' = "down" /\ ctx' = "live" /\ ResetLoop

(* SIGINT cancels the context and nothing else: the loop goes on until the *)
(* next FindMissingBlocks fails, publishing without being able to mark.    *)
Cancel == /\ pc # "down"
          /\ ctx = "live"
          /\ Fault
          /\ ctx' = "done"
          /\ UNCHANGED <<conn, sent, chanFaults, tableVars, pc, loopVars>>

(* Killed; or log.Fatalf, when the query of FindMissingBlocks or the       *)
(* decoding of a garbled answer failed; or a panic between mark and        *)
(* publish, when the answer has neither an error nor a result.             *)
Crash == /\ pc # "down"
         /\ Fault
         /\ Dies
         /\ UNCHANGED <<conn, sent, chanFaults, tableVars>>

(* One round of main's loop; without gaps it sleeps and looks again.       *)
FindMissing == /\ pc = "find"
               /\ \/ /\ ctx = "live"
                     /\ ranges' = FindMissingBlocks(processed)
                     /\ pc' = IF ranges' = {} THEN "find" ELSE "range"
                     /\ UNCHANGED <<ctx, i, to, attempt, body, resp>>
                  \/ ctx = "done" /\ Dies
               /\ UNCHANGED <<publisherVars, tableVars>>

(* Mutant: the end of a range is taken for exclusive.                      *)
NextRangeOneMore ==
    /\ pc = "range"
    /\ \/ /\ ranges = {}
          /\ pc' = "find"
          /\ UNCHANGED loopVars
       \/ \E r \in ranges :
             /\ \A q \in ranges : r[1] <= q[1]
             /\ ranges' = ranges \ {r}
             /\ i' = r[1]
             /\ to' = r[2] + 1
             /\ pc' = "get"
             /\ UNCHANGED <<attempt, body, resp>>
    /\ UNCHANGED <<publisherVars, tableVars, ctx>>

(* The single worker takes the next range, or the round is finished.       *)
NextRange ==
    /\ pc = "range"
    /\ \/ /\ ranges = {}
          /\ pc' = "find"
          /\ UNCHANGED loopVars
       \/ \E r \in ranges :
             /\ \A q \in ranges : r[1] <= q[1]
             /\ ranges' = ranges \ {r}
             /\ i' = r[1]
             /\ to' = r[2]
             /\ pc' = "get"
             /\ UNCHANGED <<attempt, body, resp>>
    /\ UNCHANGED <<publisherVars, tableVars, ctx>>

(* An attempt that still has its body is answered.  Besides the blocks     *)
(* that do not exist, any block may get an error object once in a while.   *)
RequestSucceeds ==
    /\ pc = "get"
    /\ body = "fresh"
    /\ pc' = "mark"
    /\ attempt' = 0
    /\ \/ /\ i \notin Undecodable
          /\ resp' = IF i \in Unavailable THEN "error" ELSE "block"
          /\ UNCHANGED faults
       \/ /\ resp' = "error"
          /\ Fault
    /\ answered' = IF resp' = "error" THEN answered \union {i} ELSE answered
    /\ UNCHANGED <<conn, sent, chanFaults, seeded, processed, ctx, ranges, i, to,
                   body>>

(* An attempt fails, before its body was written or after.  The reader of  *)
(* the body is at its end then, and no attempt with the same request can   *)
(* succeed.                                                                *)
AttemptFails == \/ Fault /\ body' \in {body, "spent"}
                \/ body = "spent" /\ UNCHANGED <<faults, body>>

RequestRetried == /\ pc = "get"
                  /\ attempt + 1 < MaxAttempts
                  /\ AttemptFails
                  /\ attempt' = attempt + 1
                  /\ UNCHANGED <<conn, sent, chanFaults, tableVars, ctx, pc, ranges,
                                 i, to, resp>>

(* GetBlockMessage returns an error, after the last attempt or because the *)
(* answer does not decode: log.Fatalf.                                     *)
RequestGivenUp ==
    /\ pc = "get"
    /\ \/ /\ attempt + 1 >= MaxAttempts
          /\ Fault \/ (body = "spent" /\ UNCHANGED faults)
       \/ body = "fresh" /\ i \in Undecodable /\ UNCHANGED faults
    /\ Dies
    /\ UNCHANGED <<conn, sent, chanFaults, tableVars>>

(* for i := startBlock; i <= toBlock; i++                                  *)
NextBlock == /\ i' = i + 1
             /\ pc' = IF i < to THEN "get" ELSE "range"

(* Mutant: an error object ends the iteration before the mark.             *)
MarkOnlyBlocks ==
    /\ pc = "mark"
    /\ IF resp = "error"
         THEN NextBlock /\ UNCHANGED processed
         ELSE pc' = "publish" /\ processed' = processed \union {i} /\ UNCHANGED i
    /\ UNCHANGED <<conn, sent, faults, chanFaults, seeded, answered, ctx, ranges,
                   to, attempt, body, resp>>

(* MarkBlockProcessed, whose error is ignored, and the branch on the       *)
(* answer: an error object ends the iteration.                             *)
MarkBlockProcessed ==
    /\ pc = "mark"
    /\ \/ ctx = "live" /\ processed' = processed \union {i} /\ UNCHANGED faults
       \/ ctx = "live" /\ UNCHANGED processed /\ Fault
       \/ ctx = "done" /\ UNCHANGED <<processed, faults>>
    /\ IF resp = "error"
         THEN NextBlock
         ELSE pc' = "publish" /\ UNCHANGED i
    /\ UNCHANGED <<conn, sent, chanFaults, seeded, answered, ctx, ranges, to, attempt,
                   body, resp>>

PublishBlock == /\ pc = "publish"
                /\ AddToSolanaQueue(i)
                /\ NextBlock
                /\ UNCHANGED <<tableVars, ctx, ranges, to, attempt, body, resp>>

PublishDies == /\ pc = "publish"
               /\ ReconnectFatal
               /\ Dies
               /\ UNCHANGED tableVars

Connection == /\ pc # "down"
              /\ ConnBreaks \/ ConnNoticed
              /\ UNCHANGED <<tableVars, ctx, pc, loopVars>>

-----------------------------------------------------------------------------
Step == \/ FindMissing \/ NextRange
        \/ RequestSucceeds \/ RequestRetried \/ RequestGivenUp
        \/ MarkBlockProcessed \/ PublishBlock \/ PublishDies

Next == Start \/ Crash \/ Cancel \/ Connection \/ Step

Spec == Init /\ [][Next]_vars

(* The supervisor restarts the process and the process is scheduled; the   *)
(* environment's faults are bounded by MaxFaults.                          *)
Fairness == WF_vars(Start) /\ WF_vars(Step)

FairSpec == Spec /\ Fairness

-----------------------------------------------------------------------------
(* Properties.                                                             *)

(* What is missing, said without ranges: between two rows other than 0 and *)
(* not a row.                                                              *)
Gaps(S) == {b \in Blocks \ S : \E a, c \in S \ {0} : a < b /\ b < c}

BlocksOf(R) == UNION {r[1]..r[2] : r \in R}

(* FindMissingBlocks returns disjoint, non-empty ranges that hold exactly  *)
(* the missing blocks, whatever rows the table has.                        *)
RangesAreGaps ==
    LET found == FindMissingBlocks(processed)
    IN  /\ BlocksOf(found) = Gaps(processed)
        /\ \A r \in found : r[1] <= r[2]
        /\ \A r, q \in found : r # q => r[1]..r[2] \intersect q[1]..q[2] = {}

(* What HandleBackFill still has to fetch in this round.                   *)
Remaining == CASE pc \in {"get", "mark"} -> i..to
               [] pc = "publish"         -> (i + 1)..to
               [] OTHER                  -> {}

(* The ranges are a snapshot of the table, taken before blocks are marked: *)
(* no block that HandleBackFill has yet to fetch is marked, across rounds, *)
(* failed marks and restarts, so no block is published twice for a stale   *)
(* snapshot.                                                               *)
WorkIsMissing == /\ BlocksOf(ranges) \intersect processed = {}
                 /\ Remaining \intersect processed = {}

(* Blocks that were marked and exist, whose message is neither at the      *)
(* broker nor about to be published: no later round finds them.            *)
LostBlocks == (processed \ seeded)
                \ (sent \union Unavailable \union (IF pc = "publish" THEN {i} ELSE {}))

(* Marking before publishing loses at most two blocks per fault: the one   *)
(* whose Publish went into a dying connection and the next one, whose      *)
(* QueueDeclare finds out.  Only a channel exception loses more, since no  *)
(* call of AddToSolanaQueue reopens a channel of an open connection.       *)
LossBound == chanFaults = 0 => Cardinality(LostBlocks) <= 2 * faults

-----------------------------------------------------------------------------
(* What makes the invariants above inductive.                              *)

(* The ranges are apart from each other and after the one being worked on. *)
RangesApart ==
    /\ \A r \in ranges : r[1] <= r[2] /\ \A b \in r[1]..r[2] : b \notin processed
    /\ \A r, q \in ranges : r # q => r[2] < q[1] \/ q[2] < r[1]
    /\ pc \in {"get", "mark", "publish"} => i <= to /\ \A r \in ranges : to < r[1]
    /\ pc \notin {"range", "get", "mark", "publish"} => ranges = {}

(* Losses that earlier faults have made certain: the next message on a     *)
(* dead connection, and a block whose answer was an undeserved error.      *)
Debt == (IF conn = "broken" THEN 1 ELSE 0)
          + (IF pc = "mark" /\ resp = "error" /\ i \notin Unavailable THEN 1 ELSE 0)

LossInv == /\ seeded \subseteq processed
           /\ conn = "chanClosed" => chanFaults > 0
           /\ chanFaults = 0 => Cardinality(LostBlocks) + Debt <= 2 * faults

(* The inductive invariant of HandleBackFill's loop and its losses.        *)
BackfillInv == TypeOK /\ RangesApart /\ WorkIsMissing /\ LossInv

-----------------------------------------------------------------------------
(* The rounds of main fill every gap in the end, with every restart on     *)
(* the way, up to the first block that does not decode: there each new     *)
(* process ends again and what comes after it is never fetched.            *)
Filled == <>[](\A b \in Gaps(processed) :
                 \E u \in Undecodable \intersect Gaps(processed) : u <= b)

=============================================================================
