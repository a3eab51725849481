--------------------------- MODULE MessageLedger ---------------------------
(***************************************************************************)
(* What the transaction processor promises about the messages of the       *)
(* RabbitMQ queue "solana-tx" and the rows of the swap_log table, with     *)
(* the connection, the worker pool and the restarts left out.              *)
(*                                                                         *)
(* A message is published once, is pending until the broker forgets it,    *)
(* and is forgotten for one of three reasons: it was acknowledged          *)
(* (settled), rejected as malformed, or lost by a broker that restarted.   *)
(* Its swaps may be written any number of times before it is settled and   *)
(* never after.                                                            *)
(***************************************************************************)
CONSTANTS Msgs,        \* the BlockData messages
          Malformed,   \* those whose body is not a BlockData
          NoSwaps      \* those whose transactions hold no swap

VARIABLES status,      \* what the broker knows of each message
          stored       \* the messages whose swaps are in swap_log

ledgerVars == <<status, stored>>

Statuses == {"unpublished", "pending", "settled", "rejected", "lost"}

LedgerTypeOK == /\ status \in [Msgs -> Statuses]
                /\ stored \subseteq Msgs

LedgerInit == /\ status = [m \in Msgs |-> "unpublished"]
              /\ stored = {}

Publish(m) == /\ status[m] = "unpublished"
              /\ status' = [status EXCEPT ![m] = "pending"]
              /\ UNCHANGED stored

(* A worker writes the swaps.  The broker may have lost the message while  *)
(* the worker was busy with it; it cannot have settled it.                 *)
Store(m) == /\ status[m] \in {"pending", "lost"}
            /\ m \notin Malformed
            /\ stored' = stored \union {m}
            /\ UNCHANGED status

Settle(m) == /\ status[m] = "pending"
             /\ m \notin Malformed
             /\ m \in stored \union NoSwaps
             /\ status' = [status EXCEPT ![m] = "settled"]
             /\ UNCHANGED stored

Reject(m) == /\ status[m] = "pending"
             /\ m \in Malformed
             /\ status' = [status EXCEPT ![m] = "rejected"]
             /\ UNCHANGED stored

(* The messages are transient: a broker that restarts has none of them.    *)
LoseAll == /\ status' = [m \in Msgs |-> IF status[m] = "pending" THEN "lost"
                                                                 ELSE status[m]]
           /\ UNCHANGED stored

LedgerNext == \/ \E m \in Msgs : Publish(m) \/ Store(m) \/ Settle(m) \/ Reject(m)
              \/ LoseAll

LedgerSpec == LedgerInit /\ [][LedgerNext]_ledgerVars
=============================================================================
