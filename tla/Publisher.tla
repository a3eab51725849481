----------------------------- MODULE Publisher -----------------------------
(***************************************************************************)
(* The producer side of internal/solana/queue.go: AddToSolanaQueue, called *)
(* by the backfill and by the block listener.  It returns nothing: what    *)
(* does not reach the broker is logged and dropped.                        *)
(*                                                                         *)
(* conn is the connection and channel pair of one process:                 *)
(*   "open"        both work                                               *)
(*   "broken"      the connection is dead, the client has not noticed      *)
(*   "connClosed"  conn.IsClosed(): the next call reconnects               *)
(*   "chanClosed"  a channel exception closed qh.ch; qh.conn is open and   *)
(*                 qh.ch is not nil, so no call ever repairs it            *)
(***************************************************************************)
EXTENDS Integers

CONSTANT MaxFaults      \* bound: faults of the environment in a behaviour

ASSUME FaultsAssumption == MaxFaults \in Nat

VARIABLES conn,         \* see above
          sent,         \* messages that reached the broker
          faults,       \* faults so far
          chanFaults    \* history: channel exceptions among them

publisherVars == <<conn, sent, faults, chanFaults>>

Conns == {"open", "broken", "connClosed", "chanClosed"}

PublisherTypeOK == /\ conn \in Conns
                   /\ faults \in 0..MaxFaults
                   /\ chanFaults \in 0..faults

PublisherInit == conn = "open" /\ sent = {} /\ faults = 0 /\ chanFaults = 0

Fault == faults < MaxFaults /\ faults' = faults + 1

(* NewSolanaQueueHandler in a new process.                                 *)
Connect == conn' = "open" /\ UNCHANGED <<sent, faults, chanFaults>>

(* The call reaches the broker, after a reconnect() where one is due.      *)
PublishReaches(m) == /\ conn \in {"open", "connClosed"}
                     /\ conn' = "open"
                     /\ sent' = sent \union {m}
                     /\ UNCHANGED <<faults, chanFaults>>

(* Mutant: a failed QueueDeclare does not close the dead connection.       *)
PublishRefusedForever(m) == /\ conn \in {"broken", "chanClosed"}
                            /\ UNCHANGED <<conn, sent, faults, chanFaults>>

(* QueueDeclare fails on a dead connection or a closed channel; the latter *)
(* stays as it is.                                                         *)
PublishRefused(m) == /\ conn \in {"broken", "chanClosed"}
                     /\ conn' = IF conn = "broken" THEN "connClosed" ELSE conn
                     /\ UNCHANGED <<sent, faults, chanFaults>>

(* The connection or channel breaks between QueueDeclare and Publish,      *)
(* which needs no answer from the broker: the message is gone.             *)
PublishSwallowed(m) == /\ conn \in {"open", "connClosed"}
                       /\ Fault
                       /\ conn' \in {"broken", "chanClosed"}
                       /\ chanFaults' = chanFaults + (IF conn' = "chanClosed" THEN 1 ELSE 0)
                       /\ UNCHANGED sent

AddToSolanaQueue(m) == PublishReaches(m) \/ PublishRefused(m) \/ PublishSwallowed(m)

(* reconnect() cannot dial: connectToRabbitMQ ends the process.            *)
ReconnectFatal == /\ conn = "connClosed"
                  /\ Fault
                  /\ UNCHANGED <<conn, sent, chanFaults>>

(* Between two calls: the connection dies, a heartbeat notices.            *)
ConnBreaks == /\ conn = "open"
              /\ Fault
              /\ conn' = "broken"
              /\ UNCHANGED <<sent, chanFaults>>

ConnNoticed == /\ conn = "broken"
               /\ conn' = "connClosed"
               /\ UNCHANGED <<sent, faults, chanFaults>>
=============================================================================
