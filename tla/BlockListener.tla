--------------------------- MODULE BlockListener ---------------------------
(***************************************************************************)
(* The block listener: cmd/listener/main.go and internal/solana/           *)
(* newBlocks.go, which subscribes to a Geyser stream of transactions and   *)
(* block metadata and publishes every transaction with AddToSolanaQueue of *)
(* Publisher.  A transaction does not carry its time: the listener dates   *)
(* it with the last BlockMeta it has seen, or with its own clock while it  *)
(* has seen none.                                                          *)
(*                                                                         *)
(* Slot s has block time s, and the clock of the listener shows the slot   *)
(* of the chain's head.                                                    *)
(***************************************************************************)
EXTENDS Publisher, FiniteSets, Sequences

CONSTANTS MaxSlot,      \* bound: slots the chain produces
          TxsPerSlot    \* bound: transactions of a slot

Slots == 1..MaxSlot

ASSUME ListenerAssumption == MaxSlot \in Nat /\ TxsPerSlot \in Nat \ {0}

VARIABLES head,         \* the chain's last slot
          stream,       \* updates sent on the subscription, not received yet
          sub,          \* "none", "live" or "broken": the subscription s.Subscription
          pc,           \* "down", "connect", "subscribe", "recv"
          blockTime,    \* local of grpcSubscribe; 0: no time yet
          pingers,      \* running keepAlive goroutines
          pings,        \* history: "ok" or "failed" on this subscription
          firsts,       \* history: the first slot of every subscription
          seen          \* history: transactions that were received

chainVars == <<head, stream>>
listenerVars == <<sub, pc, blockTime, pingers, pings, firsts>>
vars == <<publisherVars, chainVars, listenerVars, seen>>

Txs == Slots \X (1..TxsPerSlot)

(* An update is the metadata of a slot or a transaction.                   *)
Meta(s) == [kind |-> "meta", slot |-> s, tx |-> 0]
Tx(s, k) == [kind |-> "tx", slot |-> s, tx |-> k]

(* types.BlockData with its one transaction.                               *)
Message(u, time) == [slot |-> u.slot, tx |-> u.tx, time |-> time]

TypeOK == /\ PublisherTypeOK
          /\ head \in 0..MaxSlot
          /\ sub \in {"none", "live", "broken"}
          /\ pc \in {"down", "connect", "subscribe", "recv"}
          /\ blockTime \in 0..MaxSlot
          /\ pingers \in Nat
          /\ pings \in {"ok", "failed"}
          /\ firsts \subseteq 1..MaxSlot + 1
          /\ seen \subseteq Txs
          /\ \A m \in sent : <<m.slot, m.tx>> \in Txs /\ m.time \in Slots

Init == /\ PublisherInit
        /\ head = 0
        /\ stream = <<>>
        /\ sub = "none"
        /\ pc = "down"
        /\ blockTime = 0
        /\ pingers = 0
        /\ pings = "ok"
        /\ firsts = {}
        /\ seen = {}

-----------------------------------------------------------------------------
(* The chain and the node (external).  Confirmed slots are sent in order,  *)
(* the metadata of a slot before, between or after its transactions.       *)

SlotUpdates(s) ==
    LET txs == [k \in 1..TxsPerSlot |-> Tx(s, k)]
    IN  {SubSeq(txs, 1, n) \o <<Meta(s)>> \o SubSeq(txs, n + 1, TxsPerSlot) :
             n \in 0..TxsPerSlot}

ProduceSlot == /\ head < MaxSlot
               /\ head' = head + 1
               /\ IF sub = "live"
                    THEN \E us \in SlotUpdates(head + 1) : stream' = stream \o us
                    ELSE UNCHANGED stream
               /\ UNCHANGED <<publisherVars, listenerVars, seen>>

(* The stream breaks; updates that the client has buffered are still       *)
(* received, what is on its way is gone.                                   *)
StreamBreaks == /\ sub = "live"
                /\ Fault
                /\ sub' = "broken"
                /\ \E n \in 0..Len(stream) : stream' = SubSeq(stream, 1, n)
                /\ UNCHANGED <<conn, sent, chanFaults, head, pc, blockTime,
                               pingers, pings, firsts, seen>>

-----------------------------------------------------------------------------
(* The process.                                                            *)

(* main connects to the broker and calls Listen.                           *)
Start == /\ pc = "down"
         /\ pc' = "connect"
         /\ Connect
         /\ UNCHANGED <<chainVars, sub, blockTime, pingers, pings, firsts, seen>>

Dies == /\ pc' = "down"
        /\ sub' = "none"
        /\ stream' = <<>>
        /\ blockTime' = 0
        /\ pingers' = 0
        /\ pings' = "ok"
        /\ UNCHANGED firsts

(* Killed, interrupted, or a panic (a BlockMeta without BlockTime).        *)
Crash == /\ pc # "down"
         /\ Fault
         /\ Dies
         /\ UNCHANGED <<conn, sent, chanFaults, head, seen>>

(* grpcConnect builds a lazy client; it fails only for a bad address.      *)
GrpcConnect == /\ pc = "connect"
               /\ pc' = "subscribe"
               /\ UNCHANGED <<publisherVars, chainVars, sub, blockTime, pingers,
                              pings, firsts, seen>>

(* Subscribe or the first Send fails: Listen closes the connection, sleeps *)
(* and starts over.  s.Subscription is left as it was.                     *)
SubscribeFails == /\ pc = "subscribe"
                  /\ Fault
                  /\ pc' = "connect"
                  /\ UNCHANGED <<conn, sent, chanFaults, chainVars, sub, blockTime,
                                 pingers, pings, firsts, seen>>

(* Mutant: blockTime is a field of the listener.                           *)
SubscribeKeepsTime == /\ pc = "subscribe"
                      /\ pc' = "recv"
                      /\ sub' = "live"
                      /\ stream' = <<>>
                      /\ pingers' = pingers + 1
                      /\ pings' = "ok"
                      /\ firsts' = firsts \union {head + 1}
                      /\ UNCHANGED <<publisherVars, head, blockTime, seen>>

(* grpcSubscribe up to its loop: the new stream replaces the old one under *)
(* the keepAlive goroutines that are still running, and one more starts.   *)
Subscribe == /\ pc = "subscribe"
             /\ pc' = "recv"
             /\ sub' = "live"
             /\ stream' = <<>>
             /\ blockTime' = 0
             /\ pingers' = pingers + 1
             /\ pings' = "ok"
             /\ firsts' = firsts \union {head + 1}
             /\ UNCHANGED <<publisherVars, head, seen>>

(* A tick of a keepAlive goroutine that sends to s.Subscription and pings  *)
(* the node; it returns on the first error.  A tick without one changes    *)
(* only s.pingId, which nothing reads but the next tick.                   *)
KeepAlive == /\ pingers > 0
             /\ \/ /\ sub = "broken"
                   /\ UNCHANGED <<faults, pings>>
                \/ /\ sub = "live"
                   /\ Fault
                   /\ pings' = "failed"
             /\ pingers' = pingers - 1
             /\ UNCHANGED <<conn, sent, chanFaults, chainVars, sub, pc, blockTime,
                            firsts, seen>>

(* Mutant: the error of Recv is logged and the loop goes on.               *)
RecvFailsContinues == /\ pc = "recv"
                      /\ sub = "broken"
                      /\ stream = <<>>
                      /\ UNCHANGED vars

(* stream.Recv returns an error: back to Listen.                           *)
RecvFails == /\ pc = "recv"
             /\ sub = "broken"
             /\ stream = <<>>
             /\ pc' = "connect"
             /\ UNCHANGED <<publisherVars, chainVars, sub, blockTime, pingers,
                            pings, firsts, seen>>

Receive(kind) == /\ pc = "recv"
                 /\ stream # <<>>
                 /\ Head(stream).kind = kind
                 /\ stream' = Tail(stream)

RecvMeta == /\ Receive("meta")
            /\ blockTime' = Head(stream).slot
            /\ UNCHANGED <<publisherVars, head, sub, pc, pingers, pings,
                           firsts, seen>>

(* capturedTS stands in until the first BlockMeta.                         *)
TimeOfTx == IF blockTime = 0 THEN head ELSE blockTime

(* A transaction: HandleTransaction publishes it before the next Recv.     *)
RecvTx == LET u == Head(stream) IN
          /\ Receive("tx")
          /\ blockTime' = TimeOfTx
          /\ seen' = seen \union {<<u.slot, u.tx>>}
          /\ AddToSolanaQueue(Message(u, TimeOfTx))
          /\ UNCHANGED <<head, sub, pc, pingers, pings, firsts>>

(* reconnect() ends the process with the transaction in hand.              *)
RecvTxDies == LET u == Head(stream) IN
              /\ pc = "recv"
              /\ stream # <<>>
              /\ u.kind = "tx"
              /\ ReconnectFatal
              /\ Dies
              /\ seen' = seen \union {<<u.slot, u.tx>>}
              /\ UNCHANGED head

Broker == /\ pc # "down"
          /\ ConnBreaks \/ ConnNoticed
          /\ UNCHANGED <<chainVars, listenerVars, seen>>
-----------------------------------------------------------------------------
Listen == Start \/ GrpcConnect \/ Subscribe \/ RecvFails \/ RecvMeta \/ RecvTx

Next == \/ ProduceSlot \/ StreamBreaks \/ Crash \/ SubscribeFails
        \/ KeepAlive \/ RecvTxDies \/ Broker \/ Listen

Spec == Init /\ [][Next]_vars

(* The supervisor restarts the process, and the listener is scheduled; the *)
(* node and the broker work except for MaxFaults faults.                   *)
FairSpec == Spec /\ WF_vars(Listen)

-----------------------------------------------------------------------------
(* Properties.                                                             *)

(* No transaction is dated before the block that precedes its own: the     *)
(* blockTime of grpcSubscribe may lag by one block, but never by an outage *)
(* of the stream or of the process.  And one is dated after its own block  *)
(* only in the first slot of a subscription, before the first BlockMeta:   *)
(* capturedTS never replaces a block time that is known, however far the   *)
(* listener is behind the chain.                                           *)
DatedWithinOneBlock ==
    \A m \in sent : /\ m.time + 1 >= m.slot
                    /\ m.time > m.slot => m.slot \in firsts

(* Transactions that were received and did not reach the broker.    *)
LostTxs == seen \ {<<m.slot, m.tx>> : m \in sent}

(* HandleTransaction ignores the outcome of AddToSolanaQueue: while the    *)
(* broker's channel survives, a fault costs at most two transactions.      *)
ListenerLossBound == chanFaults = 0 => Cardinality(LostTxs) <= 2 * faults

(* A live subscription has a keepAlive goroutine unless a ping failed on   *)
(* it: goroutines of earlier subscriptions, which ping whatever stream     *)
(* s.Subscription is, never take the place of its own.                     *)
SubscriptionPinged == sub = "live" => pingers >= 1 \/ pings = "failed"

(* Listen gets back to a live subscription after every failure.            *)
Resubscribes == sub # "live" ~> sub = "live"

(* The subscription is kept: it comes back after every failure, and while  *)
(* it is live somebody pings it.                                           *)
StaysSubscribed == []TypeOK /\ []SubscriptionPinged /\ Resubscribes
=============================================================================
