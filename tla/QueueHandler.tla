--------------------------- MODULE QueueHandler ---------------------------
(***************************************************************************)
(* The consumer side of internal/solana/queue.go: ListenToSolanaQueue and  *)
(* its worker pool, with the broker it consumes from, the database it      *)
(* writes to and the supervisor that restarts it.                          *)
(*                                                                         *)
(*   broker (external)  ready -> unacked -> acked | rejected               *)
(*   client library     unacked copies wait in inbox, the channel `msgs`   *)
(*   forwarder          moves them from msgs to rabbitChan                 *)
(*   workers            select, decode, insert (with retries), ack         *)
(*                                                                         *)
(* A process consumes on one channel in its whole life: reconnect() opens  *)
(* a new connection but never calls Consume again.  So `link` tells        *)
(* everything about the deliveries that the process holds:                 *)
(*   "down"        the process is not running                              *)
(*   "open"        the broker waits for their acks                         *)
(*   "lost"        the broker has given up, the client has not noticed     *)
(*   "connClosed"  the client has noticed that the connection is gone      *)
(*   "chanClosed"  the channel is gone, qh.conn is open                    *)
(***************************************************************************)
EXTENDS Integers, FiniteSets

CONSTANTS Msgs,        \* the messages AddToSolanaQueue publishes
          NoMsg,       \* no message
          Malformed,   \* bodies UnmarshalJSON refuses
          NoSwaps,     \* blocks whose transactions hold no swap
          Poison,      \* blocks that kill the process that handles them
          Workers,     \* the worker goroutines (qh.workers = 200 of them)
          Prefetch,    \* the broker's limit on unacked deliveries (100)
          MaxRetries,  \* attempts of insertBatch (3)
          MaxPublished, \* bound: messages published in a behaviour
          MaxFaults    \* bound: faults of link, broker and process in a behaviour

ASSUME MsgsAssumption == /\ IsFiniteSet(Msgs)
                         /\ NoMsg \notin Msgs
                         /\ Malformed \subseteq Msgs
                         /\ NoSwaps \subseteq Msgs
                         /\ Poison \subseteq Msgs

ASSUME PoolAssumption == /\ IsFiniteSet(Workers)
                         /\ Workers # {}
                         /\ Prefetch \in Nat \ {0}
                         /\ Prefetch <= Cardinality(Workers)

ASSUME BoundAssumption == /\ MaxRetries \in Nat \ {0}
                          /\ MaxPublished \in Nat /\ MaxFaults \in Nat

VARIABLES
    published,   \* history: everything ever published
    ready,       \* broker: waiting for delivery
    unacked,     \* broker: delivered, neither acked nor nacked
    acked,       \* broker: acknowledged and forgotten
    rejected,    \* broker: nacked without requeue and forgotten
    lost,        \* broker: forgotten in a restart
    stored,      \* database: messages whose swaps are rows of swap_log
    link,        \* see above
    ctx,         \* the process was asked to stop
    inbox,       \* client library: deliveries not yet received from msgs
    fwd,         \* forwarder: "range", "send", "returned" or "closed"
    fwdMsg,      \* the delivery the forwarder is sending
    rabbitChan,  \* buffered channel of capacity qh.workers
    pc,          \* what each worker is doing
    held,        \* the delivery x of each worker
    retry,       \* failed attempts of its insertBatch
    wg,          \* the counter of qh.workerWg
    faults       \* faults so far

brokerVars == <<published, ready, unacked, acked, rejected, lost>>
chanVars   == <<inbox, fwd, fwdMsg, rabbitChan>>
workerVars == <<pc, held, retry, wg>>
vars == <<brokerVars, stored, link, ctx, chanVars, workerVars, faults>>

Links == {"down", "open", "lost", "connClosed", "chanClosed"}
PCs   == {"select", "decode", "insert", "ack", "exited"}

TypeOK == /\ published \subseteq Msgs
          /\ ready \subseteq Msgs
          /\ unacked \subseteq Msgs
          /\ acked \subseteq Msgs
          /\ rejected \subseteq Msgs
          /\ lost \subseteq Msgs
          /\ stored \subseteq Msgs
          /\ link \in Links
          /\ ctx \in {"live", "done"}
          /\ inbox \subseteq Msgs
          /\ fwd \in {"range", "send", "returned", "closed"}
          /\ fwdMsg \in Msgs \union {NoMsg}
          /\ rabbitChan \subseteq Msgs
          /\ pc \in [Workers -> PCs]
          /\ held \in [Workers -> Msgs \union {NoMsg}]
          /\ retry \in [Workers -> 0..MaxRetries]
          /\ wg \in 0..Cardinality(Workers)
          /\ faults \in 0..MaxFaults

-----------------------------------------------------------------------------
(* The process: start, death, shutdown.                                    *)

(* The local state of a process that has just called ListenToSolanaQueue;  *)
(* a process that does not run has the same values.                        *)
FreshProcess == /\ ctx' = "live"
                /\ inbox' = {}
                /\ fwd' = "range"
                /\ fwdMsg' = NoMsg
                /\ rabbitChan' = {}
                /\ pc' = [w \in Workers |-> "select"]
                /\ held' = [w \in Workers |-> NoMsg]
                /\ retry' = [w \in Workers |-> 0]
                /\ wg' = Cardinality(Workers)

Init == /\ published = {}
        /\ ready = {}
        /\ unacked = {}
        /\ acked = {}
        /\ rejected = {}
        /\ lost = {}
        /\ stored = {}
        /\ link = "down"
        /\ ctx = "live"
        /\ inbox = {}
        /\ fwd = "range"
        /\ fwdMsg = NoMsg
        /\ rabbitChan = {}
        /\ pc = [w \in Workers |-> "select"]
        /\ held = [w \in Workers |-> NoMsg]
        /\ retry = [w \in Workers |-> 0]
        /\ wg = Cardinality(Workers)
        /\ faults = 0

Up == link # "down"

Fault == /\ faults < MaxFaults
         /\ faults' = faults + 1

(* The supervisor (restart: unless-stopped) starts the process: it         *)
(* connects, starts the workers, sets the prefetch and consumes.  The      *)
(* failures on the way all end in log.Fatalf, after which it is started    *)
(* again.                                                                  *)
ListenToSolanaQueue == /\ link = "down"
                       /\ link' = "open"
                       /\ FreshProcess
                       /\ UNCHANGED <<brokerVars, stored, faults>>

(* A panic, log.Fatalf, the OOM killer or the end of main: the broker      *)
(* requeues what was unacked.                                              *)
ProcessDies == /\ link' = "down"
               /\ ready' = ready \union unacked
               /\ unacked' = {}
               /\ FreshProcess
               /\ UNCHANGED <<published, acked, rejected, lost>>

Crash == /\ Up
         /\ Fault
         /\ ProcessDies
         /\ UNCHANGED stored

(* SIGINT cancels the context; main returns without waiting for workers.   *)
Cancel == /\ Up
          /\ ctx = "live"
          /\ Fault
          /\ ctx' = "done"
          /\ UNCHANGED <<brokerVars, stored, link, chanVars, workerVars>>

MainReturns == /\ Up
               /\ ctx = "done"
               /\ ProcessDies
               /\ UNCHANGED <<stored, faults>>

-----------------------------------------------------------------------------
(* The broker and the connection (external).                               *)

(* A producer's AddToSolanaQueue reached the broker.                       *)
Publish(m) == /\ m \notin published
              /\ Cardinality(published) < MaxPublished
              /\ published' = published \union {m}
              /\ ready' = ready \union {m}
              /\ UNCHANGED <<unacked, acked, rejected, lost, stored, link,
                             ctx, chanVars, workerVars, faults>>

(* Mutant: Consume with autoAck.                                           *)
DeliverAutoAck(m) ==
    /\ link = "open"
    /\ m \in ready
    /\ ready' = ready \ {m}
    /\ acked' = acked \union {m}
    /\ inbox' = inbox \union {m}
    /\ UNCHANGED <<published, unacked, rejected, lost, stored, link,
                   ctx, fwd, fwdMsg, rabbitChan, workerVars, faults>>

(* The queue keeps no order that a pool of workers would preserve, so any  *)
(* ready message may be next.                                              *)
Deliver(m) == /\ link = "open"
              /\ m \in ready
              /\ Cardinality(unacked) < Prefetch
              /\ ready' = ready \ {m}
              /\ unacked' = unacked \union {m}
              /\ inbox' = inbox \union {m}
              /\ UNCHANGED <<published, acked, rejected, lost, stored, link,
                             ctx, fwd, fwdMsg, rabbitChan, workerVars, faults>>

(* The broker gives up a connection or a channel and requeues.             *)
LoseLink == /\ link = "open"
            /\ Fault
            /\ link' = "lost"
            /\ ready' = ready \union unacked
            /\ unacked' = {}
            /\ UNCHANGED <<published, acked, rejected, lost, stored, ctx,
                           chanVars, workerVars>>

(* AddToSolanaQueue publishes without DeliveryMode: the messages are       *)
(* transient although the queue is durable.                                *)
BrokerRestart == /\ Fault
                 /\ lost' = lost \union ready \union unacked
                 /\ ready' = {}
                 /\ unacked' = {}
                 /\ link' = IF link = "open" THEN "lost" ELSE link
                 /\ UNCHANGED <<published, acked, rejected, stored, ctx,
                                chanVars, workerVars>>

(* The client library notices, closes msgs and drops what is buffered.     *)
NoticeClose == /\ link = "lost"
               /\ link' \in {"connClosed", "chanClosed"}
               /\ inbox' = {}
               /\ UNCHANGED <<brokerVars, stored, ctx, fwd, fwdMsg,
                              rabbitChan, workerVars, faults>>

-----------------------------------------------------------------------------
(* The forwarder goroutine of ListenToSolanaQueue.                         *)

(* It receives a delivery and then looks at the context.                   *)
ForwardReceive(m) == /\ Up
                     /\ fwd = "range"
                     /\ m \in inbox
                     /\ inbox' = inbox \ {m}
                     /\ IF ctx = "done"
                          THEN fwd' = "returned" /\ UNCHANGED fwdMsg
                          ELSE fwd' = "send" /\ fwdMsg' = m
                     /\ UNCHANGED <<brokerVars, stored, link, ctx,
                                    rabbitChan, workerVars, faults>>

(* rabbitChan <- d blocks while the buffer is full.                        *)
ForwardSend == /\ Up
               /\ fwd = "send"
               /\ Cardinality(rabbitChan) < Cardinality(Workers)
               /\ rabbitChan' = rabbitChan \union {fwdMsg}
               /\ fwd' = "range"
               /\ fwdMsg' = NoMsg
               /\ UNCHANGED <<brokerVars, stored, link, ctx, inbox,
                              workerVars, faults>>

(* Mutant: the goroutine ends without close(qh.rabbitChan).                *)
ForwardEnds == /\ link \in {"connClosed", "chanClosed"}
               /\ fwd = "range"
               /\ fwd' = "returned"
               /\ UNCHANGED <<brokerVars, stored, link, ctx, inbox, fwdMsg,
                              rabbitChan, workerVars, faults>>

(* msgs is closed: the loop ends and rabbitChan is closed.                 *)
ForwardClose == /\ link \in {"connClosed", "chanClosed"}
                /\ fwd = "range"
                /\ fwd' = "closed"
                /\ UNCHANGED <<brokerVars, stored, link, ctx, inbox, fwdMsg,
                               rabbitChan, workerVars, faults>>

-----------------------------------------------------------------------------
(* The workers.                                                            *)

Goto(w, label) == pc' = [pc EXCEPT ![w] = label]

(* Mutant: one Done per worker, the WaitGroup as it is meant to be used.   *)
WorkerReturnsOnce(w) ==
    /\ wg' = wg - 1
    /\ Goto(w, "exited")
    /\ held' = [held EXCEPT ![w] = NoMsg]
    /\ retry' = [retry EXCEPT ![w] = 0]
    /\ UNCHANGED <<brokerVars, link, ctx, chanVars>>

(* A worker that returns runs two deferred Done calls, its own and that of *)
(* the goroutine startWorker wrapped around it, for one Add.  A counter    *)
(* below zero is a panic.                                                  *)
WorkerReturns(w) ==
    \/ /\ wg >= 2
       /\ wg' = wg - 2
       /\ Goto(w, "exited")
       /\ held' = [held EXCEPT ![w] = NoMsg]
       /\ retry' = [retry EXCEPT ![w] = 0]
       /\ UNCHANGED <<brokerVars, link, ctx, chanVars>>
    \/ /\ wg < 2
       /\ ProcessDies

(* case x, ok := <-qh.rabbitChan *)
Receive(w) == /\ Up
              /\ pc[w] = "select"
              /\ \E m \in rabbitChan :
                    /\ rabbitChan' = rabbitChan \ {m}
                    /\ held' = [held EXCEPT ![w] = m]
              /\ Goto(w, "decode")
              /\ UNCHANGED <<brokerVars, stored, link, ctx, inbox, fwd,
                             fwdMsg, retry, wg, faults>>

(* The channel is closed and empty, or the context is done.                *)
Leave(w) == /\ Up
            /\ pc[w] = "select"
            /\ (fwd = "closed" /\ rabbitChan = {}) \/ ctx = "done"
            /\ WorkerReturns(w)
            /\ UNCHANGED <<stored, faults>>

(* Mutant: Nack(false, true).                                              *)
NackRequeues(w) == /\ Up
                   /\ pc[w] = "decode"
                   /\ held[w] \in Malformed
                   /\ IF link = "open"
                        THEN /\ unacked' = unacked \ {held[w]}
                             /\ ready' = ready \union {held[w]}
                        ELSE UNCHANGED <<unacked, ready>>
                   /\ Goto(w, "select")
                   /\ held' = [held EXCEPT ![w] = NoMsg]
                   /\ UNCHANGED <<published, acked, rejected, lost, stored, link,
                                  ctx, chanVars, retry, wg, faults>>

(* The body does not parse: Nack(false, false), whose error is logged.     *)
Nack(w) == /\ Up
           /\ pc[w] = "decode"
           /\ held[w] \in Malformed
           /\ IF link = "open"
                THEN /\ unacked' = unacked \ {held[w]}
                     /\ rejected' = rejected \union {held[w]}
                ELSE UNCHANGED <<unacked, rejected>>
           /\ Goto(w, "select")
           /\ held' = [held EXCEPT ![w] = NoMsg]
           /\ UNCHANGED <<published, ready, acked, lost, stored, link, ctx,
                          chanVars, retry, wg, faults>>

(* The body parses.  A closed connection is reopened, or the process ends  *)
(* in connectToRabbitMQ's log.Fatalf: reconnect() never sees a failure.    *)
(* The transactions are then processed by the ten goroutines.              *)
Process(w) == /\ Up
              /\ pc[w] = "decode"
              /\ held[w] \notin Malformed
              /\ \/ /\ held[w] \notin Poison
                    /\ link' = IF link = "connClosed" THEN "chanClosed" ELSE link
                    /\ Goto(w, IF held[w] \in NoSwaps THEN "ack" ELSE "insert")
                    /\ UNCHANGED <<brokerVars, ctx, chanVars, held, retry, wg>>
                 \/ /\ held[w] \in Poison \/ link = "connClosed"
                    /\ ProcessDies
              /\ UNCHANGED <<stored, faults>>

(* insertBatch: an attempt succeeds.  The rows conflict with their own     *)
(* earlier copies and are written once.                                    *)
InsertSucceeds(w) == /\ Up
                     /\ pc[w] = "insert"
                     /\ stored' = stored \union {held[w]}
                     /\ Goto(w, "ack")
                     /\ retry' = [retry EXCEPT ![w] = 0]
                     /\ UNCHANGED <<brokerVars, link, ctx, chanVars, held, wg,
                                    faults>>

(* Mutant: Nack(false, false) after the last failed attempt.               *)
InsertFailsNacks(w) ==
    /\ Up
    /\ pc[w] = "insert"
    /\ link = "open"
    /\ unacked' = unacked \ {held[w]}
    /\ rejected' = rejected \union {held[w]}
    /\ Goto(w, "select")
    /\ held' = [held EXCEPT ![w] = NoMsg]
    /\ UNCHANGED <<published, ready, acked, lost, stored, link, ctx, chanVars,
                   retry, wg, faults>>

(* Mutant: the error of the last attempt is logged, and x is acknowledged. *)
InsertFailsGoesOn(w) ==
    /\ Up
    /\ pc[w] = "insert"
    /\ IF retry[w] + 1 < MaxRetries
         THEN retry' = [retry EXCEPT ![w] = @ + 1] /\ UNCHANGED pc
         ELSE retry' = [retry EXCEPT ![w] = 0] /\ Goto(w, "ack")
    /\ UNCHANGED <<brokerVars, stored, link, ctx, chanVars, held, wg, faults>>

(* An attempt returns an error, after the statement was executed or not.   *)
(* The database may do so any number of times.                             *)
(* The last one makes the worker return with x neither acked nor nacked.   *)
InsertFails(w) == /\ Up
                  /\ pc[w] = "insert"
                  /\ stored' \in {stored, stored \union {held[w]}}
                  /\ \/ /\ retry[w] + 1 < MaxRetries
                        /\ retry' = [retry EXCEPT ![w] = @ + 1]
                        /\ UNCHANGED <<brokerVars, link, ctx, chanVars, pc,
                                       held, wg>>
                     \/ /\ retry[w] + 1 >= MaxRetries
                        /\ WorkerReturns(w)
                  /\ UNCHANGED faults

(* x.Ack(false) goes to the channel x came from.                           *)
Ack(w) == /\ Up
          /\ pc[w] = "ack"
          /\ \/ /\ link \in {"open", "lost"}
                /\ IF link = "open"
                     THEN /\ unacked' = unacked \ {held[w]}
                          /\ acked' = acked \union {held[w]}
                     ELSE UNCHANGED <<unacked, acked>>
                /\ Goto(w, "select")
                /\ held' = [held EXCEPT ![w] = NoMsg]
                /\ UNCHANGED <<published, ready, rejected, lost, link, ctx,
                               chanVars, retry, wg>>
             \/ /\ link # "open"
                /\ WorkerReturns(w)
          /\ UNCHANGED <<stored, faults>>

-----------------------------------------------------------------------------
WorkerStep(w) == Receive(w) \/ Leave(w) \/ Nack(w) \/ Process(w)
                   \/ InsertSucceeds(w) \/ InsertFails(w) \/ Ack(w)

ForwarderStep == (\E m \in Msgs : ForwardReceive(m)) \/ ForwardSend \/ ForwardClose

Next == \/ ListenToSolanaQueue \/ Crash \/ Cancel \/ MainReturns
        \/ \E m \in Msgs : Publish(m) \/ Deliver(m)
        \/ LoseLink \/ BrokerRestart \/ NoticeClose
        \/ ForwarderStep
        \/ \E w \in Workers : WorkerStep(w)

Spec == Init /\ [][Next]_vars

(* The supervisor restarts, the broker delivers, dead connections are      *)
(* noticed (heartbeats) and goroutines are scheduled.  Producers, signals  *)
(* and faults owe nothing.                                                 *)
Fairness == /\ WF_vars(ListenToSolanaQueue)
            /\ WF_vars(MainReturns)
            /\ WF_vars(\E m \in Msgs : Deliver(m))
            /\ WF_vars(NoticeClose)
            /\ WF_vars(ForwarderStep)
            /\ \A w \in Workers : WF_vars(WorkerStep(w))

FairSpec == Spec /\ Fairness

-----------------------------------------------------------------------------
(* Properties.                                                             *)

Held == {held[w] : w \in Workers} \ {NoMsg}

Buffered == inbox \union rabbitChan \union (IF fwd = "send" THEN {fwdMsg} ELSE {})

Exited == {w \in Workers : pc[w] = "exited"}

(* Deliveries the broker waits for and nobody in the process has.          *)
Orphans == unacked \ (Buffered \union Held)

(* An acknowledged message is well-formed and its swaps are in swap_log,   *)
(* whatever sequence of failed attempts, dropped connections and restarts  *)
(* led to the x.Ack of solanaWorker.                                       *)
AckedAreStored == acked \subseteq (stored \union NoSwaps) \ Malformed

(* The broker never forgets a published message except by an ack, a nack   *)
(* of a malformed body or its own restart, and counts none twice: the      *)
(* requeues of solanaWorker's early returns and of dead processes neither  *)
(* drop a message nor bring an acknowledged one back.                      *)
Accounted == /\ published = ready \union unacked \union acked \union rejected \union lost
             /\ ready \intersect (unacked \union acked \union rejected \union lost) = {}
             /\ unacked \intersect (acked \union rejected \union lost) = {}
             /\ acked \intersect (rejected \union lost) = {}
             /\ rejected \intersect lost = {}
             /\ rejected \subseteq Malformed

(* The blocking send rabbitChan <- d of the forwarder finds room: the      *)
(* prefetch bounds what can pile up between msgs and the workers, also     *)
(* when half of the pool is gone or the broker has requeued everything.    *)
ForwarderNeverBlocks == fwd = "send" => Cardinality(rabbitChan) < Cardinality(Workers)

(* No delivery is in two places of the process, so no two workers store    *)
(* and acknowledge it; while the channel is open, the broker knows each    *)
(* one as unacked.                                                         *)
SingleHolder ==
    /\ \A v, w \in Workers : v # w /\ held[v] # NoMsg => held[v] # held[w]
    /\ Buffered \intersect Held = {}
    /\ inbox \intersect rabbitChan = {}
    /\ fwd = "send" => fwdMsg \notin inbox \union rabbitChan
    /\ link = "open" => Buffered \union Held \subseteq unacked

(* Every worker that insertBatch made return left exactly one delivery     *)
(* behind that stays unacked, which takes one of the Prefetch slots; and   *)
(* at most half of the pool can leave before the WaitGroup panics.         *)
OrphanPerExit ==
    /\ 2 * Cardinality(Exited) <= Cardinality(Workers)
    /\ link = "open" /\ ctx = "live" => Cardinality(Orphans) = Cardinality(Exited)

(* The pool of solanaWorker: each delivery has one holder, the forwarder   *)
(* finds room, and each worker that gave up left one delivery behind.      *)
PoolSafe == TypeOK /\ SingleHolder /\ ForwarderNeverBlocks /\ OrphanPerExit

-----------------------------------------------------------------------------
(* What makes the invariants above inductive.                              *)

(* A worker has a delivery exactly between receiving and finishing it, and *)
(* reaches Ack only with a well-formed one whose swaps are written.        *)
WorkerInv ==
    \A w \in Workers :
        /\ held[w] # NoMsg <=> pc[w] \in {"decode", "insert", "ack"}
        /\ pc[w] \in {"insert", "ack"} => held[w] \notin Malformed
        /\ pc[w] = "ack" => held[w] \in stored \union NoSwaps

(* What the connection says about the rest of the state.                   *)
LinkInv == /\ fwd = "send" <=> fwdMsg # NoMsg
           /\ link # "open" => unacked = {}
           /\ link = "down" => /\ inbox = {}
                               /\ rabbitChan = {}
                               /\ fwd = "range"
                               /\ pc = [w \in Workers |-> "select"]
           /\ fwd = "closed" => link \in {"connClosed", "chanClosed"}
           /\ link \in {"connClosed", "chanClosed"} => inbox = {}

(* What the process holds was published and is not settled: this is what   *)
(* keeps a stale delivery from being stored after its ack.                 *)
CopyInv == Buffered \union Held \subseteq published \ (acked \union rejected)

(* The prefetch bounds the deliveries on their way to the workers, also    *)
(* those the broker has requeued since.                                    *)
BufferInv == /\ Cardinality(unacked) <= Prefetch
             /\ Cardinality(Buffered) <= Prefetch

CounterInv == wg = Cardinality(Workers) - 2 * Cardinality(Exited)

(* The inductive invariant of the pool: deliveries, acks and the counter   *)
(* of solanaWorker's deferred Done calls together.                         *)
QueueInv == /\ TypeOK
            /\ WorkerInv
            /\ LinkInv
            /\ CopyInv
            /\ SingleHolder
            /\ Accounted
            /\ AckedAreStored
            /\ BufferInv
            /\ CounterInv
            /\ OrphanPerExit

(* The processor implements the ledger.                                    *)
StatusOf(m) == CASE m \notin published -> "unpublished"
                 [] m \in acked        -> "settled"
                 [] m \in rejected     -> "rejected"
                 [] m \in lost         -> "lost"
                 [] OTHER              -> "pending"

ledgerStatus == [m \in Msgs |-> StatusOf(m)]

Ledger == INSTANCE MessageLedger WITH status <- ledgerStatus

(* The worker pool with its retries, reconnects and restarts implements    *)
(* MessageLedger: in particular no InsertSwaps of a message runs after     *)
(* its ack, and none is acknowledged before its rows are written.          *)
ImplementsLedger == Ledger!LedgerSpec

(* Every slot of the prefetch window is taken by a delivery that a         *)
(* returned worker left behind: nothing is delivered until the connection  *)
(* breaks.                                                                 *)
Wedged == link = "open" /\ Cardinality(Exited) >= Prefetch

(* Deliveries that a worker left behind when it returned after MaxRetries  *)
(* failed attempts: unacked on a link that is still open.                  *)
Abandoned == IF ctx = "live" THEN Orphans ELSE {}

(* A message that waits in the queue is eventually acknowledged, rejected  *)
(* or lost with the broker, or it is abandoned: insertBatch failed         *)
(* MaxRetries times, solanaWorker returned without an ack or a nack, and   *)
(* nothing redelivers the message before the link breaks.  It may also     *)
(* wait because the abandoned messages use up the prefetch window, or      *)
(* because a block that kills its process is in the queue as well and may  *)
(* be delivered first after every restart.                                 *)
HandledOrAbandoned ==
    \A m \in Msgs : m \in ready ~> \/ m \in acked \union rejected \union lost
                                   \/ m \in Abandoned
                                   \/ Wedged
                                   \/ Poison \intersect (ready \union unacked) # {}

(* After the consuming channel is gone the process consumes again in the   *)
(* end.  No line of queue.go calls Consume a second time: recovery goes    *)
(* through the panic of the WaitGroup and the supervisor.                  *)
ConsumerRecovers == link \in {"lost", "connClosed", "chanClosed"} ~> link = "open"
=============================================================================
