------------------------ MODULE QueueHandlerProofs ------------------------
(***************************************************************************)
(* Proofs about QueueHandler: for every pool, prefetch, number of retries  *)
(* and set of messages.                                                    *)
(***************************************************************************)
EXTENDS QueueHandler, FiniteSetTheorems, TLAPS

(* The size of the pool is a natural number.                               *)
LEMMA PoolSize == Cardinality(Workers) \in Nat
  BY PoolAssumption, FS_CardinalityType

(* Every step keeps the types.  That a worker stores or acks a message and *)
(* the forwarder sends one needs WorkerInv and LinkInv.                    *)
LEMMA TypeStep == TypeOK /\ WorkerInv /\ LinkInv /\ [Next]_vars => TypeOK'
<1> SUFFICES ASSUME TypeOK, WorkerInv, LinkInv, [Next]_vars PROVE TypeOK'
  OBVIOUS
<1> USE PoolSize, BoundAssumption, MsgsAssumption
<1> USE DEF TypeOK, Links, PCs, WorkerInv, LinkInv, brokerVars, chanVars, workerVars, Up
<1>1. CASE ListenToSolanaQueue
  BY <1>1 DEF ListenToSolanaQueue, FreshProcess
<1>2. CASE Crash
  BY <1>2 DEF Crash, Fault, ProcessDies, FreshProcess
<1>3. CASE Cancel
  BY <1>3 DEF Cancel, Fault
<1>4. CASE MainReturns
  BY <1>4 DEF MainReturns, ProcessDies, FreshProcess
<1>5. ASSUME NEW m \in Msgs, Publish(m) PROVE TypeOK'
  BY <1>5 DEF Publish
<1>6. ASSUME NEW m \in Msgs, Deliver(m) PROVE TypeOK'
  BY <1>6 DEF Deliver
<1>7. CASE LoseLink
  BY <1>7 DEF LoseLink, Fault
<1>8. CASE BrokerRestart
  BY <1>8 DEF BrokerRestart, Fault
<1>9. CASE NoticeClose
  BY <1>9 DEF NoticeClose
<1>10. ASSUME NEW m \in Msgs, ForwardReceive(m) PROVE TypeOK'
  BY <1>10 DEF ForwardReceive
<1>11. CASE ForwardSend
  BY <1>11 DEF ForwardSend
<1>12. CASE ForwardClose
  BY <1>12 DEF ForwardClose
<1>13. ASSUME NEW w \in Workers, Receive(w) PROVE TypeOK'
  BY <1>13 DEF Receive, Goto
<1>14. ASSUME NEW w \in Workers, Leave(w) PROVE TypeOK'
  BY <1>14 DEF Leave, WorkerReturns, ProcessDies, FreshProcess, Goto
<1>15. ASSUME NEW w \in Workers, Nack(w) PROVE TypeOK'
  BY <1>15 DEF Nack, Goto
<1>16. ASSUME NEW w \in Workers, Process(w) PROVE TypeOK'
  BY <1>16 DEF Process, ProcessDies, FreshProcess, Goto
<1>17. ASSUME NEW w \in Workers, InsertSucceeds(w) PROVE TypeOK'
  BY <1>17 DEF InsertSucceeds, Goto
<1>18. ASSUME NEW w \in Workers, InsertFails(w) PROVE TypeOK'
  BY <1>18 DEF InsertFails, WorkerReturns, ProcessDies, FreshProcess, Goto, Fault
<1>19. ASSUME NEW w \in Workers, Ack(w) PROVE TypeOK'
  BY <1>19 DEF Ack, WorkerReturns, ProcessDies, FreshProcess, Goto
<1>20. CASE UNCHANGED vars
  BY <1>20 DEF vars
<1> QED
  BY <1>1, <1>2, <1>3, <1>4, <1>5, <1>6, <1>7, <1>8, <1>9, <1>10,
     <1>11, <1>12, <1>13, <1>14, <1>15, <1>16, <1>17, <1>18, <1>19, <1>20
  DEF Next, ForwarderStep, WorkerStep

(* Every step keeps the relation between a worker's place and delivery.    *)
LEMMA WorkerStepInv == TypeOK /\ WorkerInv /\ LinkInv /\ [Next]_vars => WorkerInv'
<1> SUFFICES ASSUME TypeOK, WorkerInv, LinkInv, [Next]_vars PROVE WorkerInv'
  OBVIOUS
<1> USE MsgsAssumption
<1> USE DEF TypeOK, Links, PCs, WorkerInv, brokerVars, chanVars, workerVars, Up
<1>1. CASE ListenToSolanaQueue
  BY <1>1 DEF ListenToSolanaQueue, FreshProcess
<1>2. CASE Crash
  BY <1>2 DEF Crash, Fault, ProcessDies, FreshProcess
<1>3. CASE Cancel
  BY <1>3 DEF Cancel, Fault
<1>4. CASE MainReturns
  BY <1>4 DEF MainReturns, ProcessDies, FreshProcess
<1>5. ASSUME NEW m \in Msgs, Publish(m) PROVE WorkerInv'
  BY <1>5 DEF Publish
<1>6. ASSUME NEW m \in Msgs, Deliver(m) PROVE WorkerInv'
  BY <1>6 DEF Deliver
<1>7. CASE LoseLink
  BY <1>7 DEF LoseLink, Fault
<1>8. CASE BrokerRestart
  BY <1>8 DEF BrokerRestart, Fault
<1>9. CASE NoticeClose
  BY <1>9 DEF NoticeClose
<1>10. ASSUME NEW m \in Msgs, ForwardReceive(m) PROVE WorkerInv'
  BY <1>10 DEF ForwardReceive
<1>11. CASE ForwardSend
  BY <1>11 DEF ForwardSend
<1>12. CASE ForwardClose
  BY <1>12 DEF ForwardClose
<1>13. ASSUME NEW w \in Workers, Receive(w) PROVE WorkerInv'
  BY <1>13 DEF Receive, Goto
<1>14. ASSUME NEW w \in Workers, Leave(w) PROVE WorkerInv'
  BY <1>14 DEF Leave, WorkerReturns, ProcessDies, FreshProcess, Goto
<1>15. ASSUME NEW w \in Workers, Nack(w) PROVE WorkerInv'
  BY <1>15 DEF Nack, Goto
<1>16. ASSUME NEW w \in Workers, Process(w) PROVE WorkerInv'
  BY <1>16 DEF Process, ProcessDies, FreshProcess, Goto
<1>17. ASSUME NEW w \in Workers, InsertSucceeds(w) PROVE WorkerInv'
  BY <1>17 DEF InsertSucceeds, Goto
<1>18. ASSUME NEW w \in Workers, InsertFails(w) PROVE WorkerInv'
  BY <1>18 DEF InsertFails, WorkerReturns, ProcessDies, FreshProcess, Goto, Fault
<1>19. ASSUME NEW w \in Workers, Ack(w) PROVE WorkerInv'
  BY <1>19 DEF Ack, WorkerReturns, ProcessDies, FreshProcess, Goto
<1>20. CASE UNCHANGED vars
  BY <1>20 DEF vars
<1> QED
  BY <1>1, <1>2, <1>3, <1>4, <1>5, <1>6, <1>7, <1>8, <1>9, <1>10,
     <1>11, <1>12, <1>13, <1>14, <1>15, <1>16, <1>17, <1>18, <1>19, <1>20
  DEF Next, ForwarderStep, WorkerStep

(* Every step keeps what the connection says about the process.            *)
LEMMA LinkStep == TypeOK /\ WorkerInv /\ LinkInv /\ [Next]_vars => LinkInv'
<1> SUFFICES ASSUME TypeOK, WorkerInv, LinkInv, [Next]_vars PROVE LinkInv'
  OBVIOUS
<1> USE MsgsAssumption
<1> USE DEF TypeOK, Links, PCs, LinkInv, brokerVars, chanVars, workerVars, Up
<1>1. CASE ListenToSolanaQueue
  BY <1>1 DEF ListenToSolanaQueue, FreshProcess
<1>2. CASE Crash
  BY <1>2 DEF Crash, Fault, ProcessDies, FreshProcess
<1>3. CASE Cancel
  BY <1>3 DEF Cancel, Fault
<1>4. CASE MainReturns
  BY <1>4 DEF MainReturns, ProcessDies, FreshProcess
<1>5. ASSUME NEW m \in Msgs, Publish(m) PROVE LinkInv'
  BY <1>5 DEF Publish
<1>6. ASSUME NEW m \in Msgs, Deliver(m) PROVE LinkInv'
  BY <1>6 DEF Deliver
<1>7. CASE LoseLink
  BY <1>7 DEF LoseLink, Fault
<1>8. CASE BrokerRestart
  BY <1>8 DEF BrokerRestart, Fault
<1>9. CASE NoticeClose
  BY <1>9 DEF NoticeClose
<1>10. ASSUME NEW m \in Msgs, ForwardReceive(m) PROVE LinkInv'
  BY <1>10 DEF ForwardReceive
<1>11. CASE ForwardSend
  BY <1>11 DEF ForwardSend
<1>12. CASE ForwardClose
  BY <1>12 DEF ForwardClose
<1>13. ASSUME NEW w \in Workers, Receive(w) PROVE LinkInv'
  BY <1>13 DEF Receive, Goto
<1>14. ASSUME NEW w \in Workers, Leave(w) PROVE LinkInv'
  BY <1>14 DEF Leave, WorkerReturns, ProcessDies, FreshProcess, Goto
<1>15. ASSUME NEW w \in Workers, Nack(w) PROVE LinkInv'
  BY <1>15 DEF Nack, Goto
<1>16. ASSUME NEW w \in Workers, Process(w) PROVE LinkInv'
  BY <1>16 DEF Process, ProcessDies, FreshProcess, Goto
<1>17. ASSUME NEW w \in Workers, InsertSucceeds(w) PROVE LinkInv'
  BY <1>17 DEF InsertSucceeds, Goto
<1>18. ASSUME NEW w \in Workers, InsertFails(w) PROVE LinkInv'
  BY <1>18 DEF InsertFails, WorkerReturns, ProcessDies, FreshProcess, Goto, Fault
<1>19. ASSUME NEW w \in Workers, Ack(w) PROVE LinkInv'
  BY <1>19 DEF Ack, WorkerReturns, ProcessDies, FreshProcess, Goto
<1>20. CASE UNCHANGED vars
  BY <1>20 DEF vars
<1> QED
  BY <1>1, <1>2, <1>3, <1>4, <1>5, <1>6, <1>7, <1>8, <1>9, <1>10,
     <1>11, <1>12, <1>13, <1>14, <1>15, <1>16, <1>17, <1>18, <1>19, <1>20
  DEF Next, ForwarderStep, WorkerStep

(* Every step keeps each delivery in one place.                            *)
LEMMA HolderStep == TypeOK /\ WorkerInv /\ LinkInv /\ SingleHolder /\ Accounted /\ [Next]_vars => SingleHolder'
<1> SUFFICES ASSUME TypeOK, WorkerInv, LinkInv, SingleHolder, Accounted, [Next]_vars PROVE SingleHolder'
  OBVIOUS
<1> USE MsgsAssumption
<1> USE DEF TypeOK, Links, PCs, WorkerInv, LinkInv, SingleHolder, Buffered, Held, Accounted, brokerVars, chanVars, workerVars, Up
<1>1. CASE ListenToSolanaQueue
  BY <1>1 DEF ListenToSolanaQueue, FreshProcess
<1>2. CASE Crash
  BY <1>2 DEF Crash, Fault, ProcessDies, FreshProcess
<1>3. CASE Cancel
  BY <1>3 DEF Cancel, Fault
<1>4. CASE MainReturns
  BY <1>4 DEF MainReturns, ProcessDies, FreshProcess
<1>5. ASSUME NEW m \in Msgs, Publish(m) PROVE SingleHolder'
  BY <1>5 DEF Publish
<1>6. ASSUME NEW m \in Msgs, Deliver(m) PROVE SingleHolder'
  BY <1>6 DEF Deliver
<1>7. CASE LoseLink
  BY <1>7 DEF LoseLink, Fault
<1>8. CASE BrokerRestart
  BY <1>8 DEF BrokerRestart, Fault
<1>9. CASE NoticeClose
  BY <1>9 DEF NoticeClose
<1>10. ASSUME NEW m \in Msgs, ForwardReceive(m) PROVE SingleHolder'
  BY <1>10 DEF ForwardReceive
<1>11. CASE ForwardSend
  BY <1>11 DEF ForwardSend
<1>12. CASE ForwardClose
  BY <1>12 DEF ForwardClose
<1>13. ASSUME NEW w \in Workers, Receive(w) PROVE SingleHolder'
  BY <1>13 DEF Receive, Goto
<1>14. ASSUME NEW w \in Workers, Leave(w) PROVE SingleHolder'
  BY <1>14 DEF Leave, WorkerReturns, ProcessDies, FreshProcess, Goto
<1>15. ASSUME NEW w \in Workers, Nack(w) PROVE SingleHolder'
  BY <1>15 DEF Nack, Goto
<1>16. ASSUME NEW w \in Workers, Process(w) PROVE SingleHolder'
  BY <1>16 DEF Process, ProcessDies, FreshProcess, Goto
<1>17. ASSUME NEW w \in Workers, InsertSucceeds(w) PROVE SingleHolder'
  BY <1>17 DEF InsertSucceeds, Goto
<1>18. ASSUME NEW w \in Workers, InsertFails(w) PROVE SingleHolder'
  BY <1>18 DEF InsertFails, WorkerReturns, ProcessDies, FreshProcess, Goto, Fault
<1>19. ASSUME NEW w \in Workers, Ack(w) PROVE SingleHolder'
  BY <1>19 DEF Ack, WorkerReturns, ProcessDies, FreshProcess, Goto
<1>20. CASE UNCHANGED vars
  BY <1>20 DEF vars
<1> QED
  BY <1>1, <1>2, <1>3, <1>4, <1>5, <1>6, <1>7, <1>8, <1>9, <1>10,
     <1>11, <1>12, <1>13, <1>14, <1>15, <1>16, <1>17, <1>18, <1>19, <1>20
  DEF Next, ForwarderStep, WorkerStep

(* Every step keeps the broker's books.                                    *)
LEMMA AccountStep == TypeOK /\ WorkerInv /\ LinkInv /\ SingleHolder /\ Accounted /\ [Next]_vars => Accounted'
<1> SUFFICES ASSUME TypeOK, WorkerInv, LinkInv, SingleHolder, Accounted, [Next]_vars PROVE Accounted'
  OBVIOUS
<1> USE MsgsAssumption
<1> USE DEF TypeOK, Links, PCs, WorkerInv, LinkInv, SingleHolder, Buffered, Held, Accounted, brokerVars, chanVars, workerVars, Up
<1>1. CASE ListenToSolanaQueue
  BY <1>1 DEF ListenToSolanaQueue, FreshProcess
<1>2. CASE Crash
  BY <1>2 DEF Crash, Fault, ProcessDies, FreshProcess
<1>3. CASE Cancel
  BY <1>3 DEF Cancel, Fault
<1>4. CASE MainReturns
  BY <1>4 DEF MainReturns, ProcessDies, FreshProcess
<1>5. ASSUME NEW m \in Msgs, Publish(m) PROVE Accounted'
  BY <1>5 DEF Publish
<1>6. ASSUME NEW m \in Msgs, Deliver(m) PROVE Accounted'
  BY <1>6 DEF Deliver
<1>7. CASE LoseLink
  BY <1>7 DEF LoseLink, Fault
<1>8. CASE BrokerRestart
  BY <1>8 DEF BrokerRestart, Fault
<1>9. CASE NoticeClose
  BY <1>9 DEF NoticeClose
<1>10. ASSUME NEW m \in Msgs, ForwardReceive(m) PROVE Accounted'
  BY <1>10 DEF ForwardReceive
<1>11. CASE ForwardSend
  BY <1>11 DEF ForwardSend
<1>12. CASE ForwardClose
  BY <1>12 DEF ForwardClose
<1>13. ASSUME NEW w \in Workers, Receive(w) PROVE Accounted'
  BY <1>13 DEF Receive, Goto
<1>14. ASSUME NEW w \in Workers, Leave(w) PROVE Accounted'
  BY <1>14 DEF Leave, WorkerReturns, ProcessDies, FreshProcess, Goto
<1>15. ASSUME NEW w \in Workers, Nack(w) PROVE Accounted'
  BY <1>15 DEF Nack, Goto
<1>16. ASSUME NEW w \in Workers, Process(w) PROVE Accounted'
  BY <1>16 DEF Process, ProcessDies, FreshProcess, Goto
<1>17. ASSUME NEW w \in Workers, InsertSucceeds(w) PROVE Accounted'
  BY <1>17 DEF InsertSucceeds, Goto
<1>18. ASSUME NEW w \in Workers, InsertFails(w) PROVE Accounted'
  BY <1>18 DEF InsertFails, WorkerReturns, ProcessDies, FreshProcess, Goto, Fault
<1>19. ASSUME NEW w \in Workers, Ack(w) PROVE Accounted'
  BY <1>19 DEF Ack, WorkerReturns, ProcessDies, FreshProcess, Goto
<1>20. CASE UNCHANGED vars
  BY <1>20 DEF vars
<1> QED
  BY <1>1, <1>2, <1>3, <1>4, <1>5, <1>6, <1>7, <1>8, <1>9, <1>10,
     <1>11, <1>12, <1>13, <1>14, <1>15, <1>16, <1>17, <1>18, <1>19, <1>20
  DEF Next, ForwarderStep, WorkerStep

(* What a process holds stays published and unsettled.                     *)
LEMMA CopyStep == TypeOK /\ WorkerInv /\ LinkInv /\ SingleHolder /\ Accounted /\ CopyInv /\ [Next]_vars => CopyInv'
<1> SUFFICES ASSUME TypeOK, WorkerInv, LinkInv, SingleHolder, Accounted, CopyInv, [Next]_vars PROVE CopyInv'
  OBVIOUS
<1> USE MsgsAssumption
<1> USE DEF TypeOK, Links, PCs, WorkerInv, LinkInv, SingleHolder, Buffered, Held, Accounted, CopyInv, brokerVars, chanVars, workerVars, Up
<1>1. CASE ListenToSolanaQueue
  BY <1>1 DEF ListenToSolanaQueue, FreshProcess
<1>2. CASE Crash
  BY <1>2 DEF Crash, Fault, ProcessDies, FreshProcess
<1>3. CASE Cancel
  BY <1>3 DEF Cancel, Fault
<1>4. CASE MainReturns
  BY <1>4 DEF MainReturns, ProcessDies, FreshProcess
<1>5. ASSUME NEW m \in Msgs, Publish(m) PROVE CopyInv'
  BY <1>5 DEF Publish
<1>6. ASSUME NEW m \in Msgs, Deliver(m) PROVE CopyInv'
  BY <1>6 DEF Deliver
<1>7. CASE LoseLink
  BY <1>7 DEF LoseLink, Fault
<1>8. CASE BrokerRestart
  BY <1>8 DEF BrokerRestart, Fault
<1>9. CASE NoticeClose
  BY <1>9 DEF NoticeClose
<1>10. ASSUME NEW m \in Msgs, ForwardReceive(m) PROVE CopyInv'
  BY <1>10 DEF ForwardReceive
<1>11. CASE ForwardSend
  BY <1>11 DEF ForwardSend
<1>12. CASE ForwardClose
  BY <1>12 DEF ForwardClose
<1>13. ASSUME NEW w \in Workers, Receive(w) PROVE CopyInv'
  BY <1>13 DEF Receive, Goto
<1>14. ASSUME NEW w \in Workers, Leave(w) PROVE CopyInv'
  BY <1>14 DEF Leave, WorkerReturns, ProcessDies, FreshProcess, Goto
<1>15. ASSUME NEW w \in Workers, Nack(w) PROVE CopyInv'
  BY <1>15 DEF Nack, Goto
<1>16. ASSUME NEW w \in Workers, Process(w) PROVE CopyInv'
  BY <1>16 DEF Process, ProcessDies, FreshProcess, Goto
<1>17. ASSUME NEW w \in Workers, InsertSucceeds(w) PROVE CopyInv'
  BY <1>17 DEF InsertSucceeds, Goto
<1>18. ASSUME NEW w \in Workers, InsertFails(w) PROVE CopyInv'
  BY <1>18 DEF InsertFails, WorkerReturns, ProcessDies, FreshProcess, Goto, Fault
<1>19. ASSUME NEW w \in Workers, Ack(w) PROVE CopyInv'
  BY <1>19 DEF Ack, WorkerReturns, ProcessDies, FreshProcess, Goto
<1>20. CASE UNCHANGED vars
  BY <1>20 DEF vars
<1> QED
  BY <1>1, <1>2, <1>3, <1>4, <1>5, <1>6, <1>7, <1>8, <1>9, <1>10,
     <1>11, <1>12, <1>13, <1>14, <1>15, <1>16, <1>17, <1>18, <1>19, <1>20
  DEF Next, ForwarderStep, WorkerStep

(* Nothing is acknowledged before it is stored.                            *)
LEMMA AckStep == TypeOK /\ WorkerInv /\ LinkInv /\ AckedAreStored /\ [Next]_vars => AckedAreStored'
<1> SUFFICES ASSUME TypeOK, WorkerInv, LinkInv, AckedAreStored, [Next]_vars PROVE AckedAreStored'
  OBVIOUS
<1> USE MsgsAssumption
<1> USE DEF TypeOK, Links, PCs, WorkerInv, LinkInv, AckedAreStored, brokerVars, chanVars, workerVars, Up
<1>1. CASE ListenToSolanaQueue
  BY <1>1 DEF ListenToSolanaQueue, FreshProcess
<1>2. CASE Crash
  BY <1>2 DEF Crash, Fault, ProcessDies, FreshProcess
<1>3. CASE Cancel
  BY <1>3 DEF Cancel, Fault
<1>4. CASE MainReturns
  BY <1>4 DEF MainReturns, ProcessDies, FreshProcess
<1>5. ASSUME NEW m \in Msgs, Publish(m) PROVE AckedAreStored'
  BY <1>5 DEF Publish
<1>6. ASSUME NEW m \in Msgs, Deliver(m) PROVE AckedAreStored'
  BY <1>6 DEF Deliver
<1>7. CASE LoseLink
  BY <1>7 DEF LoseLink, Fault
<1>8. CASE BrokerRestart
  BY <1>8 DEF BrokerRestart, Fault
<1>9. CASE NoticeClose
  BY <1>9 DEF NoticeClose
<1>10. ASSUME NEW m \in Msgs, ForwardReceive(m) PROVE AckedAreStored'
  BY <1>10 DEF ForwardReceive
<1>11. CASE ForwardSend
  BY <1>11 DEF ForwardSend
<1>12. CASE ForwardClose
  BY <1>12 DEF ForwardClose
<1>13. ASSUME NEW w \in Workers, Receive(w) PROVE AckedAreStored'
  BY <1>13 DEF Receive, Goto
<1>14. ASSUME NEW w \in Workers, Leave(w) PROVE AckedAreStored'
  BY <1>14 DEF Leave, WorkerReturns, ProcessDies, FreshProcess, Goto
<1>15. ASSUME NEW w \in Workers, Nack(w) PROVE AckedAreStored'
  BY <1>15 DEF Nack, Goto
<1>16. ASSUME NEW w \in Workers, Process(w) PROVE AckedAreStored'
  BY <1>16 DEF Process, ProcessDies, FreshProcess, Goto
<1>17. ASSUME NEW w \in Workers, InsertSucceeds(w) PROVE AckedAreStored'
  BY <1>17 DEF InsertSucceeds, Goto
<1>18. ASSUME NEW w \in Workers, InsertFails(w) PROVE AckedAreStored'
  BY <1>18 DEF InsertFails, WorkerReturns, ProcessDies, FreshProcess, Goto, Fault
<1>19. ASSUME NEW w \in Workers, Ack(w) PROVE AckedAreStored'
  BY <1>19 DEF Ack, WorkerReturns, ProcessDies, FreshProcess, Goto
<1>20. CASE UNCHANGED vars
  BY <1>20 DEF vars
<1> QED
  BY <1>1, <1>2, <1>3, <1>4, <1>5, <1>6, <1>7, <1>8, <1>9, <1>10,
     <1>11, <1>12, <1>13, <1>14, <1>15, <1>16, <1>17, <1>18, <1>19, <1>20
  DEF Next, ForwarderStep, WorkerStep

(* A step that is not a delivery only takes deliveries away.               *)
Shrinks == Buffered' \subseteq Buffered /\ unacked' \subseteq unacked

(* Only the broker's delivery adds to what is on its way or unacked.       *)
LEMMA ShrinkStep == TypeOK /\ LinkInv /\ [Next]_vars => (Shrinks \/ \E d \in Msgs : Deliver(d))
<1> SUFFICES ASSUME TypeOK, LinkInv, [Next]_vars PROVE (Shrinks \/ \E d \in Msgs : Deliver(d))
  OBVIOUS
<1> USE DEF TypeOK, Links, PCs, LinkInv, Shrinks, Buffered, brokerVars, chanVars, workerVars, Up
<1>1. CASE ListenToSolanaQueue
  BY <1>1 DEF ListenToSolanaQueue, FreshProcess
<1>2. CASE Crash
  BY <1>2 DEF Crash, Fault, ProcessDies, FreshProcess
<1>3. CASE Cancel
  BY <1>3 DEF Cancel, Fault
<1>4. CASE MainReturns
  BY <1>4 DEF MainReturns, ProcessDies, FreshProcess
<1>5. ASSUME NEW m \in Msgs, Publish(m) PROVE (Shrinks \/ \E d \in Msgs : Deliver(d))
  BY <1>5 DEF Publish
<1>6. ASSUME NEW m \in Msgs, Deliver(m) PROVE (Shrinks \/ \E d \in Msgs : Deliver(d))
  BY <1>6
<1>7. CASE LoseLink
  BY <1>7 DEF LoseLink, Fault
<1>8. CASE BrokerRestart
  BY <1>8 DEF BrokerRestart, Fault
<1>9. CASE NoticeClose
  BY <1>9 DEF NoticeClose
<1>10. ASSUME NEW m \in Msgs, ForwardReceive(m) PROVE (Shrinks \/ \E d \in Msgs : Deliver(d))
  BY <1>10 DEF ForwardReceive
<1>11. CASE ForwardSend
  BY <1>11 DEF ForwardSend
<1>12. CASE ForwardClose
  BY <1>12 DEF ForwardClose
<1>13. ASSUME NEW w \in Workers, Receive(w) PROVE (Shrinks \/ \E d \in Msgs : Deliver(d))
  BY <1>13 DEF Receive, Goto
<1>14. ASSUME NEW w \in Workers, Leave(w) PROVE (Shrinks \/ \E d \in Msgs : Deliver(d))
  BY <1>14 DEF Leave, WorkerReturns, ProcessDies, FreshProcess, Goto
<1>15. ASSUME NEW w \in Workers, Nack(w) PROVE (Shrinks \/ \E d \in Msgs : Deliver(d))
  BY <1>15 DEF Nack, Goto
<1>16. ASSUME NEW w \in Workers, Process(w) PROVE (Shrinks \/ \E d \in Msgs : Deliver(d))
  BY <1>16 DEF Process, ProcessDies, FreshProcess, Goto
<1>17. ASSUME NEW w \in Workers, InsertSucceeds(w) PROVE (Shrinks \/ \E d \in Msgs : Deliver(d))
  BY <1>17 DEF InsertSucceeds, Goto
<1>18. ASSUME NEW w \in Workers, InsertFails(w) PROVE (Shrinks \/ \E d \in Msgs : Deliver(d))
  BY <1>18 DEF InsertFails, WorkerReturns, ProcessDies, FreshProcess, Goto, Fault
<1>19. ASSUME NEW w \in Workers, Ack(w) PROVE (Shrinks \/ \E d \in Msgs : Deliver(d))
  BY <1>19 DEF Ack, WorkerReturns, ProcessDies, FreshProcess, Goto
<1>20. CASE UNCHANGED vars
  BY <1>20 DEF vars
<1> QED
  BY <1>1, <1>2, <1>3, <1>4, <1>5, <1>6, <1>7, <1>8, <1>9, <1>10,
     <1>11, <1>12, <1>13, <1>14, <1>15, <1>16, <1>17, <1>18, <1>19, <1>20
  DEF Next, ForwarderStep, WorkerStep

(* Every step keeps the prefetch bound on the deliveries on their way.     *)
LEMMA BufferStep == TypeOK /\ LinkInv /\ SingleHolder' /\ TypeOK' /\ Accounted
                      /\ LinkInv' /\ BufferInv /\ [Next]_vars => BufferInv'
<1> SUFFICES ASSUME TypeOK, LinkInv, SingleHolder', TypeOK', Accounted, LinkInv',
                    BufferInv, [Next]_vars
             PROVE  BufferInv'
  OBVIOUS
<1>1. /\ unacked \subseteq Msgs /\ Buffered \subseteq Msgs
      /\ unacked' \subseteq Msgs /\ Buffered' \subseteq Msgs
  BY MsgsAssumption DEF TypeOK, Buffered, LinkInv
<1>2. /\ IsFiniteSet(unacked) /\ IsFiniteSet(Buffered)
      /\ IsFiniteSet(unacked') /\ IsFiniteSet(Buffered')
  BY <1>1, MsgsAssumption, FS_Subset
<1>3. /\ Cardinality(unacked) \in Nat /\ Cardinality(Buffered) \in Nat
      /\ Cardinality(unacked') \in Nat /\ Cardinality(Buffered') \in Nat
  BY <1>2, FS_CardinalityType
<1>4. CASE Shrinks
  <2>1. Cardinality(unacked') <= Cardinality(unacked)
    BY <1>2, <1>4, FS_Subset DEF Shrinks
  <2>2. Cardinality(Buffered') <= Cardinality(Buffered)
    BY <1>2, <1>4, FS_Subset DEF Shrinks
  <2> QED BY <2>1, <2>2, <1>3, PoolAssumption DEF BufferInv
<1>5. ASSUME NEW m \in Msgs, Deliver(m) PROVE BufferInv'
  <2>1. unacked' = unacked \union {m} /\ m \notin unacked /\ link' = "open"
    BY <1>5 DEF Deliver, Accounted
  <2>2. Cardinality(unacked') = Cardinality(unacked) + 1
    BY <1>2, <2>1, FS_AddElement
  <2>3. Cardinality(unacked) < Prefetch
    BY <1>5 DEF Deliver
  <2>4. Buffered' \subseteq unacked'
    BY <2>1 DEF SingleHolder
  <2>5. Cardinality(Buffered') <= Cardinality(unacked')
    BY <1>2, <2>4, FS_Subset
  <2> QED BY <1>3, <2>2, <2>3, <2>5, PoolAssumption DEF BufferInv
<1> QED BY <1>4, <1>5, ShrinkStep

(* How a step changes the set of returned workers: not at all, back to     *)
(* none with a fresh process, or by one, with the two Done calls.          *)
ExitChange == \/ Exited' = Exited /\ wg' = wg
              \/ Exited' = {} /\ wg' = Cardinality(Workers)
              \/ \E v \in Workers \ Exited : Exited' = Exited \union {v} /\ wg' = wg - 2

(* Every step changes the pool in one of these ways.                        *)
LEMMA ExitStep == TypeOK /\ [Next]_vars => ExitChange
<1> SUFFICES ASSUME TypeOK, [Next]_vars PROVE ExitChange
  OBVIOUS
<1> USE DEF TypeOK, Links, PCs, Exited, ExitChange, brokerVars, chanVars, workerVars, Up
<1>1. CASE ListenToSolanaQueue
  BY <1>1 DEF ListenToSolanaQueue, FreshProcess
<1>2. CASE Crash
  BY <1>2 DEF Crash, Fault, ProcessDies, FreshProcess
<1>3. CASE Cancel
  BY <1>3 DEF Cancel, Fault
<1>4. CASE MainReturns
  BY <1>4 DEF MainReturns, ProcessDies, FreshProcess
<1>5. ASSUME NEW m \in Msgs, Publish(m) PROVE ExitChange
  BY <1>5 DEF Publish
<1>6. ASSUME NEW m \in Msgs, Deliver(m) PROVE ExitChange
  BY <1>6 DEF Deliver
<1>7. CASE LoseLink
  BY <1>7 DEF LoseLink, Fault
<1>8. CASE BrokerRestart
  BY <1>8 DEF BrokerRestart, Fault
<1>9. CASE NoticeClose
  BY <1>9 DEF NoticeClose
<1>10. ASSUME NEW m \in Msgs, ForwardReceive(m) PROVE ExitChange
  BY <1>10 DEF ForwardReceive
<1>11. CASE ForwardSend
  BY <1>11 DEF ForwardSend
<1>12. CASE ForwardClose
  BY <1>12 DEF ForwardClose
<1>13. ASSUME NEW w \in Workers, Receive(w) PROVE ExitChange
  BY <1>13 DEF Receive, Goto
<1>14. ASSUME NEW w \in Workers, Leave(w) PROVE ExitChange
  BY <1>14 DEF Leave, WorkerReturns, ProcessDies, FreshProcess, Goto
<1>15. ASSUME NEW w \in Workers, Nack(w) PROVE ExitChange
  BY <1>15 DEF Nack, Goto
<1>16. ASSUME NEW w \in Workers, Process(w) PROVE ExitChange
  BY <1>16 DEF Process, ProcessDies, FreshProcess, Goto
<1>17. ASSUME NEW w \in Workers, InsertSucceeds(w) PROVE ExitChange
  BY <1>17 DEF InsertSucceeds, Goto
<1>18. ASSUME NEW w \in Workers, InsertFails(w) PROVE ExitChange
  BY <1>18 DEF InsertFails, WorkerReturns, ProcessDies, FreshProcess, Goto, Fault
<1>19. ASSUME NEW w \in Workers, Ack(w) PROVE ExitChange
  BY <1>19 DEF Ack, WorkerReturns, ProcessDies, FreshProcess, Goto
<1>20. CASE UNCHANGED vars
  BY <1>20 DEF vars
<1> QED
  BY <1>1, <1>2, <1>3, <1>4, <1>5, <1>6, <1>7, <1>8, <1>9, <1>10,
     <1>11, <1>12, <1>13, <1>14, <1>15, <1>16, <1>17, <1>18, <1>19, <1>20
  DEF Next, ForwarderStep, WorkerStep

(* Every step keeps the counter of the WaitGroup.                           *)
LEMMA CounterStep == TypeOK /\ CounterInv /\ [Next]_vars => CounterInv'
<1> SUFFICES ASSUME TypeOK, CounterInv, [Next]_vars PROVE CounterInv'
  OBVIOUS
<1>1. Exited \subseteq Workers
  BY DEF Exited
<1>2. IsFiniteSet(Exited) /\ Cardinality(Exited) \in Nat
  BY <1>1, PoolAssumption, FS_Subset, FS_CardinalityType
<1>3. CASE Exited' = Exited /\ wg' = wg
  BY <1>3 DEF CounterInv
<1>4. CASE Exited' = {} /\ wg' = Cardinality(Workers)
  BY <1>4, FS_EmptySet, PoolSize DEF CounterInv
<1>5. ASSUME NEW v \in Workers \ Exited, Exited' = Exited \union {v}, wg' = wg - 2
      PROVE  CounterInv'
  <2>1. Cardinality(Exited') = Cardinality(Exited) + 1
    BY <1>2, <1>5, FS_AddElement
  <2> QED BY <1>2, <1>5, <2>1, PoolSize DEF CounterInv
<1> QED BY <1>3, <1>4, <1>5, ExitStep DEF ExitChange

(* How a step changes the orphans of an open channel: not at all, back to  *)
(* none, or by the delivery of the worker that returns.                    *)
OrphanChange ==
    link' = "open" /\ ctx' = "live" =>
        \/ Orphans' = {} /\ Exited' = {}
        \/ /\ link = "open" /\ ctx = "live"
           /\ Orphans' = Orphans /\ Exited' = Exited
        \/ /\ link = "open" /\ ctx = "live"
           /\ \E v \in Workers \ Exited, d \in Msgs \ Orphans :
                  Exited' = Exited \union {v} /\ Orphans' = Orphans \union {d}

(* Every step changes the orphans in one of these ways.                    *)
LEMMA OrphanChangeStep == TypeOK /\ WorkerInv /\ LinkInv /\ SingleHolder /\ Accounted /\ [Next]_vars => OrphanChange
<1> SUFFICES ASSUME TypeOK, WorkerInv, LinkInv, SingleHolder, Accounted, [Next]_vars PROVE OrphanChange
  OBVIOUS
<1> USE MsgsAssumption
<1> USE DEF TypeOK, Links, PCs, WorkerInv, LinkInv, SingleHolder, Buffered, Held,
        Accounted, Exited, Orphans, OrphanChange, brokerVars, chanVars, workerVars, Up
<1>1. CASE ListenToSolanaQueue
  BY <1>1 DEF ListenToSolanaQueue, FreshProcess
<1>2. CASE Crash
  BY <1>2 DEF Crash, Fault, ProcessDies, FreshProcess
<1>3. CASE Cancel
  BY <1>3 DEF Cancel, Fault
<1>4. CASE MainReturns
  BY <1>4 DEF MainReturns, ProcessDies, FreshProcess
<1>5. ASSUME NEW m \in Msgs, Publish(m) PROVE OrphanChange
  BY <1>5 DEF Publish
<1>6. ASSUME NEW m \in Msgs, Deliver(m) PROVE OrphanChange
  BY <1>6 DEF Deliver
<1>7. CASE LoseLink
  BY <1>7 DEF LoseLink, Fault
<1>8. CASE BrokerRestart
  BY <1>8 DEF BrokerRestart, Fault
<1>9. CASE NoticeClose
  BY <1>9 DEF NoticeClose
<1>10. ASSUME NEW m \in Msgs, ForwardReceive(m) PROVE OrphanChange
  BY <1>10 DEF ForwardReceive
<1>11. CASE ForwardSend
  BY <1>11 DEF ForwardSend
<1>12. CASE ForwardClose
  BY <1>12 DEF ForwardClose
<1>13. ASSUME NEW w \in Workers, Receive(w) PROVE OrphanChange
  BY <1>13 DEF Receive, Goto
<1>14. ASSUME NEW w \in Workers, Leave(w) PROVE OrphanChange
  BY <1>14 DEF Leave, WorkerReturns, ProcessDies, FreshProcess, Goto
<1>15. ASSUME NEW w \in Workers, Nack(w) PROVE OrphanChange
  BY <1>15 DEF Nack, Goto
<1>16. ASSUME NEW w \in Workers, Process(w) PROVE OrphanChange
  BY <1>16 DEF Process, ProcessDies, FreshProcess, Goto
<1>17. ASSUME NEW w \in Workers, InsertSucceeds(w) PROVE OrphanChange
  BY <1>17 DEF InsertSucceeds, Goto
<1>18. ASSUME NEW w \in Workers, InsertFails(w) PROVE OrphanChange
  BY <1>18 DEF InsertFails, WorkerReturns, ProcessDies, FreshProcess, Goto, Fault
<1>19. ASSUME NEW w \in Workers, Ack(w) PROVE OrphanChange
  BY <1>19 DEF Ack, WorkerReturns, ProcessDies, FreshProcess, Goto
<1>20. CASE UNCHANGED vars
  BY <1>20 DEF vars
<1> QED
  BY <1>1, <1>2, <1>3, <1>4, <1>5, <1>6, <1>7, <1>8, <1>9, <1>10,
     <1>11, <1>12, <1>13, <1>14, <1>15, <1>16, <1>17, <1>18, <1>19, <1>20
  DEF Next, ForwarderStep, WorkerStep

(* Every step keeps one orphan per returned worker.                        *)
LEMMA OrphanStep == TypeOK /\ WorkerInv /\ LinkInv /\ SingleHolder /\ Accounted
                      /\ OrphanPerExit /\ TypeOK' /\ CounterInv' /\ [Next]_vars
                        => OrphanPerExit'
<1> SUFFICES ASSUME TypeOK, WorkerInv, LinkInv, SingleHolder, Accounted,
                    OrphanPerExit, TypeOK', CounterInv', [Next]_vars
             PROVE  OrphanPerExit'
  OBVIOUS
<1>1. /\ IsFiniteSet(Exited) /\ IsFiniteSet(Exited') /\ IsFiniteSet(Orphans)
      /\ Cardinality(Exited') \in Nat
  <2>1. Exited \subseteq Workers /\ Exited' \subseteq Workers /\ Orphans \subseteq Msgs
    BY DEF Exited, Orphans, TypeOK
  <2> QED BY <2>1, PoolAssumption, MsgsAssumption, FS_Subset, FS_CardinalityType
<1>2. 2 * Cardinality(Exited') <= Cardinality(Workers)
  BY <1>1, PoolSize DEF CounterInv, TypeOK
<1>3. ASSUME link' = "open", ctx' = "live"
      PROVE  Cardinality(Orphans') = Cardinality(Exited')
  <2>1. CASE Orphans' = {} /\ Exited' = {}
    BY <2>1
  <2>2. CASE /\ link = "open" /\ ctx = "live"
             /\ Orphans' = Orphans /\ Exited' = Exited
    BY <2>2 DEF OrphanPerExit
  <2>3. ASSUME link = "open", ctx = "live",
               NEW v \in Workers \ Exited, NEW d \in Msgs \ Orphans,
               Exited' = Exited \union {v}, Orphans' = Orphans \union {d}
        PROVE  Cardinality(Orphans') = Cardinality(Exited')
    <3>1. Cardinality(Exited') = Cardinality(Exited) + 1
      BY <1>1, <2>3, FS_AddElement
    <3>2. Cardinality(Orphans') = Cardinality(Orphans) + 1
      BY <1>1, <2>3, FS_AddElement
    <3> QED BY <2>3, <3>1, <3>2 DEF OrphanPerExit
  <2> QED BY <1>3, <2>1, <2>2, <2>3, OrphanChangeStep DEF OrphanChange
<1> QED BY <1>2, <1>3 DEF OrphanPerExit

-----------------------------------------------------------------------------
(* The inductive invariant holds in every reachable state of the           *)
(* processor.                                                              *)
THEOREM Invariance == Spec => []QueueInv
<1>1. Init => QueueInv
  <2> SUFFICES ASSUME Init PROVE QueueInv
    OBVIOUS
  <2>1. TypeOK
    BY PoolSize, BoundAssumption, MsgsAssumption DEF Init, TypeOK, Links, PCs
  <2>2. Buffered = {} /\ Held = {} /\ Exited = {} /\ Orphans = {}
    BY DEF Init, Buffered, Held, Exited, Orphans
  <2>3. WorkerInv /\ LinkInv
    BY DEF Init, WorkerInv, LinkInv
  <2>4. CopyInv /\ SingleHolder /\ Accounted /\ AckedAreStored
    BY <2>2 DEF Init, CopyInv, SingleHolder, Accounted, AckedAreStored
  <2>5. Cardinality({}) = 0
    BY FS_EmptySet
  <2>6. BufferInv
    BY <2>2, <2>5, PoolAssumption DEF Init, BufferInv
  <2>7. CounterInv /\ OrphanPerExit
    BY <2>2, <2>5, PoolSize DEF Init, CounterInv, OrphanPerExit
  <2> QED BY <2>1, <2>3, <2>4, <2>6, <2>7 DEF QueueInv
<1>2. QueueInv /\ [Next]_vars => QueueInv'
  <2> SUFFICES ASSUME QueueInv, [Next]_vars PROVE QueueInv'
    OBVIOUS
  <2> USE DEF QueueInv
  <2>1. TypeOK' /\ WorkerInv' /\ LinkInv'
    BY TypeStep, WorkerStepInv, LinkStep
  <2>2. SingleHolder' /\ Accounted' /\ CopyInv' /\ AckedAreStored'
    BY HolderStep, AccountStep, CopyStep, AckStep
  <2>3. BufferInv' /\ CounterInv'
    BY <2>1, <2>2, BufferStep, CounterStep
  <2>4. OrphanPerExit'
    BY <2>1, <2>3, OrphanStep
  <2> QED BY <2>1, <2>2, <2>3, <2>4
<1> QED BY <1>1, <1>2, PTL DEF Spec

(* Every reachable state of the processor has its declared type.           *)
THEOREM Typing == Spec => []TypeOK
<1>1. QueueInv => TypeOK
  BY DEF QueueInv
<1> QED BY <1>1, Invariance, PTL

(* A message is acknowledged only after its swaps are in swap_log.         *)
THEOREM AckAfterStore == Spec => []AckedAreStored
<1>1. QueueInv => AckedAreStored
  BY DEF QueueInv
<1> QED BY <1>1, Invariance, PTL

(* The broker forgets nothing but by an ack, a nack of a malformed body or *)
(* a restart, and nothing acknowledged comes back.                         *)
THEOREM NothingForgotten == Spec => []Accounted
<1>1. QueueInv => Accounted
  BY DEF QueueInv
<1> QED BY <1>1, Invariance, PTL

(* Two workers never hold the same delivery.                               *)
THEOREM OneHolder == Spec => []SingleHolder
<1>1. QueueInv => SingleHolder
  BY DEF QueueInv
<1> QED BY <1>1, Invariance, PTL

(* With a prefetch no larger than the pool, the forwarder always finds     *)
(* room in rabbitChan.                                                     *)
THEOREM SendFindsRoom == Spec => []ForwarderNeverBlocks
<1>1. QueueInv => ForwarderNeverBlocks
  <2> SUFFICES ASSUME QueueInv, fwd = "send"
               PROVE  Cardinality(rabbitChan) < Cardinality(Workers)
    BY DEF ForwarderNeverBlocks
  <2>1. rabbitChan \union {fwdMsg} \subseteq Buffered /\ fwdMsg \notin rabbitChan
    BY DEF QueueInv, SingleHolder, Buffered
  <2>2. Buffered \subseteq Msgs
    BY MsgsAssumption DEF QueueInv, TypeOK, LinkInv, Buffered
  <2>3. IsFiniteSet(Buffered) /\ IsFiniteSet(rabbitChan)
    BY <2>1, <2>2, MsgsAssumption, FS_Subset
  <2>4. /\ Cardinality(rabbitChan \union {fwdMsg}) = Cardinality(rabbitChan) + 1
        /\ Cardinality(rabbitChan) \in Nat
    BY <2>1, <2>3, FS_AddElement, FS_CardinalityType
  <2>5. Cardinality(rabbitChan \union {fwdMsg}) <= Cardinality(Buffered)
    BY <2>1, <2>3, FS_Subset
  <2>6. Cardinality(Buffered) <= Prefetch /\ Cardinality(Buffered) \in Nat
    BY <2>3, FS_CardinalityType DEF QueueInv, BufferInv
  <2> QED BY <2>4, <2>5, <2>6, PoolAssumption, PoolSize
<1> QED BY <1>1, Invariance, PTL

(* Each worker that gave up left one unacked delivery behind, and at most  *)
(* half of the pool gives up before the process dies.                      *)
THEOREM OneOrphanPerExit == Spec => []OrphanPerExit
<1>1. QueueInv => OrphanPerExit
  BY DEF QueueInv
<1> QED BY <1>1, Invariance, PTL

(* The pool of solanaWorker is safe in every reachable state, whatever the *)
(* number of workers and the window.                                       *)
THEOREM PoolStaysSafe == Spec => []PoolSafe
<1>1. TypeOK /\ SingleHolder /\ ForwarderNeverBlocks /\ OrphanPerExit => PoolSafe
  BY DEF PoolSafe
<1> QED BY <1>1, Typing, OneHolder, SendFindsRoom, OneOrphanPerExit, PTL

(* A prefetch above half of the pool rules the wedge out: the WaitGroup    *)
(* panics before the window is used up.  queue.go has 100 and 200.         *)
THEOREM WideWindowNeverWedges ==
    2 * Prefetch > Cardinality(Workers) => (Spec => []~Wedged)
<1> SUFFICES ASSUME 2 * Prefetch > Cardinality(Workers) PROVE Spec => []~Wedged
  OBVIOUS
<1>1. QueueInv => ~Wedged
  <2> SUFFICES ASSUME QueueInv PROVE Cardinality(Exited) < Prefetch
    BY PoolAssumption, PoolSize, FS_Subset, FS_CardinalityType DEF Wedged, Exited
  <2>1. Exited \subseteq Workers
    BY DEF Exited
  <2>2. Cardinality(Exited) \in Nat
    BY <2>1, PoolAssumption, FS_Subset, FS_CardinalityType
  <2> QED BY <2>2, PoolAssumption, PoolSize DEF QueueInv, OrphanPerExit
<1> QED BY <1>1, Invariance, PTL

-----------------------------------------------------------------------------
(* The processor implements MessageLedger.                                 *)

(* Steps that leave the books of the broker and the database alone.        *)
LEMMA LedgerStutter ==
    UNCHANGED <<published, acked, rejected, lost, stored>> => UNCHANGED Ledger!ledgerVars
  BY DEF Ledger!ledgerVars, ledgerStatus, StatusOf

(* Every step of a reachable state is a step of the ledger or a stutter:   *)
(* Publish, the inserts, Ack, Nack and the broker's restart are steps.     *)
LEMMA LedgerStep ==
    QueueInv /\ [Next]_vars => [Ledger!LedgerNext]_(Ledger!ledgerVars)
<1> SUFFICES ASSUME QueueInv, [Next]_vars
             PROVE  [Ledger!LedgerNext]_(Ledger!ledgerVars)
  OBVIOUS
<1> DEFINE Same == UNCHANGED <<published, acked, rejected, lost, stored>>
           Goal == [Ledger!LedgerNext]_(Ledger!ledgerVars)
<1>0. Same => Goal
  BY LedgerStutter
<1> USE DEF brokerVars
<1>1. CASE ListenToSolanaQueue \/ Crash \/ Cancel \/ MainReturns
  BY <1>1, <1>0 DEF ListenToSolanaQueue, Crash, Cancel, MainReturns, ProcessDies
<1>2. CASE LoseLink \/ NoticeClose \/ ForwarderStep
  BY <1>2, <1>0 DEF LoseLink, NoticeClose, ForwarderStep, ForwardReceive,
                    ForwardSend, ForwardClose
<1>3. ASSUME NEW m \in Msgs, Deliver(m) PROVE Goal
  BY <1>3, <1>0 DEF Deliver
<1>4. ASSUME NEW m \in Msgs, Publish(m) PROVE Goal
  <2>1. m \notin published /\ published' = published \union {m}
    BY <1>4 DEF Publish
  <2>2. UNCHANGED <<acked, rejected, lost, stored>>
    BY <1>4 DEF Publish
  <2>3. m \notin acked \union rejected \union lost
    BY <2>1 DEF QueueInv, Accounted
  <2>4. StatusOf(m) = "unpublished" /\ StatusOf(m)' = "pending"
    BY <2>1, <2>2, <2>3 DEF StatusOf
  <2>5. \A d \in Msgs \ {m} : StatusOf(d)' = StatusOf(d)
    BY <2>1, <2>2 DEF StatusOf
  <2>6. ledgerStatus' = [ledgerStatus EXCEPT ![m] = "pending"]
    BY <2>4, <2>5 DEF ledgerStatus
  <2>7. Ledger!Publish(m)
    BY <2>2, <2>4, <2>6 DEF Ledger!Publish, ledgerStatus
  <2> QED BY <2>7 DEF Ledger!LedgerNext
<1>5. CASE BrokerRestart
  <2>1. UNCHANGED <<published, acked, rejected, stored>>
    BY <1>5 DEF BrokerRestart
  <2>2. lost' = lost \union ready \union unacked
    BY <1>5 DEF BrokerRestart
  <2>3. Ledger!LoseAll
    BY <2>1, <2>2 DEF Ledger!LoseAll, ledgerStatus, StatusOf, QueueInv, Accounted
  <2> QED BY <2>3 DEF Ledger!LedgerNext
<1>6. ASSUME NEW w \in Workers, WorkerStep(w) PROVE Goal
  <2>1. CASE Receive(w) \/ Leave(w) \/ Process(w)
    BY <2>1, <1>0 DEF Receive, Leave, Process, WorkerReturns, ProcessDies
  <2>2. ASSUME pc[w] = "insert", stored' = stored \union {held[w]},
               UNCHANGED <<published, acked, rejected, lost>>
        PROVE  Goal
    <3>1. /\ held[w] \in Msgs /\ held[w] \notin Malformed
          /\ held[w] \in published \ (acked \union rejected)
      BY <2>2, MsgsAssumption DEF QueueInv, TypeOK, WorkerInv, CopyInv, Held
    <3>2. Ledger!Store(held[w])
      BY <2>2, <3>1 DEF Ledger!Store, ledgerStatus, StatusOf
    <3> QED BY <3>1, <3>2 DEF Ledger!LedgerNext
  <2>3. CASE InsertSucceeds(w)
    BY <2>2, <2>3 DEF InsertSucceeds
  <2>4. CASE InsertFails(w)
    <3>1. /\ pc[w] = "insert" /\ UNCHANGED <<published, acked, rejected, lost>>
          /\ stored' \in {stored, stored \union {held[w]}}
      BY <2>4 DEF InsertFails, WorkerReturns, ProcessDies
    <3> QED BY <3>1, <2>2, <1>0
  <2>5. CASE Nack(w)
    <3>1. CASE link # "open"
      BY <2>5, <3>1, <1>0 DEF Nack
    <3>2. CASE link = "open"
      <4>1. /\ held[w] \in Malformed /\ rejected' = rejected \union {held[w]}
            /\ UNCHANGED <<published, acked, lost, stored>>
        BY <2>5, <3>2 DEF Nack
      <4>2. held[w] \in Msgs /\ held[w] \in unacked
        BY <3>2, <4>1, MsgsAssumption DEF QueueInv, SingleHolder, Held
      <4>3. Ledger!Reject(held[w])
        BY <4>1, <4>2 DEF Ledger!Reject, ledgerStatus, StatusOf, QueueInv, Accounted
      <4> QED BY <4>2, <4>3 DEF Ledger!LedgerNext
    <3> QED BY <3>1, <3>2
  <2>6. CASE Ack(w)
    <3>1. CASE link # "open"
      BY <2>6, <3>1, <1>0 DEF Ack, WorkerReturns, ProcessDies
    <3>2. CASE link = "open"
      <4>1. /\ pc[w] = "ack" /\ acked' = acked \union {held[w]}
            /\ UNCHANGED <<published, rejected, lost, stored>>
        BY <2>6, <3>2 DEF Ack
      <4>2. /\ held[w] \in Msgs \ Malformed /\ held[w] \in unacked
            /\ held[w] \in stored \union NoSwaps
        BY <3>2, <4>1, MsgsAssumption
        DEF QueueInv, TypeOK, WorkerInv, SingleHolder, Held
      <4>3. Ledger!Settle(held[w])
        BY <4>1, <4>2 DEF Ledger!Settle, ledgerStatus, StatusOf, QueueInv, Accounted
      <4> QED BY <4>2, <4>3 DEF Ledger!LedgerNext
    <3> QED BY <3>1, <3>2
  <2> QED BY <1>6, <2>1, <2>3, <2>4, <2>5, <2>6 DEF WorkerStep
<1>7. CASE UNCHANGED vars
  BY <1>7, <1>0 DEF vars
<1> QED BY <1>1, <1>2, <1>3, <1>4, <1>5, <1>6, <1>7 DEF Next

(* The worker pool, with every retry, reconnect and restart, implements    *)
(* the ledger: the safety content of the whole consumer.                   *)
THEOREM Refinement == Spec => ImplementsLedger
<1>1. Init => Ledger!LedgerInit
  BY DEF Init, Ledger!LedgerInit, ledgerStatus, StatusOf
<1> QED BY <1>1, LedgerStep, Invariance, PTL
        DEF Spec, ImplementsLedger, Ledger!LedgerSpec

=============================================================================
