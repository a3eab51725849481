------------------------ MODULE BlockListenerProofs ------------------------
(***************************************************************************)
(* Proofs about BlockListener: for every length of the chain, every number *)
(* of transactions in a slot and every number of faults.                   *)
(***************************************************************************)
EXTENDS BlockListener, FiniteSetTheorems, SequenceTheorems, TLAPS

Updates == [kind : {"meta", "tx"}, slot : Slots, tx : 0..TxsPerSlot]

MessageType == [slot : Slots, tx : 1..TxsPerSlot, time : Slots]

(* What is on the stream is of slots the chain has, in their order.        *)
StreamInv == /\ stream \in Seq(Updates)
             /\ \A i \in 1..Len(stream) :
                   /\ stream[i].slot <= head
                   /\ stream[i].kind = "tx" => stream[i].tx \in 1..TxsPerSlot
             /\ \A i, j \in 1..Len(stream) : i < j => stream[i].slot <= stream[j].slot

(* No BlockMeta before the i-th update of the stream.                      *)
Undated(i) == \A j \in 1..(i - 1) : stream[j].kind = "tx"

(* The time at which the listener will be when it receives the i-th update *)
(* is not too early: a BlockMeta on the way, the one it has, or none yet.  *)
NotEarly == \A i \in 1..Len(stream) :
    \/ \E j \in 1..(i - 1) : stream[j].kind = "meta" /\ stream[j].slot + 1 >= stream[i].slot
    \/ Undated(i) /\ blockTime # 0 /\ blockTime + 1 >= stream[i].slot
    \/ Undated(i) /\ blockTime = 0 /\ stream[i].slot = stream[1].slot

(* Nor too late: capturedTS is used up in the subscription's first slot.   *)
NotLate == /\ blockTime = 0 /\ stream # <<>> => stream[1].slot \in firsts
           /\ blockTime # 0 =>
                 \A i \in 1..Len(stream) :
                    Undated(i) /\ blockTime > stream[i].slot => stream[i].slot \in firsts

(* A live stream has been sent everything up to the head.                  *)
UpToHead == sub = "live" =>
    \/ \E j \in 1..Len(stream) : stream[j].kind = "meta" /\ stream[j].slot = head
    \/ /\ \A j \in 1..Len(stream) : stream[j].kind = "tx"
       /\ blockTime # 0 => blockTime >= head
       /\ blockTime = 0 => stream = <<>> /\ head + 1 \in firsts

TimeInv == StreamInv /\ NotEarly /\ NotLate /\ UpToHead /\ blockTime <= head

ListenerInv == /\ TypeOK
               /\ sent \subseteq MessageType
               /\ SubscriptionPinged
               /\ DatedWithinOneBlock
               /\ TimeInv

(* One more transaction is lost with a connection that is dead and has not *)
(* been noticed.                                                           *)
Debt == IF conn = "broken" THEN 1 ELSE 0

LossInv == chanFaults = 0 => /\ conn # "chanClosed"
                             /\ Cardinality(LostTxs) + Debt <= 2 * faults
IInv == ListenerInv /\ LossInv

(* The node sends the transactions of a slot and, among them, its one      *)
(* BlockMeta (SlotUpdates).                                                *)
LEMMA SlotUpdatesShape ==
  ASSUME NEW s \in Slots, NEW us \in SlotUpdates(s)
  PROVE  /\ us \in Seq(Updates) /\ Len(us) = TxsPerSlot + 1
         /\ \E p \in 1..Len(us) :
               /\ us[p].kind = "meta"
               /\ \A i \in 1..Len(us) :
                     /\ us[i].slot = s
                     /\ i # p => us[i].kind = "tx" /\ us[i].tx \in 1..TxsPerSlot
<1> DEFINE K == TxsPerSlot
           txs == [k \in 1..K |-> Tx(s, k)]
<1>0. K \in Nat /\ K >= 1
  BY ListenerAssumption
<1>1. PICK n \in 0..K : us = SubSeq(txs, 1, n) \o <<Meta(s)>> \o SubSeq(txs, n + 1, K)
  BY DEF SlotUpdates
<1>2. Meta(s) \in Updates /\ Meta(s).kind = "meta" /\ Meta(s).slot = s
  BY <1>0 DEF Meta, Updates
<1>3. \A k \in 1..K : /\ Tx(s, k) \in Updates /\ Tx(s, k).kind = "tx"
                      /\ Tx(s, k).slot = s /\ Tx(s, k).tx = k
  BY <1>0 DEF Tx, Updates
<1>4. txs \in Seq(Updates) /\ Len(txs) = K
  BY <1>0, <1>3
<1> DEFINE A == SubSeq(txs, 1, n)
           B == SubSeq(txs, n + 1, K)
<1>5. A \in Seq(Updates) /\ Len(A) = n /\ \A i \in 1..n : A[i] = Tx(s, i)
  BY <1>0, <1>4
<1>6. B \in Seq(Updates) /\ Len(B) = K - n /\ \A i \in 1..(K - n) : B[i] = Tx(s, n + i)
  BY <1>0, <1>4
<1> HIDE DEF A, B, txs
<1> DEFINE C == A \o <<Meta(s)>>
<1>7. /\ C \in Seq(Updates) /\ Len(C) = n + 1 /\ C[n + 1] = Meta(s)
      /\ \A i \in 1..n : C[i] = Tx(s, i)
  <2>1. <<Meta(s)>> \in Seq(Updates) /\ Len(<<Meta(s)>>) = 1 /\ <<Meta(s)>>[1] = Meta(s)
    BY <1>2
  <2>2. C \in Seq(Updates) /\ Len(C) = n + 1
    BY <1>5, <2>1
  <2> QED BY <1>5, <2>1, <2>2
<1> HIDE DEF C
<1>8. us = C \o B
  BY <1>1 DEF A, B, C
<1>9. /\ us \in Seq(Updates) /\ Len(us) = K + 1
      /\ us[n + 1] = Meta(s)
      /\ \A i \in 1..n : us[i] = Tx(s, i)
      /\ \A i \in (n + 2)..(K + 1) : us[i] = Tx(s, i - 1)
  <2>1. us \in Seq(Updates) /\ Len(us) = K + 1
    BY <1>0, <1>6, <1>7, <1>8
  <2>2. \A i \in 1..(n + 1) : us[i] = C[i]
    BY <1>0, <1>6, <1>7, <1>8, <2>1
  <2>3. \A i \in (n + 2)..(K + 1) : us[i] = B[i - (n + 1)] /\ i - (n + 1) \in 1..(K - n)
    BY <1>0, <1>6, <1>7, <1>8, <2>1
  <2> QED BY <1>0, <1>6, <1>7, <2>1, <2>2, <2>3
<1>10. \A i \in 1..Len(us) : i # n + 1 => i \in 1..n \/ i \in (n + 2)..(K + 1)
  BY <1>0, <1>9
<1>11. \A i \in 1..Len(us) : i # n + 1 => \E k \in 1..K : us[i] = Tx(s, k)
  BY <1>0, <1>9, <1>10
<1>12. n + 1 \in 1..Len(us)
  BY <1>0, <1>9
<1> QED BY <1>2, <1>3, <1>9, <1>11, <1>12

(* The initial state.                                                      *)
LEMMA InitInv == Init => IInv
<1> SUFFICES ASSUME Init PROVE IInv
  OBVIOUS
<1> USE ListenerAssumption, FaultsAssumption DEF Init, PublisherInit
<1>1. TypeOK /\ sent \subseteq MessageType /\ SubscriptionPinged /\ DatedWithinOneBlock
  BY DEF TypeOK, PublisherTypeOK, Conns, SubscriptionPinged, DatedWithinOneBlock
<1>2. TimeInv
  BY DEF TimeInv, StreamInv, NotEarly, NotLate, UpToHead
<1>3. LossInv
  <2>1. LostTxs = {}
    BY DEF LostTxs
  <2> QED BY <2>1, FS_EmptySet DEF LossInv, Debt
<1> QED BY <1>1, <1>2, <1>3 DEF IInv, ListenerInv

(* What the first update is, when there is one.                            *)
LEMMA HeadFacts ==
  ASSUME ListenerInv, stream # <<>>
  PROVE  /\ Len(stream) \in Nat /\ Len(stream) >= 1
         /\ Head(stream) = stream[1] /\ stream[1] \in Updates
         /\ stream[1].slot \in 1..head
         /\ Head(stream).kind = "tx" => <<Head(stream).slot, Head(stream).tx>> \in Txs
         /\ TimeOfTx \in 1..head /\ head \in Slots
<1> USE DEF ListenerInv, TimeInv, StreamInv
<1>1. Len(stream) \in Nat /\ Len(stream) >= 1 /\ Head(stream) = stream[1] /\ stream[1] \in Updates
  OBVIOUS
<1>2. stream[1].slot \in 1..head /\ head \in Slots
  BY <1>1, ListenerAssumption DEF Updates, Slots, TypeOK
<1>3. Head(stream).kind = "tx" => <<Head(stream).slot, Head(stream).tx>> \in Txs
  BY <1>1 DEF Updates, Txs
<1>4. TimeOfTx \in 1..head
  BY <1>2 DEF TimeOfTx, TypeOK, Slots
<1> QED BY <1>1, <1>2, <1>3, <1>4

(* The publisher's part of a step is well typed.                           *)
LEMMA PublisherTypes ==
  ASSUME PublisherTypeOK, NEW m, sent \subseteq MessageType,
         \/ UNCHANGED publisherVars
         \/ Fault /\ UNCHANGED <<conn, sent, chanFaults>>
         \/ m \in MessageType /\ AddToSolanaQueue(m)
         \/ Connect \/ ReconnectFatal \/ ConnBreaks \/ ConnNoticed
  PROVE  PublisherTypeOK' /\ sent' \subseteq MessageType
<1> USE FaultsAssumption DEF PublisherTypeOK, Conns, Fault
<1>1. CASE UNCHANGED publisherVars
  BY <1>1 DEF publisherVars
<1>2. CASE Fault /\ UNCHANGED <<conn, sent, chanFaults>>
  BY <1>2
<1>3. CASE Connect
  BY <1>3 DEF Connect
<1>4. CASE m \in MessageType /\ (PublishReaches(m) \/ PublishRefused(m))
  BY <1>4 DEF PublishReaches, PublishRefused
<1>5. CASE PublishSwallowed(m)
  BY <1>5 DEF PublishSwallowed
<1>6. CASE ReconnectFatal \/ ConnBreaks \/ ConnNoticed
  BY <1>6 DEF ReconnectFatal, ConnBreaks, ConnNoticed
<1> QED BY <1>1, <1>2, <1>3, <1>4, <1>5, <1>6 DEF AddToSolanaQueue

(* The message that RecvTx publishes.                                      *)
LEMMA MessageTyped ==
  ASSUME ListenerInv, stream # <<>>, Head(stream).kind = "tx"
  PROVE  Message(Head(stream), TimeOfTx) \in MessageType
<1>1. /\ Head(stream).slot \in Slots /\ Head(stream).tx \in 1..TxsPerSlot
      /\ TimeOfTx \in Slots
  <2>1. /\ <<Head(stream).slot, Head(stream).tx>> \in Txs
        /\ TimeOfTx \in 1..head /\ head \in Slots
    BY HeadFacts
  <2>2. TimeOfTx \in Slots
    BY <2>1, ListenerAssumption DEF Slots
  <2> QED BY <2>1, <2>2 DEF Txs
<1> QED BY <1>1 DEF Message, MessageType

(* Every step keeps the types, and a live subscription pinged.             *)
LEMMA TypeStep ==
  ASSUME ListenerInv, [Next]_vars
  PROVE  TypeOK' /\ sent' \subseteq MessageType /\ SubscriptionPinged'
<1> DEFINE Rest == /\ head' \in 0..MaxSlot
                   /\ sub' \in {"none", "live", "broken"}
                   /\ pc' \in {"down", "connect", "subscribe", "recv"}
                   /\ blockTime' \in 0..MaxSlot
                   /\ pingers' \in Nat
                   /\ pings' \in {"ok", "failed"}
                   /\ firsts' \subseteq 1..MaxSlot + 1
                   /\ seen' \subseteq Txs
                   /\ SubscriptionPinged'
           Goal == PublisherTypeOK' /\ sent' \subseteq MessageType /\ Rest
<1> SUFFICES Goal
  <2>1. ASSUME NEW m \in MessageType PROVE <<m.slot, m.tx>> \in Txs /\ m.time \in Slots
    BY DEF MessageType, Txs
  <2> QED BY <2>1 DEF TypeOK
<1>0. PublisherTypeOK /\ sent \subseteq MessageType
  BY DEF ListenerInv, TypeOK
<1> DEFINE u == Head(stream)
           m == Message(u, TimeOfTx)
<1> USE ListenerAssumption DEF ListenerInv, TypeOK, SubscriptionPinged
<1>1. CASE UNCHANGED vars
  BY <1>0, <1>1, PublisherTypes DEF vars, chainVars, listenerVars
<1>2. CASE ProduceSlot
  BY <1>0, <1>2, PublisherTypes DEF ProduceSlot, listenerVars
<1>3. CASE StreamBreaks
  BY <1>0, <1>3, PublisherTypes DEF StreamBreaks
<1>4. CASE Crash
  BY <1>0, <1>4, PublisherTypes DEF Crash, Dies
<1>5. CASE SubscribeFails
  BY <1>0, <1>5, PublisherTypes DEF SubscribeFails, chainVars
<1>6. CASE KeepAlive
  <2>1. PublisherTypeOK' /\ sent' \subseteq MessageType
    BY <1>0, <1>6, PublisherTypes DEF KeepAlive, publisherVars
  <2> QED BY <2>1, <1>6 DEF KeepAlive, chainVars
<1>7. CASE RecvTxDies
  BY <1>0, <1>7, PublisherTypes, HeadFacts DEF RecvTxDies, Dies
<1>8. CASE Broker
  BY <1>0, <1>8, PublisherTypes DEF Broker, chainVars, listenerVars
<1>9. CASE Start
  BY <1>0, <1>9, PublisherTypes DEF Start, chainVars
<1>10. CASE GrpcConnect
  BY <1>0, <1>10, PublisherTypes DEF GrpcConnect, chainVars
<1>11. CASE Subscribe
  BY <1>0, <1>11, PublisherTypes DEF Subscribe
<1>12. CASE RecvFails
  BY <1>0, <1>12, PublisherTypes DEF RecvFails, chainVars
<1>13. CASE RecvMeta
  <2>1. u.slot \in 1..head
    BY <1>13, HeadFacts DEF RecvMeta, Receive
  <2> QED BY <1>0, <1>13, <2>1, PublisherTypes DEF RecvMeta
<1>14. CASE RecvTx
  <2>1. TimeOfTx \in 1..head /\ <<u.slot, u.tx>> \in Txs
    BY <1>14, HeadFacts DEF RecvTx, Receive
  <2>2. m \in MessageType /\ AddToSolanaQueue(m)
    BY <1>14, MessageTyped DEF RecvTx, Receive
  <2>3. PublisherTypeOK' /\ sent' \subseteq MessageType
    BY <1>0, <2>2, PublisherTypes
  <2> HIDE DEF m
  <2> QED BY <1>14, <2>1, <2>3 DEF RecvTx
<1> QED BY <1>1, <1>2, <1>3, <1>4, <1>5, <1>6, <1>7, <1>8, <1>9, <1>10, <1>11, <1>12, <1>13, <1>14
        DEF Next, Listen

(* A step that touches neither the chain nor the stream nor the time.      *)
LEMMA TimeFrame ==
  ASSUME TimeInv, UNCHANGED <<head, stream, blockTime, firsts>>, sub' = "live" => sub = "live"
  PROVE  TimeInv'
<1> USE DEF TimeInv
<1>1. StreamInv'
  BY DEF StreamInv
<1>2. NotEarly'
  BY DEF NotEarly, Undated
<1>3. NotLate'
  BY DEF NotLate, Undated
<1>4. UpToHead'
  BY DEF UpToHead
<1> QED BY <1>1, <1>2, <1>3, <1>4

(* An empty stream, of no subscription or of a new one.                    *)
LEMMA TimeReset ==
  ASSUME head \in Nat, stream' = <<>>, blockTime' = 0, head' = head,
         sub' = "live" => head + 1 \in firsts'
  PROVE  TimeInv'
<1>1. StreamInv' /\ NotEarly' /\ NotLate' /\ UpToHead'
  BY DEF StreamInv, NotEarly, NotLate, UpToHead
<1> QED BY <1>1 DEF TimeInv

(* A stream that breaks keeps a prefix.                                    *)
LEMMA TimeBreaks ==
  ASSUME TimeInv, NEW n \in 0..Len(stream), stream' = SubSeq(stream, 1, n),
         sub' = "broken", UNCHANGED <<head, blockTime, firsts>>
  PROVE  TimeInv'
<1> USE DEF TimeInv
<1>1. /\ stream' \in Seq(Updates) /\ Len(stream') = n
      /\ Len(stream) \in Nat /\ n \in Nat /\ n <= Len(stream)
      /\ \A i \in 1..n : i \in 1..Len(stream) /\ stream'[i] = stream[i]
  BY DEF StreamInv
<1>2. StreamInv'
  BY <1>1 DEF StreamInv
<1>3. \A i \in 1..n : /\ Undated(i)' <=> Undated(i)
                      /\ \A j \in 1..(i - 1) : j \in 1..n /\ stream'[j] = stream[j]
  BY <1>1 DEF Undated
<1>4. NotEarly'
  <2> SUFFICES ASSUME NEW i \in 1..n
               PROVE  \/ \E j \in 1..(i - 1) : stream'[j].kind = "meta" /\ stream'[j].slot + 1 >= stream'[i].slot
                      \/ Undated(i)' /\ blockTime' # 0 /\ blockTime' + 1 >= stream'[i].slot
                      \/ Undated(i)' /\ blockTime' = 0 /\ stream'[i].slot = stream'[1].slot
    BY <1>1 DEF NotEarly
  <2>1. stream'[1] = stream[1] /\ stream'[i] = stream[i] /\ i \in 1..Len(stream)
    BY <1>1
  <2>2. CASE \E j \in 1..(i - 1) : stream[j].kind = "meta" /\ stream[j].slot + 1 >= stream[i].slot
    BY <1>3, <2>1, <2>2
  <2> QED BY <1>3, <2>1, <2>2 DEF NotEarly
<1>5. NotLate'
  <2>1. n > 0 => stream'[1] = stream[1] /\ stream # <<>>
    BY <1>1
  <2>2. stream' # <<>> => n > 0
    BY <1>1
  <2> QED BY <1>1, <1>3, <2>1, <2>2 DEF NotLate
<1>6. UpToHead'
  BY DEF UpToHead
<1> QED BY <1>2, <1>4, <1>5, <1>6

(* The rest of the stream after a Recv.                                    *)
LEMMA TailFacts ==
  ASSUME ListenerInv, stream # <<>>, stream' = Tail(stream), head' = head
  PROVE  /\ Len(stream) \in Nat /\ Len(stream) >= 1 /\ Len(stream') = Len(stream) - 1
         /\ \A i \in 1..Len(stream') : i + 1 \in 1..Len(stream) /\ stream'[i] = stream[i + 1]
         /\ \A i \in 1..Len(stream) : stream[i] \in Updates /\ stream[i].slot \in Nat
         /\ StreamInv'
<1> USE DEF ListenerInv, TimeInv, StreamInv
<1>1. /\ Len(stream) \in Nat /\ Len(stream) >= 1 /\ Len(stream') = Len(stream) - 1
      /\ stream' \in Seq(Updates)
  OBVIOUS
<1>2. \A i \in 1..Len(stream') : i + 1 \in 1..Len(stream) /\ stream'[i] = stream[i + 1]
  BY <1>1
<1>3. \A i \in 1..Len(stream) : stream[i] \in Updates /\ stream[i].slot \in Nat
  <2>1. \A u \in Updates : u.slot \in Nat
    BY ListenerAssumption DEF Updates, Slots
  <2> QED BY <1>1, <2>1
<1>4. StreamInv'
  BY <1>1, <1>2, <1>3
<1> QED BY <1>1, <1>2, <1>3, <1>4

(* A BlockMeta is received: it dates what comes before the next one.       *)
LEMMA TimeOfMeta ==
  ASSUME ListenerInv, RecvMeta
  PROVE  TimeInv'
<1> USE DEF ListenerInv, TimeInv
<1>1. /\ stream # <<>> /\ stream' = Tail(stream) /\ UNCHANGED <<head, sub, firsts>>
      /\ blockTime' = stream[1].slot /\ stream[1].kind = "meta" /\ stream[1].slot \in 1..head
  BY HeadFacts DEF RecvMeta, Receive
<1>2. /\ Len(stream) \in Nat /\ Len(stream) >= 1 /\ Len(stream') = Len(stream) - 1
      /\ \A i \in 1..Len(stream') : i + 1 \in 1..Len(stream) /\ stream'[i] = stream[i + 1]
      /\ \A i \in 1..Len(stream) : stream[i] \in Updates /\ stream[i].slot \in Nat
      /\ StreamInv'
  BY <1>1, TailFacts
<1>3. blockTime' \in Nat /\ blockTime' # 0 /\ blockTime' <= head' /\ head \in Nat
  BY <1>1 DEF TypeOK
<1>4. NotEarly'
  <2> SUFFICES ASSUME NEW i \in 1..Len(stream')
               PROVE  \/ \E j \in 1..(i - 1) : stream'[j].kind = "meta" /\ stream'[j].slot + 1 >= stream'[i].slot
                      \/ Undated(i)' /\ blockTime' # 0 /\ blockTime' + 1 >= stream'[i].slot
    BY DEF NotEarly
  <2>1. i + 1 \in 1..Len(stream) /\ stream'[i] = stream[i + 1] /\ i \in Nat /\ i >= 1
    BY <1>2
  <2>2. ~ Undated(i + 1)
    BY <1>1, <2>1 DEF Undated
  <2>3. PICK j \in 1..i : stream[j].kind = "meta" /\ stream[j].slot + 1 >= stream[i + 1].slot
    BY <2>1, <2>2 DEF NotEarly
  <2>4. CASE \E k \in 1..(i - 1) : stream'[k].kind = "meta"
    <3>1. PICK k \in 1..(i - 1) : stream'[k].kind = "meta"
      BY <2>4
    <3>2. /\ k + 1 \in 1..Len(stream) /\ stream'[k] = stream[k + 1]
      BY <1>2, <2>1, <3>1
    <3>3. CASE j = 1
      <4>1. stream[1].slot <= stream[k + 1].slot
        <5>1. 1 \in 1..Len(stream) /\ 1 < k + 1
          BY <1>2, <3>2
        <5> QED BY <3>2, <5>1 DEF StreamInv
      <4>2. /\ stream[1].slot \in Nat /\ stream[k + 1].slot \in Nat /\ stream[i + 1].slot \in Nat
            /\ stream[1].slot + 1 >= stream[i + 1].slot
        <5>1. stream[1].slot + 1 >= stream[i + 1].slot
          BY ONLY <2>3, <3>3
        <5>2. 1 \in 1..Len(stream)
          BY <1>2, <3>2
        <5>3. \A q \in 1..Len(stream) : stream[q].slot \in Nat
          BY <1>2
        <5> QED BY ONLY <2>1, <3>2, <5>1, <5>2, <5>3
      <4>3. stream'[k].slot + 1 >= stream'[i].slot
        <5>1. stream'[k].slot = stream[k + 1].slot /\ stream'[i].slot = stream[i + 1].slot
          BY <2>1, <3>2
        <5>2. stream[k + 1].slot + 1 >= stream[i + 1].slot
          <6>1. PICK x, y, z : x = stream[1].slot /\ y = stream[k + 1].slot /\ z = stream[i + 1].slot
            OBVIOUS
          <6>2. x \in Nat /\ y \in Nat /\ z \in Nat /\ x <= y /\ x + 1 >= z
            BY ONLY <4>1, <4>2, <6>1
          <6>3. y + 1 >= z
            BY ONLY <6>2
          <6> QED BY ONLY <6>1, <6>3
        <5> QED BY ONLY <5>1, <5>2
      <4> QED BY <3>1, <4>3
    <3>4. CASE j # 1
      <4>1. j - 1 \in 1..(i - 1) /\ j - 1 \in 1..Len(stream') /\ j - 1 + 1 = j
        BY <1>2, <2>1, <3>4
      <4>2. stream'[j - 1] = stream[j]
        BY <1>2, <4>1
      <4> QED BY <2>1, <2>3, <4>1, <4>2
    <3> QED BY <3>3, <3>4
  <2>5. CASE \A k \in 1..(i - 1) : stream'[k].kind # "meta"
    <3>1. \A k \in 1..(i - 1) : k \in 1..Len(stream') /\ stream'[k].kind = "tx"
      <4>1. \A k \in 1..(i - 1) : k \in 1..Len(stream') /\ stream'[k] \in Updates
        BY <1>2, <2>1
      <4>2. \A u \in Updates : u.kind # "meta" => u.kind = "tx"
        BY DEF Updates
      <4> QED BY <2>5, <4>1, <4>2
    <3>2. j = 1
      <4>1. ASSUME j # 1 PROVE FALSE
        <5>1. j - 1 \in 1..(i - 1) /\ j - 1 \in 1..Len(stream') /\ j - 1 + 1 = j
          BY <1>2, <2>1, <4>1
        <5>2. stream'[j - 1] = stream[j]
          BY <1>2, <5>1
        <5> QED BY <2>3, <2>5, <5>1, <5>2
      <4> QED BY <4>1
    <3> QED BY <1>1, <1>3, <2>1, <2>3, <3>1, <3>2 DEF Undated
  <2> QED BY <2>4, <2>5
<1>5. NotLate'
  <2>1. \A i \in 1..Len(stream') : stream[1].slot <= stream'[i].slot /\ stream'[i].slot \in Nat
    <3> SUFFICES ASSUME NEW i \in 1..Len(stream')
                 PROVE  stream[1].slot <= stream'[i].slot /\ stream'[i].slot \in Nat
      OBVIOUS
    <3>1. 1 \in 1..Len(stream) /\ i + 1 \in 1..Len(stream) /\ 1 < i + 1
      BY <1>2
    <3>2. stream[1].slot <= stream[i + 1].slot
      BY <3>1 DEF StreamInv
    <3> QED BY <1>2, <3>1, <3>2
  <2> QED BY <1>1, <1>3, <2>1 DEF NotLate
<1>6. UpToHead'
  <2> SUFFICES ASSUME sub = "live"
               PROVE  \/ \E j \in 1..Len(stream') : stream'[j].kind = "meta" /\ stream'[j].slot = head
                      \/ (\A j \in 1..Len(stream') : stream'[j].kind = "tx") /\ blockTime' >= head
    BY <1>1, <1>3 DEF UpToHead
  <2>1. PICK j \in 1..Len(stream) : stream[j].kind = "meta" /\ stream[j].slot = head
    BY <1>1, <1>2 DEF UpToHead
  <2>2. CASE j = 1
    <3>1. \A k \in 1..Len(stream') : stream'[k].kind = "meta" => stream'[k].slot = head
      BY <1>1, <1>2, <1>3, <2>1, <2>2 DEF StreamInv
    <3>2. \A k \in 1..Len(stream') : stream'[k].kind \in {"meta", "tx"}
      BY <1>2 DEF Updates
    <3> QED BY <1>1, <1>3, <2>1, <2>2, <3>1, <3>2
  <2>3. CASE j # 1
    <3>1. j - 1 \in 1..Len(stream') /\ j - 1 + 1 = j
      BY <1>2, <2>3
    <3>2. stream'[j - 1] = stream[j]
      BY <1>2, <3>1
    <3> QED BY <2>1, <3>1, <3>2
  <2> QED BY <2>2, <2>3
<1> QED BY <1>2, <1>3, <1>4, <1>5, <1>6

(* A transaction is received: if there was no time, there is one now.      *)
LEMMA TimeOfReceived ==
  ASSUME ListenerInv, stream # <<>>, stream' = Tail(stream), stream[1].kind = "tx",
         blockTime' = TimeOfTx, UNCHANGED <<head, sub, firsts>>
  PROVE  TimeInv'
<1> USE DEF ListenerInv, TimeInv
<1>2. /\ Len(stream) \in Nat /\ Len(stream) >= 1 /\ Len(stream') = Len(stream) - 1
      /\ \A i \in 1..Len(stream') : i + 1 \in 1..Len(stream) /\ stream'[i] = stream[i + 1]
      /\ \A i \in 1..Len(stream) : stream[i] \in Updates /\ stream[i].slot \in Nat
      /\ StreamInv'
  BY TailFacts
<1>3. /\ blockTime' \in Nat /\ blockTime' # 0 /\ blockTime' <= head' /\ head \in Nat /\ blockTime \in Nat
      /\ blockTime # 0 => blockTime' = blockTime
      /\ blockTime = 0 => blockTime' = head
  <2>1. TimeOfTx \in 1..head
    BY HeadFacts
  <2> QED BY <2>1 DEF TypeOK, TimeOfTx
<1>4. ASSUME NEW i \in 1..Len(stream')
      PROVE  /\ i \in Nat /\ i + 1 \in 1..Len(stream) /\ stream'[i] = stream[i + 1]
             /\ stream'[i].slot <= head
             /\ Undated(i + 1) <=> Undated(i)'
             /\ \A j \in 1..i : j # 1 => /\ j - 1 \in 1..(i - 1)
                                         /\ stream'[j - 1] = stream[j]
  <2>1. i \in Nat /\ i + 1 \in 1..Len(stream) /\ stream'[i] = stream[i + 1] /\ i <= Len(stream')
    BY <1>2
  <2>2. stream'[i].slot <= head
    BY <2>1 DEF StreamInv
  <2>3. \A j \in 1..i : j # 1 => j - 1 \in 1..(i - 1) /\ stream'[j - 1] = stream[j]
    <3> SUFFICES ASSUME NEW j \in 1..i, j # 1
                 PROVE  j - 1 \in 1..(i - 1) /\ stream'[j - 1] = stream[j]
      OBVIOUS
    <3>1. j - 1 \in 1..(i - 1) /\ j - 1 \in 1..Len(stream') /\ j - 1 + 1 = j
      BY <1>2, <2>1
    <3> QED BY <1>2, <3>1
  <2>4. Undated(i + 1) => Undated(i)'
    <3> SUFFICES ASSUME Undated(i + 1), NEW j \in 1..(i - 1) PROVE stream'[j].kind = "tx"
      BY DEF Undated
    <3>1. j + 1 \in 1..((i + 1) - 1) /\ j \in 1..Len(stream')
      BY <1>2, <2>1
    <3> QED BY <1>2, <3>1 DEF Undated
  <2>5. Undated(i)' => Undated(i + 1)
    <3> SUFFICES ASSUME Undated(i)', NEW j \in 1..i PROVE stream[j].kind = "tx"
      BY <2>1 DEF Undated
    <3>1. \A k \in 1..(i - 1) : stream'[k].kind = "tx"
      BY DEF Undated
    <3> QED BY <2>1, <2>3, <3>1
  <2> QED BY <2>1, <2>2, <2>3, <2>4, <2>5
<1>5. NotEarly'
  <2> SUFFICES ASSUME NEW i \in 1..Len(stream')
               PROVE  \/ \E j \in 1..(i - 1) : stream'[j].kind = "meta" /\ stream'[j].slot + 1 >= stream'[i].slot
                      \/ Undated(i)' /\ blockTime' # 0 /\ blockTime' + 1 >= stream'[i].slot
    BY DEF NotEarly
  <2>1. CASE \E j \in 1..i : stream[j].kind = "meta" /\ stream[j].slot + 1 >= stream[i + 1].slot
    BY <1>4, <2>1
  <2>2. CASE Undated(i + 1) /\ blockTime # 0 /\ blockTime + 1 >= stream[i + 1].slot
    BY <1>3, <1>4, <2>2
  <2>3. CASE Undated(i + 1) /\ blockTime = 0
    <3>1. stream'[i].slot \in Nat
      BY <1>2
    <3> QED BY <1>3, <1>4, <2>3, <3>1
  <2> QED BY <1>4, <2>1, <2>2, <2>3 DEF NotEarly
<1>6. NotLate'
  <2> SUFFICES ASSUME NEW i \in 1..Len(stream'), Undated(i)', blockTime' > stream'[i].slot
               PROVE  stream'[i].slot \in firsts
    BY <1>3 DEF NotLate
  <2>1. CASE blockTime # 0
    BY <1>3, <1>4, <2>1 DEF NotLate
  <2>2. CASE blockTime = 0
    <3>1. ~ \E j \in 1..i : stream[j].kind = "meta"
      BY <1>4 DEF Undated
    <3>2. stream[i + 1].slot = stream[1].slot
      BY <1>4, <2>2, <3>1 DEF NotEarly
    <3> QED BY <1>4, <2>2, <3>2 DEF NotLate
  <2> QED BY <2>1, <2>2
<1>7. UpToHead'
  <2> SUFFICES ASSUME sub = "live"
               PROVE  \/ \E j \in 1..Len(stream') : stream'[j].kind = "meta" /\ stream'[j].slot = head
                      \/ (\A j \in 1..Len(stream') : stream'[j].kind = "tx") /\ blockTime' >= head
    BY <1>3 DEF UpToHead
  <2>1. CASE \E j \in 1..Len(stream) : stream[j].kind = "meta" /\ stream[j].slot = head
    <3>1. PICK j \in 1..Len(stream) : stream[j].kind = "meta" /\ stream[j].slot = head
      BY <2>1
    <3>2. j - 1 \in 1..Len(stream') /\ j - 1 + 1 = j
      BY <1>2, <3>1
    <3> QED BY <1>2, <3>1, <3>2
  <2>2. CASE \A j \in 1..Len(stream) : stream[j].kind = "tx"
    BY <1>2, <1>3, <2>1, <2>2 DEF UpToHead
  <2> QED BY <2>1, <2>2 DEF UpToHead
<1> QED BY <1>2, <1>3, <1>5, <1>6, <1>7

(* A slot is produced and sent: its updates come after the metadata of the *)
(* slot before, unless the listener has that or is in its first slot.      *)
LEMMA TimeOfProduced ==
  ASSUME ListenerInv, ProduceSlot, sub = "live"
  PROVE  TimeInv'
<1> USE DEF ListenerInv, TimeInv
<1>1. /\ head \in Nat /\ head + 1 \in Slots /\ head' = head + 1
      /\ UNCHANGED <<blockTime, firsts, sub>> /\ blockTime \in Nat
  BY ListenerAssumption DEF ProduceSlot, listenerVars, TypeOK, Slots
<1>2. PICK us \in SlotUpdates(head + 1) : stream' = stream \o us
  BY DEF ProduceSlot
<1>3. us \in Seq(Updates) /\ Len(us) = TxsPerSlot + 1
  BY <1>1, SlotUpdatesShape
<1>4. PICK p \in 1..Len(us) :
           /\ us[p].kind = "meta"
           /\ \A i \in 1..Len(us) :
                 /\ us[i].slot = head + 1
                 /\ i # p => us[i].kind = "tx" /\ us[i].tx \in 1..TxsPerSlot
  BY <1>1, SlotUpdatesShape
<1> DEFINE L == Len(stream)
<1>5. /\ L \in Nat /\ Len(us) \in Nat /\ Len(us) >= 1 /\ Len(stream') = L + Len(us)
      /\ stream' \in Seq(Updates)
  <2>1. stream \in Seq(Updates)
    BY DEF StreamInv
  <2>2. L \in Nat /\ Len(us) \in Nat /\ Len(us) >= 1
    BY <1>3, <2>1, ListenerAssumption
  <2>3. stream' \in Seq(Updates) /\ Len(stream') = L + Len(us)
    BY ONLY <1>2, <1>3, <2>1, ConcatProperties
  <2> QED BY <2>2, <2>3
<1>6. \A i \in 1..L : i \in 1..Len(stream') /\ stream'[i] = stream[i]
  BY <1>2, <1>3, <1>5 DEF StreamInv
<1>7. \A i \in 1..Len(stream') : i \notin 1..L =>
          /\ i > L /\ i \in Nat /\ i - L \in 1..Len(us) /\ stream'[i] = us[i - L]
          /\ stream'[i].slot = head + 1
  <2> SUFFICES ASSUME NEW i \in 1..Len(stream'), i \notin 1..L
               PROVE  /\ i > L /\ i \in Nat /\ i - L \in 1..Len(us) /\ stream'[i] = us[i - L]
                      /\ stream'[i].slot = head + 1
    OBVIOUS
  <2>1. i > L /\ i \in Nat /\ i - L \in 1..Len(us)
    BY <1>5
  <2>2. stream'[i] = us[i - L]
    BY <1>2, <1>3, <1>5, <2>1 DEF StreamInv
  <2> QED BY <1>4, <2>1, <2>2
<1>8. \A i \in 1..L : stream'[i].slot <= head /\ stream'[i].slot \in Nat
  <2>1. \A u \in Updates : u.slot \in Nat
    BY ListenerAssumption DEF Updates, Slots
  <2> QED BY <1>5, <1>6, <2>1 DEF StreamInv
<1>9. StreamInv'
  <2>1. \A i \in 1..Len(stream') : stream'[i].slot <= head'
    BY <1>1, <1>7, <1>8
  <2>2. \A i \in 1..Len(stream') : stream'[i].kind = "tx" => stream'[i].tx \in 1..TxsPerSlot
    BY <1>4, <1>6, <1>7 DEF StreamInv
  <2>3. ASSUME NEW i \in 1..Len(stream'), NEW j \in 1..Len(stream'), i < j
        PROVE  stream'[i].slot <= stream'[j].slot
    <3>1. CASE j \in 1..L
      <4>1. i \in 1..L
        BY <1>5, <2>3, <3>1
      <4> QED BY <1>6, <2>3, <3>1, <4>1 DEF StreamInv
    <3>2. CASE j \notin 1..L
      <4>1. stream'[j].slot = head + 1
        BY <1>7, <3>2
      <4>2. CASE i \in 1..L
        <5>1. stream'[i].slot <= head /\ stream'[i].slot \in Nat
          BY ONLY <1>8, <4>2
        <5>2. head \in Nat
          BY <1>1
        <5> QED BY ONLY <4>1, <5>1, <5>2
      <4>3. CASE i \notin 1..L
        <5>1. stream'[i].slot = head + 1
          BY <1>7, <4>3
        <5>2. head \in Nat
          BY <1>1
        <5> QED BY ONLY <4>1, <5>1, <5>2
      <4> QED BY ONLY <4>2, <4>3
    <3> QED BY <3>1, <3>2
  <2> QED BY <1>5, <2>1, <2>2, <2>3 DEF StreamInv
<1>10. \A i \in 1..L : /\ Undated(i)' <=> Undated(i)
                       /\ \A j \in 1..(i - 1) : j \in 1..L
  BY <1>5, <1>6 DEF Undated
<1>11. /\ L + p \in 1..Len(stream') /\ L + p \notin 1..L /\ (L + p) - L = p
       /\ stream'[L + p].kind = "meta" /\ stream'[L + p].slot = head + 1
  <2>1. L + p \in 1..Len(stream') /\ L + p \notin 1..L /\ (L + p) - L = p
    BY <1>4, <1>5
  <2> QED BY <1>4, <1>7, <2>1
<1>12. \A i \in 1..Len(stream') : i \notin 1..L => \A j \in 1..L : j \in 1..(i - 1)
  BY <1>5, <1>7
<1>13. NotEarly'
  <2> SUFFICES ASSUME NEW i \in 1..Len(stream')
               PROVE  \/ \E j \in 1..(i - 1) : stream'[j].kind = "meta" /\ stream'[j].slot + 1 >= stream'[i].slot
                      \/ Undated(i)' /\ blockTime' # 0 /\ blockTime' + 1 >= stream'[i].slot
                      \/ Undated(i)' /\ blockTime' = 0 /\ stream'[i].slot = stream'[1].slot
    BY DEF NotEarly
  <2>1. CASE i \in 1..L
    <3>1. 1 \in 1..L /\ stream'[1] = stream[1] /\ stream'[i] = stream[i]
      BY <1>5, <1>6, <2>1
    <3>2. CASE \E j \in 1..(i - 1) : stream[j].kind = "meta" /\ stream[j].slot + 1 >= stream[i].slot
      BY <1>6, <1>10, <2>1, <3>1, <3>2
    <3> QED BY <1>1, <1>10, <2>1, <3>1, <3>2 DEF NotEarly
  <2>2. CASE i \notin 1..L
    <3>1. stream'[i].slot = head + 1 /\ i > L /\ i \in Nat
      BY <1>7, <2>2
    <3>2. CASE \E j \in 1..L : stream[j].kind = "meta" /\ stream[j].slot = head
      <4>1. PICK j \in 1..L : stream[j].kind = "meta" /\ stream[j].slot = head
        BY <3>2
      <4>2. stream'[j].kind = "meta" /\ stream'[j].slot = head /\ j \in 1..(i - 1)
        BY <1>6, <1>12, <2>2, <4>1
      <4> QED BY <1>1, <3>1, <4>2
    <3>3. CASE L + p < i
      <4>1. L + p \in 1..(i - 1)
        BY <1>4, <1>5, <3>1, <3>3
      <4> QED BY <1>1, <1>11, <3>1, <4>1
    <3>4. CASE /\ ~(L + p < i)
               /\ \A j \in 1..L : stream[j].kind = "tx"
               /\ blockTime # 0 => blockTime >= head
               /\ blockTime = 0 => stream = <<>>
      <4>1. Undated(i)'
        <5> SUFFICES ASSUME NEW j \in 1..(i - 1) PROVE stream'[j].kind = "tx"
          BY DEF Undated
        <5>1. CASE j \in 1..L
          BY <1>6, <3>4, <5>1
        <5>2. CASE j \notin 1..L
          <6>1. j \in 1..Len(stream') /\ j - L # p
            BY <1>4, <1>5, <3>1, <3>4
          <6> QED BY <1>4, <1>7, <5>2, <6>1
        <5> QED BY <5>1, <5>2
      <4>2. CASE blockTime = 0
        <5>1. 1 \in 1..Len(stream') /\ 1 \notin 1..L
          BY <1>5, <3>4, <4>2
        <5>2. stream'[1].slot = head + 1
          BY <1>7, <5>1
        <5> QED BY <1>1, <3>1, <4>1, <4>2, <5>2
      <4> QED BY <1>1, <3>1, <3>4, <4>1, <4>2
    <3> QED BY <3>2, <3>3, <3>4 DEF UpToHead
  <2> QED BY <2>1, <2>2
<1>14. NotLate'
  <2>1. ASSUME blockTime' = 0 PROVE stream'[1].slot \in firsts'
    <3>1. CASE stream = <<>>
      <4>1. 1 \in 1..Len(stream') /\ 1 \notin 1..L
        BY <1>5, <3>1
      <4>2. head + 1 \in firsts
        BY <1>1, <2>1, <3>1 DEF UpToHead
      <4> QED BY <1>1, <1>7, <4>1, <4>2
    <3>2. CASE stream # <<>>
      <4>1. 1 \in 1..L
        BY <1>5, <3>2 DEF StreamInv
      <4> QED BY <1>1, <1>6, <2>1, <3>2, <4>1 DEF NotLate
    <3> QED BY <3>1, <3>2
  <2>2. ASSUME blockTime' # 0, NEW i \in 1..Len(stream'), Undated(i)', blockTime' > stream'[i].slot
        PROVE  stream'[i].slot \in firsts'
    <3>1. i \in 1..L
      BY <1>1, <1>7, <2>2
    <3> QED BY <1>1, <1>6, <1>10, <2>2, <3>1 DEF NotLate
  <2> QED BY <2>1, <2>2 DEF NotLate
<1>15. UpToHead'
  BY <1>1, <1>11 DEF UpToHead
<1> QED BY <1>1, <1>9, <1>13, <1>14, <1>15

(* Every step keeps the order of the stream and the time.                  *)
LEMMA TimeStep == ASSUME ListenerInv, [Next]_vars PROVE TimeInv'
<1> USE DEF ListenerInv
<1>1. CASE ProduceSlot
  <2>1. CASE sub = "live"
    BY <1>1, <2>1, TimeOfProduced
  <2>2. CASE sub # "live"
    <3>1. UNCHANGED <<stream, blockTime, firsts, sub>> /\ head' = head + 1 /\ head \in Nat
      BY <1>1, <2>2 DEF ProduceSlot, listenerVars, TypeOK
    <3>2. StreamInv'
      <4>1. \A u \in Updates : u.slot \in Nat
        BY ListenerAssumption DEF Updates, Slots
      <4> QED BY <3>1, <4>1 DEF TimeInv, StreamInv
    <3>3. NotEarly' /\ NotLate'
      BY <3>1 DEF TimeInv, NotEarly, NotLate, Undated
    <3>4. UpToHead' /\ blockTime' <= head'
      BY <2>2, <3>1 DEF TimeInv, UpToHead, TypeOK
    <3> QED BY <3>2, <3>3, <3>4 DEF TimeInv
  <2> QED BY <2>1, <2>2
<1>2. CASE StreamBreaks
  BY <1>2, TimeBreaks DEF StreamBreaks
<1>3. CASE Crash \/ RecvTxDies
  BY <1>3, TimeReset DEF Crash, RecvTxDies, Dies, TypeOK
<1>4. CASE SubscribeFails \/ KeepAlive \/ Broker \/ Start \/ GrpcConnect \/ RecvFails \/ UNCHANGED vars
  BY <1>4, TimeFrame DEF SubscribeFails, KeepAlive, Broker, Start, GrpcConnect, RecvFails,
                         vars, chainVars, listenerVars
<1>5. CASE Subscribe
  BY <1>5, TimeReset DEF Subscribe, TypeOK
<1>6. CASE RecvMeta
  BY <1>6, TimeOfMeta
<1>7. CASE RecvTx
  <2>1. /\ stream # <<>> /\ stream' = Tail(stream) /\ Head(stream).kind = "tx"
        /\ blockTime' = TimeOfTx /\ UNCHANGED <<head, sub, firsts>>
    BY <1>7 DEF RecvTx, Receive
  <2>2. stream[1].kind = "tx"
    BY <2>1, HeadFacts
  <2> QED BY <2>1, <2>2, TimeOfReceived
<1> QED BY <1>1, <1>2, <1>3, <1>4, <1>5, <1>6, <1>7 DEF Next, Listen

(* A step dates what it publishes within one block, or later only in the   *)
(* first slot of a subscription.                                           *)
LEMMA DatedStep == ASSUME ListenerInv, [Next]_vars PROVE DatedWithinOneBlock'
<1> USE DEF ListenerInv
<1>1. firsts \subseteq firsts'
  BY DEF Next, Listen, ProduceSlot, StreamBreaks, Crash, SubscribeFails, KeepAlive, RecvTxDies,
         Broker, Start, GrpcConnect, Subscribe, RecvFails, RecvMeta, RecvTx, Dies,
         listenerVars, vars
<1>2. CASE RecvTx
  <2>1. /\ stream # <<>> /\ Head(stream).kind = "tx" /\ UNCHANGED firsts
        /\ AddToSolanaQueue(Message(Head(stream), TimeOfTx))
    BY <1>2 DEF RecvTx, Receive
  <2> DEFINE m == Message(Head(stream), TimeOfTx)
             s == stream[1].slot
  <2>2. sent' \subseteq sent \union {m}
    BY <2>1 DEF AddToSolanaQueue, PublishReaches, PublishRefused, PublishSwallowed
  <2>3. m.time = TimeOfTx /\ m.slot = s /\ s \in 1..head /\ head \in Nat /\ Len(stream) >= 1
        /\ blockTime \in Nat /\ Len(stream) \in Nat
    BY <2>1, HeadFacts DEF Message, TypeOK
  <2>4. Undated(1) /\ ~ \E j \in 1..(1 - 1) : stream[j].kind = "meta"
    BY DEF Undated
  <2>5. blockTime # 0 => blockTime + 1 >= s /\ (blockTime > s => s \in firsts)
    BY <2>3, <2>4 DEF TimeInv, NotEarly, NotLate
  <2>6. blockTime = 0 => s \in firsts
    BY <2>1 DEF TimeInv, NotLate
  <2>7. m.time + 1 >= m.slot /\ (m.time > m.slot => m.slot \in firsts)
    BY <2>3, <2>5, <2>6 DEF TimeOfTx
  <2> HIDE DEF m
  <2> QED BY <2>1, <2>2, <2>7 DEF DatedWithinOneBlock
<1>3. CASE ~ RecvTx
  <2>1. UNCHANGED sent
    BY <1>3 DEF Next, Listen, ProduceSlot, StreamBreaks, Crash, SubscribeFails, KeepAlive, RecvTxDies,
         Broker, Start, GrpcConnect, Subscribe, RecvFails, RecvMeta, Connect, ReconnectFatal,
         ConnBreaks, ConnNoticed, publisherVars, vars
  <2> QED BY <1>1, <2>1 DEF DatedWithinOneBlock
<1> QED BY <1>2, <1>3

(* There are finitely many transactions.                                   *)
LEMMA TxsFinite == IsFiniteSet(Txs)
<1>1. IsFiniteSet(Slots) /\ IsFiniteSet(1..TxsPerSlot)
  BY ListenerAssumption, FS_Interval DEF Slots
<1>2. IsFiniteSet(Slots \X (1..TxsPerSlot))
  BY ONLY <1>1, FS_Product
<1> QED BY <1>2 DEF Txs

(* How a step changes what is lost while no channel exception happens:     *)
(* the transaction in hand, paid for by the debt or by a fault.            *)
LEMMA LossChange ==
  ASSUME ListenerInv, LossInv, [Next]_vars, chanFaults' = 0, NEW x,
         x = <<Head(stream).slot, Head(stream).tx>>
  PROVE  /\ chanFaults = 0 /\ conn' # "chanClosed" /\ faults' \in Nat
         /\ \/ LostTxs' \subseteq LostTxs /\ Debt' <= Debt /\ faults' = faults
            \/ LostTxs' \subseteq LostTxs /\ Debt' <= Debt + 1 /\ faults' = faults + 1
            \/ LostTxs' \subseteq LostTxs \union {x} /\ Debt' + 1 <= Debt /\ faults' = faults
            \/ LostTxs' \subseteq LostTxs \union {x} /\ Debt' <= Debt + 1 /\ faults' = faults + 1
<1> USE DEF ListenerInv, LossInv, TypeOK, PublisherTypeOK, Fault, Debt
<1>0. faults \in Nat /\ chanFaults \in Nat
  BY FaultsAssumption
<1>1. ASSUME sent \subseteq sent', seen' \subseteq seen PROVE LostTxs' \subseteq LostTxs
  BY <1>1 DEF LostTxs
<1>2. ASSUME sent \subseteq sent', seen' \subseteq seen \union {x}
      PROVE LostTxs' \subseteq LostTxs \union {x}
  BY <1>2 DEF LostTxs
<1>3. CASE UNCHANGED vars \/ ProduceSlot \/ GrpcConnect \/ Subscribe \/ RecvFails \/ RecvMeta
  <2>1. UNCHANGED <<publisherVars, seen>>
    BY <1>3 DEF vars, ProduceSlot, GrpcConnect, Subscribe, RecvFails, RecvMeta
  <2> QED BY <1>0, <1>1, <2>1 DEF publisherVars
<1>4. CASE StreamBreaks \/ Crash \/ SubscribeFails
  BY <1>0, <1>1, <1>4 DEF StreamBreaks, Crash, SubscribeFails
<1>5. CASE KeepAlive
  BY <1>0, <1>1, <1>5 DEF KeepAlive
<1>6. CASE Broker
  BY <1>0, <1>1, <1>6 DEF Broker, ConnBreaks, ConnNoticed
<1>7. CASE Start
  BY <1>0, <1>1, <1>7 DEF Start, Connect
<1>8. CASE RecvTxDies
  BY <1>0, <1>2, <1>8 DEF RecvTxDies, ReconnectFatal
<1>9. CASE RecvTx
  <2> DEFINE m == Message(Head(stream), TimeOfTx)
  <2>1. seen' = seen \union {x} /\ AddToSolanaQueue(m)
    BY <1>9 DEF RecvTx
  <2>2. m.slot = Head(stream).slot /\ m.tx = Head(stream).tx
    BY DEF Message
  <2> HIDE DEF m
  <2>3. CASE PublishReaches(m)
    <3>1. LostTxs' \subseteq LostTxs
      BY <2>1, <2>2, <2>3 DEF LostTxs, PublishReaches
    <3> QED BY <1>0, <2>3, <3>1 DEF PublishReaches
  <2>4. CASE PublishRefused(m)
    BY <1>0, <1>2, <2>1, <2>4 DEF PublishRefused
  <2>5. CASE PublishSwallowed(m)
    BY <1>0, <1>2, <2>1, <2>5 DEF PublishSwallowed
  <2> QED BY <2>1, <2>3, <2>4, <2>5 DEF AddToSolanaQueue
<1> QED BY <1>3, <1>4, <1>5, <1>6, <1>7, <1>8, <1>9 DEF Next, Listen

(* Every step keeps the balance of losses, debt and faults.                *)
LEMMA LossStep == ASSUME ListenerInv, LossInv, [Next]_vars, TypeOK' PROVE LossInv'
<1> SUFFICES ASSUME chanFaults' = 0
             PROVE  conn' # "chanClosed" /\ Cardinality(LostTxs') + Debt' <= 2 * faults'
  BY DEF LossInv
<1> DEFINE x == <<Head(stream).slot, Head(stream).tx>>
<1> HIDE DEF x
<1>1. /\ chanFaults = 0 /\ conn' # "chanClosed" /\ faults' \in Nat
      /\ \/ LostTxs' \subseteq LostTxs /\ Debt' <= Debt /\ faults' = faults
         \/ LostTxs' \subseteq LostTxs /\ Debt' <= Debt + 1 /\ faults' = faults + 1
         \/ LostTxs' \subseteq LostTxs \union {x} /\ Debt' + 1 <= Debt /\ faults' = faults
         \/ LostTxs' \subseteq LostTxs \union {x} /\ Debt' <= Debt + 1 /\ faults' = faults + 1
  BY LossChange DEF x
<1>2. Cardinality(LostTxs) + Debt <= 2 * faults
  BY <1>1 DEF LossInv
<1>3. IsFiniteSet(LostTxs) /\ IsFiniteSet(LostTxs')
  <2>1. IsFiniteSet(Txs)
    BY TxsFinite
  <2>2. LostTxs \subseteq Txs /\ LostTxs' \subseteq Txs
    BY DEF LostTxs, ListenerInv, TypeOK
  <2> QED BY <2>1, <2>2, FS_Subset
<1>4. /\ IsFiniteSet(LostTxs \union {x})
      /\ Cardinality(LostTxs) \in Nat /\ Cardinality(LostTxs') \in Nat
      /\ Cardinality(LostTxs \union {x}) \in Nat
      /\ Cardinality(LostTxs \union {x}) <= Cardinality(LostTxs) + 1
  <2>1. /\ IsFiniteSet(LostTxs \union {x})
        /\ \/ Cardinality(LostTxs \union {x}) = Cardinality(LostTxs)
           \/ Cardinality(LostTxs \union {x}) = Cardinality(LostTxs) + 1
    BY <1>3, FS_AddElement
  <2>2. /\ Cardinality(LostTxs) \in Nat /\ Cardinality(LostTxs') \in Nat
        /\ Cardinality(LostTxs \union {x}) \in Nat
    BY <1>3, <2>1, FS_CardinalityType
  <2> QED BY <2>1, <2>2
<1>5. /\ LostTxs' \subseteq LostTxs => Cardinality(LostTxs') <= Cardinality(LostTxs)
      /\ LostTxs' \subseteq LostTxs \union {x}
           => Cardinality(LostTxs') <= Cardinality(LostTxs \union {x})
  BY <1>3, <1>4, FS_Subset
<1>6. Debt \in Nat /\ Debt' \in Nat /\ faults \in Nat
  BY FaultsAssumption DEF Debt, ListenerInv, TypeOK, PublisherTypeOK
<1>7. Cardinality(LostTxs') + Debt' <= 2 * faults'
  <2>1. CASE LostTxs' \subseteq LostTxs /\ Debt' <= Debt /\ faults' = faults
    BY <1>2, <1>4, <1>5, <1>6, <2>1
  <2>2. CASE LostTxs' \subseteq LostTxs /\ Debt' <= Debt + 1 /\ faults' = faults + 1
    BY <1>2, <1>4, <1>5, <1>6, <2>2
  <2>3. CASE LostTxs' \subseteq LostTxs \union {x} /\ Debt' + 1 <= Debt /\ faults' = faults
    <3>1. Cardinality(LostTxs') <= Cardinality(LostTxs) + 1
      BY <1>4, <1>5, <2>3
    <3>2. Cardinality(LostTxs') + Debt' <= Cardinality(LostTxs) + Debt
      <4>1. Debt' + 1 <= Debt
        BY <2>3
      <4>2. \A c, cc, d, dd \in Nat : cc <= c + 1 /\ dd + 1 <= d => cc + dd <= c + d
        OBVIOUS
      <4> QED BY ONLY <1>4, <1>6, <3>1, <4>1, <4>2
    <3>3. Cardinality(LostTxs') + Debt' <= 2 * faults
      BY ONLY <1>2, <1>4, <1>6, <3>2
    <3> QED BY <2>3, <3>3
  <2>4. CASE LostTxs' \subseteq LostTxs \union {x} /\ Debt' <= Debt + 1 /\ faults' = faults + 1
    <3>1. Cardinality(LostTxs') <= Cardinality(LostTxs) + 1
      BY <1>4, <1>5, <2>4
    <3> QED BY ONLY <1>2, <1>4, <1>6, <2>4, <3>1
  <2> QED BY <1>1, <2>1, <2>2, <2>3, <2>4
<1> QED BY <1>1, <1>7

(* Every step keeps the invariant.                                         *)
LEMMA InvStep == IInv /\ [Next]_vars => IInv'
<1> SUFFICES ASSUME IInv, [Next]_vars PROVE IInv'
  OBVIOUS
<1>1. TypeOK' /\ sent' \subseteq MessageType /\ SubscriptionPinged'
  BY TypeStep DEF IInv
<1>2. TimeInv'
  BY TimeStep DEF IInv
<1>3. DatedWithinOneBlock'
  BY DatedStep DEF IInv
<1>4. LossInv'
  BY <1>1, LossStep DEF IInv
<1> QED BY <1>1, <1>2, <1>3, <1>4 DEF IInv, ListenerInv

(* No transaction is dated before the block that precedes its own, and     *)
(* none after its own but in the first slot of a subscription: whatever    *)
(* the listener is behind, and wherever the node puts the metadata.        *)
THEOREM AlwaysDatedWithinOneBlock == Spec => []DatedWithinOneBlock
<1>1. IInv => DatedWithinOneBlock
  BY DEF IInv, ListenerInv
<1> QED BY <1>1, InitInv, InvStep, PTL DEF Spec

(* Without a channel exception at most two transactions are lost per fault *)
(* (HandleTransaction ignores what AddToSolanaQueue could not send).       *)
THEOREM ListenerLossBounded == Spec => []ListenerLossBound
<1>1. IInv => ListenerLossBound
  <2> SUFFICES ASSUME IInv, chanFaults = 0 PROVE Cardinality(LostTxs) <= 2 * faults
    BY DEF ListenerLossBound
  <2>1. LostTxs \subseteq Txs /\ faults \in Nat /\ Debt \in Nat
    BY FaultsAssumption DEF LostTxs, IInv, ListenerInv, TypeOK, PublisherTypeOK, Debt
  <2>2. IsFiniteSet(Txs)
    BY TxsFinite
  <2>3. Cardinality(LostTxs) \in Nat
    BY <2>1, <2>2, FS_Subset, FS_CardinalityType
  <2> QED BY <2>1, <2>3 DEF IInv, LossInv
<1> QED BY <1>1, InitInv, InvStep, PTL DEF Spec

(* The types, and somebody pings a live subscription, however many         *)
(* keepAlive goroutines of earlier ones are left: the safety part of       *)
(* StaysSubscribed.                                                        *)
THEOREM SubscriptionStaysPinged == Spec => [](TypeOK /\ SubscriptionPinged)
<1>1. IInv => TypeOK /\ SubscriptionPinged
  BY DEF IInv, ListenerInv
<1> QED BY <1>1, InitInv, InvStep, PTL DEF Spec
=============================================================================
