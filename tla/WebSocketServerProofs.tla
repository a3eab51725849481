----------------------- MODULE WebSocketServerProofs -----------------------
(***************************************************************************)
(* Proofs about WebSocketServer: for every set of connections, requests    *)
(* and transactions, and every number of deaths.                           *)
(***************************************************************************)
EXTENDS WebSocketServer, TLAPS

(* TypeOK without the quantifier over domains, and with all of hub.        *)
Types ==
    /\ Registered \subseteq Conns /\ clients \in [Registered -> Data]
    /\ conn \in [Conns -> {"idle", "read", "store", "leave", "ended"}]
    /\ req \in [Conns -> Data]
    /\ ping \in [Conns -> {"none", "sleep", "write", "ended"}]
    /\ peer \in [Conns -> {"ok", "stalled", "gone"}]
    /\ bcast \in [Txs -> {"idle", "swaps", "tokens", "done"}]
    /\ asked \in [Conns -> SUBSET Asks]
    /\ deaths \in 0..MaxDeaths

Messages == [conn : Conns, wallets : SUBSET UNION {Trades[t] : t \in Txs}]

HubType ==
    hub \in [pc : {"select", "lock", "range", "write"}, round : Rounds \union {Idle.round},
             todo : SUBSET Conns, to : Conns \union {NoConn},
             sent : SUBSET Messages, spoiled : SUBSET Conns]

(* What the hub has before it are registered clients that want the round.  *)
(* Between rounds it holds nothing.                                        *)
HubInv ==
    /\ MuFree => hub.sent = {}
    /\ hub.pc # "select" => hub.round \in Rounds
    /\ hub.pc \in {"range", "write"} =>
          \A c \in hub.todo : c \in Registered /\ Wants(clients[c], hub.round)
    /\ hub.pc = "write" => /\ hub.to \in Registered \ hub.todo
                           /\ Wants(clients[hub.to], hub.round)
    /\ hub.pc # "write" => hub.to = NoConn

(* What is registered or about to be was asked for by its connection.      *)
AskedInv ==
    /\ \A c \in Registered : clients[c] = Blank \/ clients[c] \in asked[c]
    /\ \A c \in Conns : conn[c] = "store" => req[c] \in asked[c]

IInv == Types /\ HubType /\ HubInv /\ AskedInv /\ ClientsInService /\ RoundsExact

(* The hub between rounds.                                                 *)
LEMMA IdleFacts == hub = Idle => HubType /\ HubInv /\ RoundsExact
<1> SUFFICES ASSUME hub = Idle PROVE HubType /\ HubInv /\ RoundsExact
  OBVIOUS
<1>1. /\ Idle.pc = "select" /\ Idle.round = Round("", NoTx) /\ Idle.todo = {}
      /\ Idle.to = NoConn /\ Idle.sent = {} /\ Idle.spoiled = {}
  BY DEF Idle
<1>2. HubType
  BY <1>1 DEF HubType, Idle
<1> QED BY <1>1, <1>2 DEF HubInv, MuFree, RoundsExact, RoundCoversAll, OnlyWhatWasAsked

(* The initial state.                                                      *)
LEMMA InvInit == Init => IInv
<1> SUFFICES ASSUME Init PROVE IInv
  OBVIOUS
<1>1. Registered = {}
  BY DEF Init, Registered
<1>2. HubType /\ HubInv /\ RoundsExact
  BY IdleFacts DEF Init
<1>3. Types
  BY <1>1, WebSocketAssumption DEF Init, Types, Data
<1>4. AskedInv /\ ClientsInService
  BY <1>1 DEF Init, AskedInv, ClientsInService
<1> QED BY <1>2, <1>3, <1>4 DEF IInv

(* The invariant says what the run checks.                                 *)
LEMMA InvImplies == IInv => ServiceAgrees /\ RoundsExact
<1> SUFFICES ASSUME IInv PROVE ServiceAgrees
  BY DEF IInv
<1> USE DEF IInv, Types, HubType, HubInv
<1>1. TypeOK
  <2>1. \E S \in SUBSET Conns : clients \in [S -> Data]
    OBVIOUS
  <2>2. \A m \in hub.sent : m.conn \in Conns
    BY DEF Messages
  <2> QED BY <2>1, <2>2 DEF TypeOK
<1>2. NeverWritesToClosed
  BY DEF NeverWritesToClosed, ClientsInService, Live
<1> QED BY <1>1, <1>2 DEF ServiceAgrees

(* A step that leaves the hub and ws.clients alone keeps what is said of   *)
(* rounds, if no connection's requests are forgotten.                      *)
LEMMA HubFrame ==
  ASSUME IInv, UNCHANGED <<clients, hub>>, \A c \in Conns : asked[c] \subseteq asked'[c]
  PROVE  HubType' /\ HubInv' /\ RoundsExact'
<1> USE DEF IInv
<1>1. HubType'
  BY DEF HubType
<1>2. HubInv'
  BY DEF HubInv, MuFree, Registered
<1>3. RoundCoversAll'
  BY DEF RoundsExact, RoundCoversAll, Registered, Message
<1>4. OnlyWhatWasAsked'
  <2>1. \A m \in hub.sent : m.conn \in Conns
    BY DEF HubType, Messages
  <2> QED BY <2>1 DEF RoundsExact, OnlyWhatWasAsked
<1> QED BY <1>1, <1>2, <1>3, <1>4 DEF RoundsExact

(* So does a step of somebody who has ws.mu: there is no round then.       *)
LEMMA HubFree ==
  ASSUME IInv, UNCHANGED hub, MuFree
  PROVE  HubType' /\ HubInv' /\ RoundsExact'
<1> USE DEF IInv
<1>1. HubType'
  BY DEF HubType
<1>2. hub.pc \in {"select", "lock"} /\ hub.sent = {}
  BY DEF HubType, HubInv, MuFree
<1>3. HubInv' /\ RoundsExact'
  BY <1>2 DEF HubInv, MuFree, RoundsExact, RoundCoversAll, OnlyWhatWasAsked
<1> QED BY <1>1, <1>3

(* Clients, handlers and pingers keep the invariant.                       *)
LEMMA ConnStep ==
  ASSUME IInv, NEW c \in Conns,
         \/ Stall(c) \/ Resume(c) \/ Drop(c) \/ ReadMessage(c) \/ ReadEnds(c) \/ PingTick(c)
  PROVE  IInv'
<1> USE DEF IInv, Types, AskedInv, ClientsInService, Registered, Live, connVars
<1>0. UNCHANGED <<clients, hub>>
  BY DEF Stall, Resume, Drop, ReadMessage, ReadEnds, PingTick
<1>1. CASE Stall(c)
  BY <1>0, <1>1, HubFrame DEF Stall
<1>2. CASE Resume(c)
  BY <1>0, <1>2, HubFrame DEF Resume
<1>3. CASE Drop(c)
  BY <1>0, <1>3, HubFrame DEF Drop
<1>4. CASE ReadMessage(c)
  <2>1. PICK d \in Asks : /\ req' = [req EXCEPT ![c] = d]
                          /\ asked' = [asked EXCEPT ![c] = @ \union {d}]
    BY <1>4 DEF ReadMessage
  <2>2. HubType' /\ HubInv' /\ RoundsExact'
    BY <1>0, <2>1, HubFrame
  <2>3. Types'
    BY <1>4, <2>1 DEF ReadMessage, Data
  <2>4. AskedInv' /\ ClientsInService'
    BY <1>4, <2>1 DEF ReadMessage
  <2> QED BY <2>2, <2>3, <2>4
<1>5. CASE ReadEnds(c)
  BY <1>0, <1>5, HubFrame DEF ReadEnds
<1>6. CASE PingTick(c)
  BY <1>0, <1>6, HubFrame DEF PingTick
<1> QED BY <1>1, <1>2, <1>3, <1>4, <1>5, <1>6

(* The steps of a handler under ws.mu keep the invariant.                  *)
LEMMA HandlerStep ==
  ASSUME IInv, NEW c \in Conns, Register(c) \/ Store(c) \/ Leave(c)
  PROVE  IInv'
<1> USE DEF IInv, Types, AskedInv, ClientsInService, Registered
<1>0. HubType' /\ HubInv' /\ RoundsExact'
  BY HubFree DEF Register, Store, Leave
<1>1. CASE Register(c)
  <2>1. /\ DOMAIN clients' = DOMAIN clients \union {c}
        /\ clients'[c] = Blank
        /\ \A e \in DOMAIN clients : e # c => clients'[e] = clients[e]
    BY <1>1 DEF Register, With
  <2>2. Types'
    BY <1>1, <2>1 DEF Register, With, Data
  <2>3. AskedInv' /\ ClientsInService'
    BY <1>1, <2>1 DEF Register
  <2> QED BY <1>0, <2>2, <2>3
<1>2. CASE Store(c)
  <2>1. /\ DOMAIN clients' = DOMAIN clients \union {c}
        /\ clients'[c] = req[c]
        /\ \A e \in DOMAIN clients : e # c => clients'[e] = clients[e]
    BY <1>2 DEF Store, With
  <2>2. Types'
    BY <1>2, <2>1 DEF Store, With, Data
  <2>3. AskedInv' /\ ClientsInService'
    BY <1>2, <2>1 DEF Store
  <2> QED BY <1>0, <2>2, <2>3
<1>3. CASE Leave(c)
  <2>1. /\ DOMAIN clients' = DOMAIN clients \ {c}
        /\ \A e \in DOMAIN clients' : clients'[e] = clients[e]
    BY <1>3 DEF Leave, Without
  <2>2. Types'
    BY <1>3, <2>1 DEF Leave, Without
  <2>3. AskedInv' /\ ClientsInService'
    BY <1>3, <2>1 DEF Leave
  <2> QED BY <1>0, <2>2, <2>3
<1> QED BY <1>1, <1>2, <1>3

(* A death clears everything.                                              *)
LEMMA DieStep == ASSUME IInv, Die PROVE IInv'
<1> USE DEF IInv
<1>1. DOMAIN clients' = {}
  BY DEF Die
<1>2. HubType' /\ HubInv' /\ RoundsExact'
  <2>1. (hub = Idle)'
    BY DEF Die
  <2> QED BY <2>1, IdleFacts, PTL
<1>3. Types'
  BY <1>1, WebSocketAssumption DEF Die, Types, Registered, Data
<1>4. AskedInv' /\ ClientsInService'
  BY <1>1 DEF Die, AskedInv, ClientsInService, Registered
<1> QED BY <1>2, <1>3, <1>4

(* The goroutines that broadcast keep the invariant.                       *)
LEMMA BroadcastStep ==
  ASSUME IInv, NEW t \in Txs,
         ProcessTransaction(t) \/ BroadcastSwaps(t) \/ BroadcastPumpFunTokens(t)
  PROVE  IInv'
<1> USE DEF IInv, connVars
<1>1. UNCHANGED <<clients, conn, req, ping, asked, peer, deaths>>
  BY DEF ProcessTransaction, BroadcastSwaps, BroadcastPumpFunTokens
<1>2. bcast' \in [Txs -> {"idle", "swaps", "tokens", "done"}]
  BY DEF ProcessTransaction, BroadcastSwaps, BroadcastPumpFunTokens, Types
<1>3. Types' /\ AskedInv' /\ ClientsInService'
  BY <1>1, <1>2 DEF Types, AskedInv, ClientsInService, Registered
<1>4. CASE ProcessTransaction(t)
  BY <1>1, <1>3, <1>4, HubFrame DEF ProcessTransaction, Types
<1>5. ASSUME NEW kind \in {"swaps", "tokens"}, HubTakes(kind, t)
      PROVE  HubType' /\ HubInv' /\ RoundsExact'
  <2>1. hub' = [pc |-> "lock", round |-> Round(kind, t), todo |-> {}, to |-> NoConn,
                sent |-> {}, spoiled |-> {}]
    BY <1>5 DEF HubTakes, Idle
  <2>2. Round(kind, t) \in Rounds
    BY DEF Rounds
  <2>3. HubType'
    BY <2>1, <2>2 DEF HubType
  <2> QED BY <2>1, <2>2, <2>3 DEF HubInv, MuFree, RoundsExact, RoundCoversAll, OnlyWhatWasAsked
<1>6. CASE BroadcastSwaps(t)
  BY <1>3, <1>5, <1>6 DEF BroadcastSwaps
<1>7. CASE BroadcastPumpFunTokens(t)
  BY <1>3, <1>5, <1>7 DEF BroadcastPumpFunTokens
<1> QED BY <1>4, <1>6, <1>7

(* The hub keeps the invariant: a round takes up all who want it, and a    *)
(* client leaves todo only to be written to.                               *)
LEMMA HubStep == ASSUME IInv, HandleMessages PROVE IInv'
<1> USE DEF IInv
<1>1. CASE HubLock
  <2>1. /\ hub' = [hub EXCEPT !.pc = "range",
                              !.todo = {c \in Registered : Wants(clients[c], hub.round)}]
        /\ UNCHANGED <<clients, conn, req, ping, asked, peer, bcast, deaths>>
    BY <1>1 DEF HubLock, connVars
  <2>2. /\ hub'.pc = "range" /\ hub'.round = hub.round /\ hub'.sent = {}
        /\ hub'.to = NoConn /\ hub'.spoiled = hub.spoiled /\ hub.round \in Rounds
        /\ hub'.todo = {c \in Registered : Wants(clients[c], hub.round)}
    BY <1>1, <2>1 DEF HubLock, HubType, HubInv, MuFree
  <2>3. HubType'
    <3>1. {c \in Registered : Wants(clients[c], hub.round)} \in SUBSET Conns
      BY DEF Types
    <3> QED BY ONLY <3>1, <2>1, HubType DEF HubType
  <2>4. HubInv'
    BY <2>1, <2>2 DEF HubInv, MuFree, Registered
  <2>5. RoundsExact'
    BY <2>1, <2>2 DEF RoundsExact, RoundCoversAll, OnlyWhatWasAsked, Registered
  <2> QED BY <2>1, <2>3, <2>4, <2>5 DEF Types, AskedInv, ClientsInService, Registered
<1>2. CASE HubPick
  <2>1. PICK c \in hub.todo : hub' = [hub EXCEPT !.pc = "write", !.to = c, !.todo = @ \ {c}]
    BY <1>2 DEF HubPick
  <2>2. UNCHANGED <<clients, conn, req, ping, asked, peer, bcast, deaths>> /\ hub.pc = "range"
    BY <1>2 DEF HubPick, connVars
  <2>3. /\ hub'.pc = "write" /\ hub'.round = hub.round /\ hub'.sent = hub.sent
        /\ hub'.to = c /\ hub'.spoiled = hub.spoiled
        /\ hub'.todo = hub.todo \ {c}
    BY <2>1 DEF HubType
  <2>4. HubType'
    <3>1. c \in Conns
      BY DEF HubType
    <3> QED BY ONLY <3>1, <2>1, HubType DEF HubType
  <2>5. HubInv'
    BY <2>2, <2>3 DEF HubInv, MuFree, Registered
  <2>6. RoundCoversAll'
    <3>1. hub.to \notin Registered
      BY <2>2, WebSocketAssumption DEF HubInv, Types
    <3> QED BY <2>2, <2>3, <3>1 DEF RoundsExact, RoundCoversAll, Registered, Message
  <2>7. OnlyWhatWasAsked'
    BY <2>2, <2>3 DEF RoundsExact, OnlyWhatWasAsked
  <2> QED BY <2>2, <2>4, <2>5, <2>6, <2>7 DEF RoundsExact, Types, AskedInv, ClientsInService, Registered
<1>3. CASE hub.pc = "write" /\ (Written(hub.to) \/ Garbled(hub.to))
  <2> DEFINE c == hub.to
  <2>1. PICK S \in {{}, {Message(c, hub.round)}}, P \in {{}, {c}} :
             HubNext(S, P) /\ (S = {Message(c, hub.round)} \/ P = {c})
    BY <1>3 DEF Written, Garbled
  <2>2. UNCHANGED <<clients, conn, req, ping, asked, peer, bcast, deaths>>
    BY <1>3 DEF Written, Garbled, connVars
  <2>3. /\ c \in Registered /\ c \in Conns /\ c \notin hub.todo
        /\ Wants(clients[c], hub.round) /\ hub.round \in Rounds
    BY <1>3 DEF HubInv, Types
  <2>4. /\ hub'.pc = "range" /\ hub'.round = hub.round /\ hub'.sent = hub.sent \union S
        /\ hub'.to = NoConn /\ hub'.spoiled = hub.spoiled \union P
        /\ hub'.todo = hub.todo
    BY <2>1 DEF HubType, HubNext
  <2>5. /\ Message(c, hub.round) \in Messages
        /\ \E d \in asked[c] :
              IF hub.round.kind = "swaps"
                THEN d.type = "wallet" /\ Message(c, hub.round).wallets \subseteq d.wallets
                ELSE d.type = "pf-tokens"
    <3>0. Blank.type = ""
      BY DEF Blank
    <3>1. clients[c] \in asked[c]
      BY <2>3, <3>0 DEF AskedInv, Wants
    <3>2. PICK kind \in {"swaps", "tokens"}, t \in Txs : hub.round = Round(kind, t)
      BY <2>3 DEF Rounds
    <3>3. hub.round.tx \in Txs
      BY <3>2 DEF Round
    <3> QED BY <2>3, <3>1, <3>3 DEF Message, Messages, Relevant, Wants
  <2>6. HubType'
    <3>1. S \subseteq Messages /\ P \subseteq Conns
      BY <2>3, <2>5
    <3> QED BY ONLY <2>1, <3>1, HubType DEF HubType, HubNext
  <2>7. HubInv'
    BY <1>3, <2>2, <2>3, <2>4 DEF HubInv, MuFree, Registered
  <2>8. RoundCoversAll'
    BY <1>3, <2>1, <2>2, <2>3, <2>4 DEF RoundsExact, RoundCoversAll, Registered, Message
  <2>9. OnlyWhatWasAsked'
    <3>1. ASSUME NEW m \in hub.sent
          PROVE  \E d \in asked'[m.conn] :
                    IF hub'.round.kind = "swaps"
                      THEN d.type = "wallet" /\ m.wallets \subseteq d.wallets
                      ELSE d.type = "pf-tokens"
      BY <2>2, <2>4 DEF RoundsExact, OnlyWhatWasAsked
    <3>2. Message(c, hub.round).conn = c
      BY DEF Message
    <3> QED BY <2>1, <2>2, <2>4, <2>5, <3>1, <3>2 DEF OnlyWhatWasAsked
  <2> QED BY <2>2, <2>6, <2>7, <2>8, <2>9
          DEF Types, AskedInv, ClientsInService, Registered, RoundsExact
<1>4. CASE hub.pc = "write" /\ WriteFails(hub.to)
  <2> DEFINE c == hub.to
  <2>1. HubNext({}, {}) /\ clients' = Without(c) /\ Broken(c)
    BY <1>4 DEF WriteFails
  <2>2. UNCHANGED <<conn, req, ping, asked, peer, bcast, deaths>>
    BY <1>4 DEF WriteFails, connVars
  <2>3. /\ c \in Registered /\ c \in Conns /\ c \notin hub.todo /\ hub.round \in Rounds
    BY <1>4 DEF HubInv, Types
  <2>4. /\ hub'.pc = "range" /\ hub'.round = hub.round /\ hub'.sent = hub.sent
        /\ hub'.to = NoConn /\ hub'.spoiled = hub.spoiled
        /\ hub'.todo = hub.todo
    BY <2>1 DEF HubType, HubNext
  <2>5. /\ DOMAIN clients' = DOMAIN clients \ {c}
        /\ \A e \in DOMAIN clients' : clients'[e] = clients[e]
    BY <2>1 DEF Without, Registered
  <2>6. HubType'
    BY ONLY <2>1, HubType DEF HubType, HubNext
  <2>7. HubInv'
    BY <1>4, <2>3, <2>4, <2>5 DEF HubInv, MuFree, Registered
  <2>8. RoundCoversAll'
    BY <1>4, <2>3, <2>4, <2>5 DEF RoundsExact, RoundCoversAll, Registered, Message
  <2>9. OnlyWhatWasAsked'
    BY <2>2, <2>4 DEF RoundsExact, OnlyWhatWasAsked
  <2>10. Types'
    BY <2>1, <2>2, <2>5 DEF Types, Registered, Without
  <2>11. AskedInv' /\ ClientsInService'
    BY <2>1, <2>2, <2>3, <2>5 DEF AskedInv, ClientsInService, Registered, Broken, Live
  <2> QED BY <2>6, <2>7, <2>8, <2>9, <2>10, <2>11 DEF RoundsExact
<1>5. CASE HubUnlock
  <2>1. UNCHANGED <<clients, conn, req, ping, asked, peer, bcast, deaths>> /\ (hub = Idle)'
    BY <1>5 DEF HubUnlock, connVars
  <2>2. HubType' /\ HubInv' /\ RoundsExact'
    BY <2>1, IdleFacts, PTL
  <2> QED BY <2>1, <2>2 DEF Types, AskedInv, ClientsInService, Registered
<1>6. CASE Die
  BY <1>6, DieStep
<1> QED BY <1>1, <1>2, <1>3, <1>4, <1>5, <1>6 DEF HandleMessages, HubWrite

(* Every step keeps the invariant.                                         *)
LEMMA InvStep == IInv /\ [Next]_vars => IInv'
<1> SUFFICES ASSUME IInv, [Next]_vars PROVE IInv'
  OBVIOUS
<1>1. ASSUME NEW c \in Conns, PingWrite(c) PROVE IInv'
  <2>1. CASE Die
    BY <2>1, DieStep
  <2>2. CASE /\ ping' = [ping EXCEPT ![c] = IF Broken(c) THEN "ended" ELSE "sleep"]
             /\ UNCHANGED <<clients, conn, req, asked, peer, hub, bcast, deaths>>
    BY <2>2, HubFrame DEF IInv, Types, AskedInv, ClientsInService, Registered
  <2> QED BY <1>1, <2>1, <2>2 DEF PingWrite
<1>2. CASE UNCHANGED vars
  BY <1>2, HubFrame DEF IInv, Types, AskedInv, ClientsInService, Registered, vars, connVars
<1> QED BY <1>1, <1>2, ConnStep, HandlerStep, BroadcastStep, HubStep
        DEF Next, Handler, Pinger, Broadcaster

(* The hub and the handlers agree on the connections there are, and no     *)
(* write goes to one that its handler has closed.                          *)
THEOREM ServiceStaysAgreed == Spec => []ServiceAgrees
<1>1. Init => IInv
  BY InvInit
<1>2. IInv /\ [Next]_vars => IInv'
  BY InvStep
<1>3. IInv => ServiceAgrees
  BY InvImplies
<1> QED BY <1>1, <1>2, <1>3, PTL DEF Spec

(* Every round of the hub reaches all who asked for it and nobody else,    *)
(* however connections come, go and ask while it is held up.               *)
THEOREM RoundsStayExact == Spec => []RoundsExact
<1>1. Init => IInv
  BY InvInit
<1>2. IInv /\ [Next]_vars => IInv'
  BY InvStep
<1>3. IInv => RoundsExact
  BY InvImplies
<1> QED BY <1>1, <1>2, <1>3, PTL DEF Spec
=============================================================================
