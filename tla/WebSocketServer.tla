-------------------------- MODULE WebSocketServer --------------------------
(***************************************************************************)
(* cmd/api/websocket: the server the tx processor runs on port 8081, with  *)
(* the goroutines of ProcessTransaction that hand it their broadcasts.     *)
(*                                                                         *)
(*   handleConnections  one goroutine per connection: registers it, reads  *)
(*                      what the client asks for, and removes it           *)
(*   pinger             a second one per connection, started by the first  *)
(*   handleMessages     one goroutine, the hub: takes a broadcast and      *)
(*                      writes it to the clients, holding ws.mu            *)
(*   broadcasters       wait on the unbuffered channels for the hub        *)
(*                                                                         *)
(* ws.mu is held across steps by the hub only; the other holders take it   *)
(* for one access to ws.clients.  WriteMessage has no deadline: to a peer  *)
(* that does not read, it blocks.                                          *)
(***************************************************************************)
EXTENDS Integers, FiniteSets

CONSTANTS Conns,      \* connections
          Asks,       \* what clients may ask for: records [type, wallets]
          Txs,        \* transactions of blocks without ignoreWS
          Trades,     \* by transaction: the wallets its swaps belong to
          Launches,   \* transactions that create PumpFun tokens
          NoConn,     \* no connection
          NoTx,       \* no transaction
          MaxDeaths   \* bound: deaths of the process

ClientTypes == {"wallet", "pf-tokens"}

ASSUME WebSocketAssumption ==
    /\ IsFiniteSet(Conns) /\ NoConn \notin Conns
    /\ NoTx \notin Txs
    /\ \A d \in Asks : d.type \in ClientTypes
    /\ Launches \subseteq Txs
    /\ MaxDeaths \in Nat

VARIABLES clients,   \* ws.clients: registered connections and what they asked for
          conn,      \* handleConnections of each connection
          req,       \* the request its handler has read and not yet stored
          ping,      \* its pinger
          peer,      \* the other end: "ok", "stalled" or "gone"
          hub,       \* handleMessages
          bcast,     \* the broadcasting goroutine of each transaction
          asked,     \* history: what each connection in service asked for
          deaths     \* deaths so far

connVars == <<conn, req, ping, asked>>
vars == <<clients, connVars, peer, hub, bcast, deaths>>

(* Client{}: registered, nothing asked for yet.                            *)
Blank == [type |-> "", wallets |-> {}]
Data  == Asks \union {Blank}

Round(kind, t) == [kind |-> kind, tx |-> t]

(* The hub between rounds.  In a round, todo are the clients still to be   *)
(* written to, to is the one being written to, and two histories say what  *)
(* was sent and to whom the frame was garbled.                             *)
Idle == [pc |-> "select", round |-> Round("", NoTx), todo |-> {}, to |-> NoConn,
         sent |-> {}, spoiled |-> {}]

Rounds == {Round(kind, t) : kind \in {"swaps", "tokens"}, t \in Txs}

TypeOK == /\ \E S \in SUBSET Conns : clients \in [S -> Data]
          /\ conn \in [Conns -> {"idle", "read", "store", "leave", "ended"}]
          /\ req \in [Conns -> Data]
          /\ ping \in [Conns -> {"none", "sleep", "write", "ended"}]
          /\ peer \in [Conns -> {"ok", "stalled", "gone"}]
          /\ hub.pc \in {"select", "lock", "range", "write"}
          /\ hub.round \in Rounds \union {Idle.round}
          /\ hub.todo \subseteq Conns
          /\ hub.to \in Conns \union {NoConn}
          /\ bcast \in [Txs -> {"idle", "swaps", "tokens", "done"}]
          /\ hub.spoiled \subseteq Conns
          /\ \A m \in hub.sent : m.conn \in Conns
          /\ \A c \in Conns : asked[c] \subseteq Asks
          /\ deaths \in 0..MaxDeaths

Registered == DOMAIN clients

Init == /\ clients = [c \in {} |-> Blank]
        /\ conn = [c \in Conns |-> "idle"]
        /\ req = [c \in Conns |-> Blank]
        /\ ping = [c \in Conns |-> "none"]
        /\ peer = [c \in Conns |-> "ok"]
        /\ hub = Idle
        /\ bcast = [t \in Txs |-> "idle"]
        /\ asked = [c \in Conns |-> {}]
        /\ deaths = 0

-----------------------------------------------------------------------------
(* The clients (external).                                                 *)

Live(c) == conn[c] \notin {"idle", "ended"}

Stall(c) == /\ Live(c) /\ peer[c] = "ok"
            /\ peer' = [peer EXCEPT ![c] = "stalled"]
            /\ UNCHANGED <<clients, connVars, hub, bcast, deaths>>

Resume(c) == /\ Live(c) /\ peer[c] = "stalled"
             /\ peer' = [peer EXCEPT ![c] = "ok"]
             /\ UNCHANGED <<clients, connVars, hub, bcast, deaths>>

(* It closes the connection, or TCP gives it up.                           *)
Drop(c) == /\ Live(c) /\ peer[c] # "gone"
           /\ peer' = [peer EXCEPT ![c] = "gone"]
           /\ UNCHANGED <<clients, connVars, hub, bcast, deaths>>

-----------------------------------------------------------------------------
(* The process.                                                            *)

(* A panic in any goroutine.  The supervisor starts a new process, to      *)
(* which clients make new connections; blocks that were not acknowledged   *)
(* are delivered again, those that were take their waiting broadcasts      *)
(* with them.                                                              *)
Die == LET Used == {c \in Conns : conn[c] # "idle"}
       IN  /\ deaths < MaxDeaths
           /\ deaths' = deaths + 1
           /\ clients' = [c \in {} |-> Blank]
           /\ conn' = [c \in Conns |-> IF c \in Used THEN "ended" ELSE "idle"]
           /\ ping' = [c \in Conns |-> IF c \in Used THEN "ended" ELSE "none"]
           /\ peer' = [c \in Conns |-> IF c \in Used THEN "gone" ELSE "ok"]
           /\ req' = [c \in Conns |-> Blank]
           /\ asked' = [c \in Conns |-> {}]
           /\ hub' = Idle
           /\ \E again \in SUBSET Txs :
                 bcast' = [t \in Txs |-> IF bcast[t] = "idle" \/ t \in again
                                         THEN "idle" ELSE "done"]

(* WriteMessage fails when either end is closed.                           *)
Broken(c) == peer[c] = "gone" \/ ~Live(c)

(* The hub and the pinger are both inside WriteMessage of c.               *)
Collision(c) == ping[c] = "write" /\ hub.pc = "write" /\ hub.to = c

-----------------------------------------------------------------------------
(* handleConnections.                                                      *)

MuFree == hub.pc \notin {"range", "write"}

With(c, d) == [e \in Registered \union {c} |-> IF e = c THEN d ELSE clients[e]]
Without(c) == [e \in Registered \ {c} |-> clients[e]]

(* Between the upgrade and the lock the handler does nothing that others   *)
(* could see.                                                             *)
Register(c) == /\ conn[c] = "idle"
               /\ MuFree
               /\ clients' = With(c, Blank)
               /\ conn' = [conn EXCEPT ![c] = "read"]
               /\ ping' = [ping EXCEPT ![c] = "sleep"]
               /\ UNCHANGED <<req, asked, peer, hub, bcast, deaths>>

ReadMessage(c) == /\ conn[c] = "read"
                  /\ peer[c] # "gone"
                  /\ \E d \in Asks : /\ req' = [req EXCEPT ![c] = d]
                                     /\ asked' = [asked EXCEPT ![c] = @ \union {d}]
                  /\ conn' = [conn EXCEPT ![c] = "store"]
                  /\ UNCHANGED <<clients, ping, peer, hub, bcast, deaths>>

(* The read fails, the message is no JSON, or validateClientType refuses.  *)
ReadEnds(c) == /\ conn[c] = "read"
               /\ conn' = [conn EXCEPT ![c] = "leave"]
               /\ UNCHANGED <<clients, req, ping, asked, peer, hub, bcast, deaths>>

(* Mutant: ws.clients is written without ws.mu.                            *)
StoreUnlocked(c) == /\ conn[c] = "store"
                    /\ clients' = With(c, req[c])
                    /\ conn' = [conn EXCEPT ![c] = "read"]
                    /\ req' = [req EXCEPT ![c] = Blank]
                    /\ UNCHANGED <<ping, asked, peer, hub, bcast, deaths>>

(* The connection is registered again if a failed write has removed it.    *)
Store(c) == /\ conn[c] = "store"
            /\ MuFree
            /\ clients' = With(c, req[c])
            /\ conn' = [conn EXCEPT ![c] = "read"]
            /\ req' = [req EXCEPT ![c] = Blank]
            /\ UNCHANGED <<ping, asked, peer, hub, bcast, deaths>>

(* Mutant: the connection is closed and not removed.                       *)
LeaveKeeps(c) == /\ conn[c] = "leave"
                 /\ MuFree
                 /\ conn' = [conn EXCEPT ![c] = "ended"]
                 /\ asked' = [asked EXCEPT ![c] = {}]
                 /\ peer' = [peer EXCEPT ![c] = "gone"]
                 /\ UNCHANGED <<clients, req, ping, hub, bcast, deaths>>

(* The deferred function: delete under ws.mu, then Close.                  *)
Leave(c) == /\ conn[c] = "leave"
            /\ MuFree
            /\ clients' = Without(c)
            /\ conn' = [conn EXCEPT ![c] = "ended"]
            /\ asked' = [asked EXCEPT ![c] = {}]
            /\ peer' = [peer EXCEPT ![c] = "gone"]
            /\ UNCHANGED <<req, ping, hub, bcast, deaths>>

(* The pinger.  30 seconds are over; then WriteMessage returns.            *)
PingTick(c) == /\ ping[c] = "sleep"
               /\ ping' = [ping EXCEPT ![c] = "write"]
               /\ UNCHANGED <<clients, conn, req, asked, peer, hub, bcast, deaths>>

(* Mutant: a failed ping is logged and the loop goes on.                   *)
PingWriteGoesOn(c) == /\ ping[c] = "write"
                      /\ Broken(c) \/ peer[c] = "ok"
                      /\ ping' = [ping EXCEPT ![c] = "sleep"]
                      /\ UNCHANGED <<clients, conn, req, asked, peer, hub, bcast, deaths>>

(* Two writers at once are a data race on the connection, which gorilla    *)
(* sees, and panics, or not.                                               *)
PingWrite(c) == /\ ping[c] = "write"
                /\ \/ /\ Broken(c) \/ peer[c] = "ok"
                      /\ ping' = [ping EXCEPT ![c] = IF Broken(c) THEN "ended" ELSE "sleep"]
                      /\ UNCHANGED <<clients, conn, req, asked, peer, hub, bcast, deaths>>
                   \/ /\ Collision(c)
                      /\ Die

-----------------------------------------------------------------------------
(* The goroutine of ProcessTransaction that broadcasts, and handleMessages. *)

ProcessTransaction(t) == /\ bcast[t] = "idle"
                         /\ bcast' = [bcast EXCEPT ![t] = "swaps"]
                         /\ UNCHANGED <<clients, connVars, peer, hub, deaths>>

HubTakes(kind, t) == /\ hub.pc = "select"
                     /\ hub' = [Idle EXCEPT !.pc = "lock", !.round = Round(kind, t)]

(* Sent also when there is no swap.                                        *)
BroadcastSwaps(t) == /\ bcast[t] = "swaps"
                     /\ HubTakes("swaps", t)
                     /\ bcast' = [bcast EXCEPT ![t] = IF t \in Launches THEN "tokens" ELSE "done"]
                     /\ UNCHANGED <<clients, connVars, peer, deaths>>

BroadcastPumpFunTokens(t) == /\ bcast[t] = "tokens"
                             /\ HubTakes("tokens", t)
                             /\ bcast' = [bcast EXCEPT ![t] = "done"]
                             /\ UNCHANGED <<clients, connVars, peer, deaths>>

(* filterRelevantSwaps *)
Relevant(d, t) == Trades[t] \intersect d.wallets

Message(c, r) == [conn |-> c, wallets |-> IF r.kind = "swaps" THEN Relevant(clients[c], r.tx) ELSE {}]

Wants(d, r) == IF r.kind = "swaps" THEN d.type = "wallet" /\ Relevant(d, r.tx) # {}
                                   ELSE d.type = "pf-tokens"

(* ws.clients cannot change while ws.mu is held, so what is relevant to    *)
(* whom is settled when the hub gets it.                                   *)
HubLock == /\ hub.pc = "lock"
           /\ hub' = [hub EXCEPT !.pc = "range",
                                 !.todo = {c \in Registered : Wants(clients[c], hub.round)}]
           /\ UNCHANGED <<clients, connVars, peer, bcast, deaths>>

(* Maps are ranged over in any order.                                      *)
HubPick == /\ hub.pc = "range"
           /\ \E c \in hub.todo : hub' = [hub EXCEPT !.pc = "write", !.to = c, !.todo = @ \ {c}]
           /\ UNCHANGED <<clients, connVars, peer, bcast, deaths>>

(* After the write to c: it was sent a message, or a garbled one, or       *)
(* neither.                                                                *)
HubNext(sent, spoiled) ==
    hub' = [hub EXCEPT !.pc = "range", !.to = NoConn,
                       !.sent = @ \union sent, !.spoiled = @ \union spoiled]

Written(c) == /\ ~Broken(c) /\ peer[c] = "ok"
              /\ HubNext({Message(c, hub.round)}, {})
              /\ UNCHANGED <<clients, connVars, peer, bcast, deaths>>

(* The ping's bytes are in the buffer of the message.                      *)
Garbled(c) == /\ ~Broken(c) /\ peer[c] = "ok" /\ Collision(c)
              /\ HubNext({}, {c})
              /\ UNCHANGED <<clients, connVars, peer, bcast, deaths>>

(* Mutant: a failed write is tried again.                                  *)
WriteFailsRetries(c) == Broken(c) /\ UNCHANGED vars

WriteFails(c) == /\ Broken(c)
                 /\ HubNext({}, {})
                 /\ clients' = Without(c)
                 /\ UNCHANGED <<connVars, peer, bcast, deaths>>

HubWrite == /\ hub.pc = "write"
            /\ \/ Written(hub.to)
               \/ Garbled(hub.to)
               \/ WriteFails(hub.to)
               \/ Collision(hub.to) /\ Die

HubUnlock == /\ hub.pc = "range"
             /\ hub.todo = {}
             /\ hub' = Idle
             /\ UNCHANGED <<clients, connVars, peer, bcast, deaths>>

-----------------------------------------------------------------------------
Handler(c) == Store(c) \/ Leave(c)
Pinger(c)  == PingTick(c) \/ PingWrite(c)
Broadcaster(t) == BroadcastSwaps(t) \/ BroadcastPumpFunTokens(t)
HandleMessages == HubLock \/ HubPick \/ HubWrite \/ HubUnlock

Next == \/ \E c \in Conns : \/ Stall(c) \/ Resume(c) \/ Drop(c)
                            \/ Register(c) \/ ReadMessage(c) \/ ReadEnds(c)
                            \/ Handler(c) \/ Pinger(c)
        \/ \E t \in Txs : ProcessTransaction(t) \/ Broadcaster(t)
        \/ HandleMessages

Spec == Init /\ [][Next]_vars

(* The scheduler runs every goroutine that can go on, sleeps end, and a    *)
(* read of a connection that is gone returns.  Clients owe nothing.        *)
Fairness == /\ \A c \in Conns : /\ WF_vars(Handler(c))
                                /\ WF_vars(Pinger(c))
                                /\ WF_vars(ReadEnds(c) /\ peer[c] = "gone")
            /\ \A t \in Txs : WF_vars(Broadcaster(t))
            /\ WF_vars(HandleMessages)

FairSpec == Spec /\ Fairness

-----------------------------------------------------------------------------
(* Properties.                                                             *)

(* The hub never writes to a connection its handler has closed: Close      *)
(* comes after the delete under ws.mu, which the hub holds over a round.   *)
NeverWritesToClosed == hub.pc = "write" => Live(hub.to)

(* ws.clients holds what handleConnections serves: a handler that has      *)
(* returned left nothing behind, and a connection in service is missing    *)
(* only after a write to it failed, also when its handler has registered   *)
(* it again behind the hub's back.                                         *)
ClientsInService ==
    \A c \in Conns :
        /\ conn[c] \in {"idle", "ended"} => c \notin Registered
        /\ conn[c] \in {"read", "store"} /\ c \notin Registered => peer[c] = "gone"

(* The hub and handleConnections agree on which connections there are.     *)
ServiceAgrees == TypeOK /\ NeverWritesToClosed /\ ClientsInService

(* A round of broadcastRelevantSwaps or broadcastPFTokensToClients covers  *)
(* everyone: whoever is registered for it now was or will be written to,   *)
(* with what the registration says now.                                    *)
RoundCoversAll ==
    hub.pc \in {"range", "write"} =>
        \A c \in Registered :
            Wants(clients[c], hub.round) =>
                \/ c \in hub.todo \union {hub.to}
                \/ Message(c, hub.round) \in hub.sent
                \/ c \in hub.spoiled

(* A connection is sent only what one of its own messages asked for,       *)
(* whatever is registered, removed and registered again between rounds.    *)
OnlyWhatWasAsked ==
    \A m \in hub.sent :
        \E d \in asked[m.conn] :
            IF hub.round.kind = "swaps" THEN d.type = "wallet" /\ m.wallets \subseteq d.wallets
                                        ELSE d.type = "pf-tokens"

(* A round of the hub sends everyone what they asked for, and no more.     *)
RoundsExact == RoundCoversAll /\ OnlyWhatWasAsked

(* Every peer reads in the end, or its connection fails.                   *)
NoLastingStall == <>[](\A c \in Conns : peer[c] # "stalled")

(* WriteMessage under ws.mu holds up everyone, but only as long as a peer  *)
(* does not read: then every broadcast of ProcessTransaction is taken by   *)
(* the hub, and every handler that wants to leave gets ws.mu.              *)
OnlyStallsBlock ==
    NoLastingStall =>
        /\ \A t \in Txs : bcast[t] \in {"swaps", "tokens"} ~> bcast[t] \in {"idle", "done"}
        /\ \A c \in Conns : conn[c] = "leave" ~> conn[c] # "leave"

(* A connection whose peer is gone is forgotten altogether: its handler    *)
(* and its pinger end, also when the pinger was blocked in a write, and    *)
(* nothing puts it back into ws.clients.                                   *)
GoneAreForgotten ==
    NoLastingStall =>
        \A c \in Conns :
            peer[c] = "gone" ~> [](conn[c] = "ended" /\ ping[c] = "ended" /\ c \notin Registered)

=============================================================================
