---------------------------- MODULE WebSocketHub ----------------------------
(***************************************************************************)
(* internal/websocket: the hub goroutine, one reader and one writer        *)
(* goroutine per connection, and the event handlers that send messages.    *)
(* The hub goroutine alone changes the set of clients, under the write     *)
(* lock; SendToUser runs in its caller's goroutine under the read lock,    *)
(* which it releases once between looking the user up and sending.         *)
(***************************************************************************)
EXTENDS Integers, Sequences, FiniteSets

CONSTANTS
    Conn,          \* WebSocket connections; each gets an id of its own
    User,          \* authenticated users
    Nobody,        \* no user, the empty string
    Env,           \* "dev" or "prod"
    HasVerifier,   \* has the handler a token verifier?
    AllowedOrigins,
    Handshake,     \* per connection: [origin, user_id, header, query, cookie]
    NoToken,
    Forged,        \* any other token is named by the user the verifier finds in it
    Refused,
    Message,       \* events; a handler forwards each of them once
    Event,         \* per message: [name, payload], a map of the fields that are texts
    SendCap,       \* capacity of a client's send channel
    BroadcastCap   \* capacity of the hub's broadcast channel

ASSUME UserAssumption ==
    /\ Nobody \notin User /\ {Refused, NoToken, Forged} \intersect (User \union {Nobody}) = {}
    /\ \A c \in Conn :
          /\ Handshake[c].user_id \in User \union {Nobody}
          /\ {Handshake[c].header, Handshake[c].query, Handshake[c].cookie}
                \subseteq User \union {NoToken, Forged}
    /\ \A m \in Message, f \in {"user_id", "userId", "UserID"} :
          f \in DOMAIN Event[m].payload => Event[m].payload[f] \in User \union {Nobody}
ASSUME CapAssumption == SendCap \in Nat /\ BroadcastCap \in Nat

VARIABLES
    cancelled,    \* was hub.Stop called?
    running,      \* is the hub goroutine in its loop?
    clients,      \* hub.clients
    maps,         \* the inner maps of hub.userClients allocated so far
    userClients,  \* which of them is the user's, 0 if there is none
    broadcast,    \* the hub's broadcast channel
    send,         \* the clients' send channels
    closed,       \* the clients whose send channel is closed
    socket,       \* the network connection
    reader,       \* ServeHTTP's goroutine up to registration, then ReadPump
    writer,       \* WritePump
    sender,       \* the goroutine that sends a message
    held,         \* the inner map SendToUser holds, 0 if none
    todo,         \* connections its loop has still to visit
    due,          \* history: connections SendToUser owes the message
    tried         \* history: connections it visited

-----------------------------------------------------------------------------
(* Who is at the other end of a connection, and whom a message is for.     *)

\* createOriginChecker: "*" allows everything, a missing origin included.
OriginAllowed(origin) ==
    IF AllowedOrigins = {} THEN Env = "dev" ELSE {origin, "*"} \intersect AllowedOrigins # {}

\* The first token there is, be it good or bad.
ExtractToken(h) ==
    IF h.header # NoToken THEN h.header
    ELSE IF h.query # NoToken THEN h.query ELSE h.cookie

AuthenticateRequest(h) ==
    LET token == ExtractToken(h)
    IN  IF Env = "dev" /\ h.user_id # Nobody THEN h.user_id
        ELSE IF HasVerifier THEN IF token \in {NoToken, Forged} THEN Refused ELSE token
        ELSE IF Env = "dev" THEN Nobody ELSE Refused

\* The user of a connection.
UserOf == [c \in Conn |-> AuthenticateRequest(Handshake[c])]

Admitted(c) == UserOf[c] # Refused /\ OriginAllowed(Handshake[c].origin)

\* The events the subscriber forwards: the bus knows no patterns.
Subscribed ==
    {"user.created", "order.created", "payment.created", "user.updated", "order.updated",
     "payment.updated", "user.deleted", "order.deleted", "notification.sent", "notification.read",
     "alert.created", "alert.resolved"}

\* extractUserID: the first of three spellings the payload has, an empty one included.
ExtractUserID(payload) ==
    IF "user_id" \in DOMAIN payload THEN payload["user_id"]
    ELSE IF "userId" \in DOMAIN payload THEN payload["userId"]
    ELSE IF "UserID" \in DOMAIN payload THEN payload["UserID"] ELSE Nobody

\* The user a message is for; nobody's is for everybody.
Target == [m \in Message |-> ExtractUserID(Event[m].payload)]

-----------------------------------------------------------------------------

hubVars == <<cancelled, running, clients, maps, userClients>>
connVars == <<socket, reader, writer>>
senderVars == <<sender, held, todo, tried>>
allVars == <<hubVars, broadcast, send, closed, connVars, senderVars, due>>

HubTypeOK ==
    /\ cancelled \in BOOLEAN /\ running \in BOOLEAN
    /\ clients \in SUBSET Conn
    /\ maps \in Seq(SUBSET Conn)
    /\ userClients \in [User -> 0..Len(maps)]
    /\ broadcast \in Seq(Message) /\ Len(broadcast) <= BroadcastCap
    /\ send \in [Conn -> Seq(Message)]
    /\ \A c \in Conn : Len(send[c]) <= SendCap
    /\ closed \in SUBSET Conn
    /\ socket \in [Conn -> {"none", "open", "closed"}]
    /\ reader \in [Conn -> {"none", "registering", "reading", "unregistering", "exited"}]
    /\ writer \in [Conn -> {"off", "writing", "exited"}]
    /\ sender \in [Message -> {"idle", "calling", "lookedUp", "sending", "done"}]
    /\ held \in [Message -> 0..Len(maps)]
    /\ todo \in [Message -> SUBSET Conn]
    /\ due \in [Message -> SUBSET Conn]
    /\ tried \in [Message -> SUBSET Conn]

HubInit ==
    /\ cancelled = FALSE /\ running = TRUE
    /\ clients = {}
    /\ maps = <<>>
    /\ userClients = [u \in User |-> 0]
    /\ broadcast = <<>>
    /\ send = [c \in Conn |-> <<>>]
    /\ closed = {}
    /\ socket = [c \in Conn |-> "none"]
    /\ reader = [c \in Conn |-> "none"]
    /\ writer = [c \in Conn |-> "off"]
    /\ sender = [m \in Message |-> "idle"]
    /\ held = [m \in Message |-> 0]
    /\ todo = [m \in Message |-> {}]
    /\ due = [m \in Message |-> {}]
    /\ tried = [m \in Message |-> {}]

\* The write lock is free for the hub: no SendToUser holds the read lock.
Lock == \A m \in Message : sender[m] # "sending"

-----------------------------------------------------------------------------
(* The hub goroutine.                                                      *)

\* ServeHTTP hands the client over and starts its two pumps.
Register(c) ==
    /\ running /\ Lock
    /\ reader[c] = "registering"
    /\ clients' = clients \union {c}
    /\ LET u == UserOf[c]
       IN  IF u = Nobody THEN UNCHANGED <<maps, userClients>>
           ELSE IF userClients[u] = 0
           THEN /\ maps' = Append(maps, {c})
                /\ userClients' = [userClients EXCEPT ![u] = Len(maps) + 1]
           ELSE /\ maps' = [maps EXCEPT ![userClients[u]] = @ \union {c}]
                /\ UNCHANGED userClients
    /\ reader' = [reader EXCEPT ![c] = "reading"]
    /\ writer' = [writer EXCEPT ![c] = "writing"]
    /\ UNCHANGED <<cancelled, running, broadcast, send, closed, socket,
                   senderVars, due>>

\* Mutant: the user's entry is deleted with the first of the connections.
RemoveFromIndex_DropsUser(c) ==
    LET u == UserOf[c]
    IN  IF u = Nobody \/ userClients[u] = 0
        THEN UNCHANGED <<maps, userClients>>
        ELSE /\ maps' = [maps EXCEPT ![userClients[u]] = @ \ {c}]
             /\ userClients' = [userClients EXCEPT ![u] = 0]

\* The user's inner map is changed in place, and dropped when it is empty.
RemoveFromIndex(c) ==
    LET u == UserOf[c]
    IN  IF u = Nobody \/ userClients[u] = 0
        THEN UNCHANGED <<maps, userClients>>
        ELSE /\ maps' = [maps EXCEPT ![userClients[u]] = @ \ {c}]
             /\ userClients' = [userClients EXCEPT
                   ![u] = IF maps[@] \subseteq {c} THEN 0 ELSE @]

\* Mutant: the channel is closed, but the client stays registered.
Unregister_StaysClient(c) ==
    /\ running /\ Lock
    /\ reader[c] = "unregistering"
    /\ UNCHANGED clients
    /\ closed' = IF c \in clients THEN closed \union {c} ELSE closed
    /\ RemoveFromIndex(c)
    /\ reader' = [reader EXCEPT ![c] = "exited"]
    /\ socket' = [socket EXCEPT ![c] = "closed"]
    /\ due' = [m \in Message |-> due[m] \ {c}]
    /\ UNCHANGED <<cancelled, running, broadcast, send, writer, senderVars>>

\* The deferred send of ReadPump is received; ReadPump then closes the socket.
Unregister(c) ==
    /\ running /\ Lock
    /\ reader[c] = "unregistering"
    /\ clients' = clients \ {c}
    /\ closed' = IF c \in clients THEN closed \union {c} ELSE closed
    /\ RemoveFromIndex(c)
    /\ reader' = [reader EXCEPT ![c] = "exited"]
    /\ socket' = [socket EXCEPT ![c] = "closed"]
    /\ due' = [m \in Message |-> due[m] \ {c}]
    /\ UNCHANGED <<cancelled, running, broadcast, send, writer, senderVars>>

HasRoom(c) == Len(send[c]) < SendCap

\* broadcastMessage: a client whose buffer is full misses the message.
BroadcastMessage ==
    /\ running /\ broadcast # <<>>
    /\ send' = [c \in Conn |-> IF c \in clients /\ HasRoom(c)
                               THEN Append(send[c], Head(broadcast)) ELSE send[c]]
    /\ broadcast' = Tail(broadcast)
    /\ UNCHANGED <<hubVars, closed, connVars, senderVars, due>>

Stop ==
    /\ ~cancelled
    /\ cancelled' = TRUE
    /\ UNCHANGED <<running, clients, maps, userClients, broadcast, send, closed,
                   connVars, senderVars, due>>

\* The select picks ctx.Done, sooner or later: other ready cases may go first.
Shutdown ==
    /\ cancelled /\ running /\ Lock
    /\ running' = FALSE
    /\ closed' = closed \union clients
    /\ clients' = {}
    /\ userClients' = [u \in User |-> 0]
    /\ due' = [m \in Message |-> {}]
    /\ UNCHANGED <<cancelled, maps, broadcast, send, connVars, senderVars>>

-----------------------------------------------------------------------------
(* The goroutines of a connection.                                         *)

\* ServeHTTP after authentication and upgrade; the HTTP server accepts also
\* after the hub was stopped.
ServeHTTP(c) ==
    /\ reader[c] = "none" /\ Admitted(c)
    /\ reader' = [reader EXCEPT ![c] = "registering"]
    /\ socket' = [socket EXCEPT ![c] = "open"]
    /\ UNCHANGED <<hubVars, broadcast, send, closed, writer, senderVars, due>>

\* The peer goes away, the network fails, or a deadline passes.
Disconnect(c) ==
    /\ socket[c] = "open"
    /\ reader[c] # "registering"
    /\ socket' = [socket EXCEPT ![c] = "closed"]
    /\ UNCHANGED <<hubVars, broadcast, send, closed, reader, writer,
                   senderVars, due>>

\* ReadMessage returns an error and the loop breaks.
ReadFails(c) ==
    /\ reader[c] = "reading"
    /\ socket[c] = "closed"
    /\ reader' = [reader EXCEPT ![c] = "unregistering"]
    /\ UNCHANGED <<hubVars, broadcast, send, closed, socket, writer,
                   senderVars, due>>

WriteMessage(c) ==
    /\ writer[c] = "writing"
    /\ socket[c] = "open"
    /\ send[c] # <<>>
    /\ send' = [send EXCEPT ![c] = Tail(@)]
    /\ UNCHANGED <<hubVars, broadcast, closed, socket, reader, writer, senderVars, due>>

\* A write, or the periodic ping, fails.
WriteFails(c) ==
    /\ writer[c] = "writing"
    /\ socket[c] = "closed"
    /\ writer' = [writer EXCEPT ![c] = "exited"]
    /\ \/ UNCHANGED send
       \/ send[c] # <<>> /\ send' = [send EXCEPT ![c] = Tail(@)]
    /\ UNCHANGED <<hubVars, broadcast, closed, socket, reader, senderVars, due>>

\* The channel is closed and drained: a close frame is sent and the socket
\* closed.
WriterStops(c) ==
    /\ writer[c] = "writing"
    /\ c \in closed /\ send[c] = <<>>
    /\ writer' = [writer EXCEPT ![c] = "exited"]
    /\ socket' = [socket EXCEPT ![c] = "closed"]
    /\ UNCHANGED <<hubVars, broadcast, send, closed, reader, senderVars, due>>

-----------------------------------------------------------------------------
(* The event handlers that send: Broadcast and SendToUser.                 *)

HandleEvent(m) ==
    /\ sender[m] = "idle" /\ Event[m].name \in Subscribed
    /\ sender' = [sender EXCEPT ![m] = "calling"]
    /\ UNCHANGED <<hubVars, broadcast, send, closed, connVars, held, todo, tried, due>>

\* The channel has a free place; Broadcast takes it also after Stop.
Broadcast(m) ==
    /\ sender[m] = "calling" /\ Target[m] = Nobody
    /\ Len(broadcast) < BroadcastCap
    /\ broadcast' = Append(broadcast, m)
    /\ sender' = [sender EXCEPT ![m] = "done"]
    /\ UNCHANGED <<hubVars, send, closed, connVars, held, todo, tried, due>>

\* Mutant: Broadcast waits for room even when the hub is gone.
BroadcastGivesUp_Never(m) == FALSE /\ UNCHANGED allVars

BroadcastGivesUp(m) ==
    /\ sender[m] = "calling" /\ Target[m] = Nobody
    /\ cancelled
    /\ sender' = [sender EXCEPT ![m] = "done"]
    /\ UNCHANGED <<hubVars, broadcast, send, closed, connVars, held, todo, tried, due>>

\* The first critical section of SendToUser.
LookUp(m) ==
    /\ sender[m] = "calling" /\ Target[m] # Nobody
    /\ held' = [held EXCEPT ![m] = userClients[Target[m]]]
    /\ sender' = [sender EXCEPT ![m] = IF held'[m] = 0 THEN "done" ELSE "lookedUp"]
    /\ due' = [due EXCEPT ![m] = {c \in clients : UserOf[c] = Target[m]}]
    /\ UNCHANGED <<hubVars, broadcast, send, closed, connVars, todo, tried>>

\* The second one ranges over the map found by the first, whatever it holds
\* by now.
BeginSend(m) ==
    /\ sender[m] = "lookedUp"
    /\ todo' = [todo EXCEPT ![m] = maps[held[m]]]
    /\ sender' = [sender EXCEPT ![m] = IF todo'[m] = {} THEN "done" ELSE "sending"]
    /\ UNCHANGED <<hubVars, broadcast, send, closed, connVars, held, tried, due>>

\* Mutant: the send waits for room instead of taking the default case.
SendTo_Blocks(m, c) ==
    /\ sender[m] = "sending"
    /\ c \in todo[m]
    /\ c \in clients => HasRoom(c)
    /\ send' = IF c \in clients THEN [send EXCEPT ![c] = Append(@, m)] ELSE send
    /\ todo' = [todo EXCEPT ![m] = @ \ {c}]
    /\ tried' = [tried EXCEPT ![m] = @ \union {c}]
    /\ sender' = [sender EXCEPT ![m] = IF todo'[m] = {} THEN "done" ELSE @]
    /\ UNCHANGED <<hubVars, broadcast, closed, connVars, held, due>>

SendTo(m, c) ==
    /\ sender[m] = "sending"
    /\ c \in todo[m]
    /\ send' = IF c \in clients /\ HasRoom(c)
               THEN [send EXCEPT ![c] = Append(@, m)] ELSE send
    /\ todo' = [todo EXCEPT ![m] = @ \ {c}]
    /\ tried' = [tried EXCEPT ![m] = @ \union {c}]
    /\ sender' = [sender EXCEPT ![m] = IF todo'[m] = {} THEN "done" ELSE @]
    /\ UNCHANGED <<hubVars, broadcast, closed, connVars, held, due>>

-----------------------------------------------------------------------------

Run ==
    \/ \E c \in Conn : Register(c) \/ Unregister(c)
    \/ BroadcastMessage
    \/ Shutdown

WritePump(c) == WriteMessage(c) \/ WriteFails(c) \/ WriterStops(c)

Send(m) ==
    \/ Broadcast(m) \/ BroadcastGivesUp(m)
    \/ LookUp(m) \/ BeginSend(m) \/ \E c \in Conn : SendTo(m, c)

HubNext ==
    \/ Run
    \/ Stop
    \/ \E c \in Conn : ServeHTTP(c) \/ Disconnect(c) \/ ReadFails(c) \/ WritePump(c)
    \/ \E m \in Message : HandleEvent(m) \/ Send(m)

\* The goroutines that can run run, and the random select of the hub takes
\* every case that stays ready.  Nobody has to connect, send, stop or go away.
HubFairness ==
    /\ WF_allVars(BroadcastMessage) /\ WF_allVars(Shutdown)
    /\ \A c \in Conn :
          /\ WF_allVars(Register(c)) /\ WF_allVars(Unregister(c))
          /\ WF_allVars(ReadFails(c)) /\ WF_allVars(WritePump(c))
    /\ \A m \in Message : WF_allVars(Send(m))

HubSpec == HubInit /\ [][HubNext]_allVars
FairHubSpec == HubSpec /\ HubFairness

-----------------------------------------------------------------------------
(* Properties.                                                             *)

\* Nobody sends on a closed channel, which would panic, and no channel is
\* closed twice: the channel of a registered client is open, whichever of
\* Unregister and Shutdown runs, and senders look clients up again.
NoSendOnClosed == clients \cap closed = {}

\* hub.userClients is the index of hub.clients: a user's inner map holds exactly
\* the user's registered connections, and it is there only if there are some.
IndexAgrees ==
    \A u \in User :
        LET own == {c \in clients : UserOf[c] = u}
        IN  IF own = {} THEN userClients[u] = 0
            ELSE userClients[u] # 0 /\ maps[userClients[u]] = own

\* Between its two critical sections SendToUser holds a map that the hub
\* changes.  Still, every connection of the user that was registered at the
\* start and stayed registered is visited, and nobody else's connection is.
SendToUserIsExact ==
    \A m \in Message : Target[m] # Nobody /\ sender[m] = "done" =>
        /\ due[m] \subseteq tried[m]
        /\ \A c \in tried[m] : UserOf[c] = Target[m]

\* Messages to a user reach that user: see IndexAgrees and SendToUserIsExact.
TargetingIsExact == IndexAgrees /\ SendToUserIsExact

\* A broken connection does not stay registered, and Stop closes those that are:
\* no full buffer and no lock that a sender holds keeps the hub from either.
ConnectionsAreReleased ==
    \A c \in Conn :
        /\ c \in clients /\ socket[c] = "closed" ~> c \notin clients
        /\ c \in clients /\ cancelled ~> socket[c] = "closed"

\* Whoever called Broadcast or SendToUser returns, also when the hub is gone.
SendersReturn ==
    \A m \in Message : sender[m] = "calling" ~> sender[m] = "done"

\* After Stop every connection is closed in the end.
StopClosesAll ==
    \A c \in Conn : cancelled /\ socket[c] = "open" ~> socket[c] = "closed"
=============================================================================
