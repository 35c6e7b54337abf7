----------------------------- MODULE HTTPProofs -----------------------------
(***************************************************************************)
(* Proofs about the two things an HTTP request can become.  RequestPath,   *)
(* with the CacheAside it extends, for any number of requests, keys and    *)
(* writes, with and without expiry: a response has one author, and what an *)
(* invalidation removed does not come back.  WebSocketHub, for any number  *)
(* of connections, users and messages and all capacities: nothing is sent  *)
(* on a closed channel, and a message to a user visits exactly the         *)
(* connections that stay.                                                  *)
(***************************************************************************)
EXTENDS RequestPath, WebSocketHub, SequenceTheorems, TLAPS

-----------------------------------------------------------------------------
(* The goroutines of a request and their response.                         *)

PathTyped ==
    /\ deployed \in Deployment
    /\ tokens \in 0..Burst
    /\ server \in [Request -> {"idle", "waiting", "late", "answered"}]
    /\ handler \in [Request -> {"none", "limit", "first", "local", "handle", "call", "reply", "header", "end"}]
    /\ ended \in [Request -> BOOLEAN]
    /\ wrote \in [Request -> BOOLEAN]
    /\ header \in [Request -> {"none", "handler", "timeout"}]
    /\ body \in [Request -> SUBSET {"handler", "timeout"}]
    /\ raced \in [Request -> BOOLEAN]

\* The handler has not begun to reply.
Before(r) == handler[r] \in {"limit", "first", "local", "handle", "call", "reply"}
Blank(r) == header[r] = "none" /\ body[r] = {}

\* What the response is at each pair of places of the two goroutines.
Authorship(r) ==
    /\ server[r] = "idle" => handler[r] = "none" /\ Blank(r) /\ ~wrote[r]
    /\ server[r] = "waiting" =>
          /\ Before(r) => Blank(r) /\ ~wrote[r]
          /\ handler[r] = "header" => Blank(r) /\ wrote[r]
          /\ handler[r] \in {"end", "none"} =>
                wrote[r] /\ header[r] = "handler" /\ body[r] = {"handler"}
    /\ server[r] = "late" /\ ~raced[r] => Before(r) /\ Blank(r) /\ ~wrote[r]
    /\ server[r] = "answered" /\ ~raced[r] => header[r] # "none" /\ body[r] = {header[r]}

PathInv == PathTyped /\ \A r \in Request : Authorship(r)

\* The variables of the response.
replyVars == <<server, wrote, header, body, raced>>

\* A step of a handler before its reply: everything else stays.
LEMMA HandlerMoves ==
    ASSUME PathInv, NEW q \in Request, UNCHANGED <<deployed, ended, replyVars>>,
           tokens' \in 0..Burst, Before(q),
           NEW place \in {"first", "local", "handle", "call", "reply"},
           handler' = [handler EXCEPT ![q] = place]
    PROVE  PathInv'
<1>1. PathTyped'
  BY DEF PathInv, PathTyped, replyVars
<1>2. ASSUME NEW r \in Request PROVE Authorship(r)'
  <2>1. Authorship(r)
    BY DEF PathInv
  <2>2. CASE r = q
    <3>1. handler'[r] = place
      BY <2>2 DEF PathInv, PathTyped
    <3> QED BY <2>1, <2>2, <3>1 DEF Authorship, Before, Blank, replyVars
  <2>3. CASE r # q
    <3>1. handler'[r] = handler[r]
      BY <2>3 DEF PathInv, PathTyped
    <3> QED BY <2>1, <3>1 DEF Authorship, Before, Blank, replyVars
  <2> QED BY <2>2, <2>3
<1> QED BY <1>1, <1>2 DEF PathInv

\* A step that concerns one request leaves the responses of others alone.
LEMMA OthersKeep ==
    ASSUME PathInv, NEW q \in Request, NEW r \in Request, r # q,
           server'[r] = server[r], handler'[r] = handler[r], wrote'[r] = wrote[r],
           header'[r] = header[r], body'[r] = body[r], raced'[r] = raced[r]
    PROVE  Authorship(r)'
<1>1. Authorship(r)
  BY DEF PathInv
<1> QED BY <1>1 DEF Authorship, Before, Blank

LEMMA PathStep == ASSUME PathInv, [Next]_vars PROVE PathInv'
<1>0. PathTyped /\ Burst \in Nat \ {0}
  BY BurstAssumption DEF PathInv
<1>1. ASSUME NEW q \in Request, Arrive(q) PROVE PathInv'
  <2>1. PathTyped'
    BY <1>0, <1>1 DEF Arrive, PathTyped
  <2>2. Authorship(q)'
    BY <1>0, <1>1 DEF Arrive, PathInv, PathTyped, Authorship, Before, Blank
  <2>3. ASSUME NEW r \in Request, r # q PROVE Authorship(r)'
    BY <1>0, <1>1, <2>3, OthersKeep DEF Arrive, PathTyped
  <2> QED BY <2>1, <2>2, <2>3 DEF PathInv
<1>2. ASSUME NEW q \in Request, EndContext(q) PROVE PathInv'
  BY <1>0, <1>2 DEF EndContext, PathInv, PathTyped, Authorship, Before, Blank
<1>3. ASSUME NEW q \in Request, TimeUp(q) PROVE PathInv'
  <2>1. PathTyped'
    BY <1>0, <1>3 DEF TimeUp, PathTyped
  <2>2. Authorship(q)'
    BY <1>0, <1>3 DEF TimeUp, PathInv, PathTyped, Authorship, Before, Blank
  <2>3. ASSUME NEW r \in Request, r # q PROVE Authorship(r)'
    BY <1>0, <1>3, <2>3, OthersKeep DEF TimeUp, PathTyped
  <2> QED BY <2>1, <2>2, <2>3 DEF PathInv
<1>4. ASSUME NEW q \in Request, WriteTimeout(q) PROVE PathInv'
  <2>1. PathTyped'
    BY <1>0, <1>4 DEF WriteTimeout, FirstHeader, PathTyped
  <2>2. Authorship(q)'
    BY <1>0, <1>4 DEF WriteTimeout, FirstHeader, PathInv, PathTyped, Authorship, Before, Blank
  <2>3. ASSUME NEW r \in Request, r # q PROVE Authorship(r)'
    BY <1>0, <1>4, <2>3, OthersKeep DEF WriteTimeout, FirstHeader, PathTyped
  <2> QED BY <2>1, <2>2, <2>3 DEF PathInv
<1>5. ASSUME NEW q \in Request, Completed(q) PROVE PathInv'
  <2>1. PathTyped'
    BY <1>0, <1>5 DEF Completed, PathTyped
  <2>2. Authorship(q)'
    BY <1>0, <1>5 DEF Completed, PathInv, PathTyped, Authorship, Before, Blank
  <2>3. ASSUME NEW r \in Request, r # q PROVE Authorship(r)'
    BY <1>0, <1>5, <2>3, OthersKeep DEF Completed, PathTyped
  <2> QED BY <2>1, <2>2, <2>3 DEF PathInv
<1>6. ASSUME NEW q \in Request, Leave(q) PROVE PathInv'
  <2>1. PathTyped'
    BY <1>0, <1>6 DEF Leave, PathTyped
  <2>2. Authorship(q)'
    BY <1>0, <1>6 DEF Leave, PathInv, PathTyped, Authorship, Before, Blank
  <2>3. ASSUME NEW r \in Request, r # q PROVE Authorship(r)'
    BY <1>0, <1>6, <2>3, OthersKeep DEF Leave, PathTyped
  <2> QED BY <2>1, <2>2, <2>3 DEF PathInv
<1>7. ASSUME NEW q \in Request,
             Count(q) \/ ExpireCounter(q) \/ Allow(q) \/ Handle(q) \/ Return(q)
      PROVE  PathInv'
  <2>1. Before(q) /\ tokens' \in 0..Burst /\ UNCHANGED <<deployed, ended, replyVars>>
    <3>1. CASE Count(q) \/ ExpireCounter(q)
      BY <1>0, <3>1 DEF PathTyped, Count, ExpireCounter, GoesTo, Before, replyVars
    <3>2. CASE Allow(q)
      BY <1>0, <3>2 DEF PathTyped, Allow, GoesTo, Before, replyVars
    <3>3. CASE Handle(q) \/ Return(q)
      BY <1>0, <3>3 DEF PathTyped, Handle, Return, GoesTo, Before, replyVars
    <3> QED BY <1>7, <3>1, <3>2, <3>3
  <2>2. \E place \in {"first", "local", "handle", "call", "reply"} :
           handler' = [handler EXCEPT ![q] = place]
    BY <1>7 DEF Count, ExpireCounter, Allow, Handle, Return, GoesTo
  <2> QED BY <2>1, <2>2, HandlerMoves
<1>8. ASSUME NEW q \in Request, BeginReply(q) PROVE PathInv'
  <2>1. PathTyped'
    BY <1>0, <1>8 DEF BeginReply, PathTyped
  <2>2. Authorship(q)'
    BY <1>0, <1>8 DEF BeginReply, PathInv, PathTyped, Authorship, Before, Blank
  <2>3. ASSUME NEW r \in Request, r # q PROVE Authorship(r)'
    BY <1>0, <1>8, <2>3, OthersKeep DEF BeginReply, PathTyped
  <2> QED BY <2>1, <2>2, <2>3 DEF PathInv
<1>9. ASSUME NEW q \in Request, Reply(q) PROVE PathInv'
  <2>1. PathTyped'
    BY <1>0, <1>9 DEF Reply, FirstHeader, PathTyped
  <2>2. Authorship(q)'
    BY <1>0, <1>9 DEF Reply, FirstHeader, PathInv, PathTyped, Authorship, Before, Blank
  <2>3. ASSUME NEW r \in Request, r # q PROVE Authorship(r)'
    BY <1>0, <1>9, <2>3, OthersKeep DEF Reply, FirstHeader, PathTyped
  <2> QED BY <2>1, <2>2, <2>3 DEF PathInv
<1>10. ASSUME NEW q \in Request, HandlerEnds(q) PROVE PathInv'
  <2>1. PathTyped'
    BY <1>0, <1>10 DEF HandlerEnds, GoesTo, PathTyped
  <2>2. Authorship(q)'
    BY <1>0, <1>10 DEF HandlerEnds, GoesTo, PathInv, PathTyped, Authorship, Before, Blank
  <2>3. ASSUME NEW r \in Request, r # q PROVE Authorship(r)'
    BY <1>0, <1>10, <2>3, OthersKeep DEF HandlerEnds, GoesTo, PathTyped
  <2> QED BY <2>1, <2>2, <2>3 DEF PathInv
<1>11. ASSUME NEW q \in Request, HandlerPanics(q) PROVE PathInv'
  BY <1>0, <1>11 DEF HandlerPanics, PathInv, PathTyped, Authorship, Before, Blank
<1>12. CASE Refill
  BY <1>0, <1>12 DEF Refill, PathInv, PathTyped, Authorship, Before, Blank
<1>13. CASE UNCHANGED pathVars
  BY <1>0, <1>13 DEF pathVars, PathInv, PathTyped, Authorship, Before, Blank
<1>14. Lead \/ (\E q \in Request : ReadStep(q)) \/ (UNCHANGED vars) => UNCHANGED pathVars
  BY DEF Lead, ReadStep, vars, pathVars
<1> QED BY <1>1, <1>2, <1>3, <1>4, <1>5, <1>6, <1>7, <1>8, <1>9, <1>10, <1>11, <1>12, <1>13, <1>14
        DEF Next, Timeout, Handler

-----------------------------------------------------------------------------
(* The cache.                                                              *)

Flight == [phase : {"none", "load", "loaded", "stored", "failed"},
           leader : Request \union {"none"}, value : Nat, overtaken : BOOLEAN]
Read == [place : {"idle", "get", "do", "wait", "lead", "value", "error", "wrote"},
         value : Nat, overtaken : BOOLEAN]

CacheTyped ==
    /\ version \in 0..MaxWrites
    /\ items \in [Key -> Item \union {Missing}]
    /\ flight \in Flight
    /\ read \in [Request -> Read]
    /\ deliveries \subseteq 1..MaxWrites
    /\ invalidated \in 0..MaxWrites
    /\ since \in [Request -> 0..MaxWrites]

\* What was published or invalidated had been written.
Written ==
    /\ invalidated <= version
    /\ deliveries \subseteq 1..version
    /\ \A r \in Request : read[r].place = "wrote" => read[r].value \in 1..version
    /\ \A r \in Request : since[r] <= invalidated

\* What the leader of the flight has read is as new as the last invalidation, or
\* known to be overtaken by it.
FlightHolds ==
    flight.phase \in {"loaded", "stored"} => flight.value >= invalidated \/ flight.overtaken

CacheInv == CacheTyped /\ Written /\ FlightHolds /\ InvalidationHolds

\* The steps that only touch the items keep the value of each item that lives on.
LEMMA ItemsKept ==
    ASSUME CacheInv, UNCHANGED <<version, flight, read, deliveries, invalidated, since>>,
           items' \in [Key -> Item \union {Missing}],
           Live(Data)' => /\ Live(Data)
                          /\ items'[Data].value = items[Data].value
                          /\ items'[Data].overtaken = items[Data].overtaken
    PROVE  CacheInv'
<1>1. CacheTyped'
  BY DEF CacheInv, CacheTyped
<1>2. Written' /\ FlightHolds'
  BY DEF CacheInv, Written, FlightHolds
<1>3. InvalidationHolds'
  BY DEF CacheInv, InvalidationHolds
<1> QED BY <1>1, <1>2, <1>3 DEF CacheInv

\* A counter is another key's item.
LEMMA CounterKept ==
    ASSUME CacheInv, UNCHANGED <<version, flight, read, deliveries, invalidated, since>>,
           NEW cap \in Nat, items' = Increment(Counter, cap) \/ items' = Expire(Counter)
    PROVE  CacheInv'
<1>1. items'[Data] = items[Data]
  BY CounterAssumption, DataAssumption DEF CacheInv, CacheTyped, Increment, Expire, Expiring
<1>2. items' \in [Key -> Item \union {Missing}]
  <2>1. items \in [Key -> Item \union {Missing}]
    BY DEF CacheInv, CacheTyped
  <2>2. CASE ~Live(Counter)
    <3>1. [value |-> 1, expiry |-> "never", overtaken |-> FALSE] \in Item
      BY DEF Item
    <3>2. items' = items \/
          items' = [items EXCEPT ![Counter] = [value |-> 1, expiry |-> "never", overtaken |-> FALSE]]
      BY <2>2 DEF Increment, Expire
    <3> QED BY <2>1, <3>1, <3>2
  <2>3. CASE Live(Counter)
    <3>1. items[Counter] \in Item
      BY <2>1, <2>3, CounterAssumption DEF Live
    <3>2. CASE items' = Increment(Counter, cap)
      BY <2>1, <2>3, <3>1, <3>2, CounterAssumption DEF Increment, Item
    <3>3. CASE items' = Expire(Counter)
      BY <2>1, <2>3, <3>1, <3>3, CounterAssumption DEF Expire, Expiring, Item
    <3> QED BY <3>2, <3>3
  <2> QED BY <2>2, <2>3
<1> QED BY <1>1, <1>2, ItemsKept DEF Live

LEMMA CacheStep == ASSUME CacheInv, [Next]_vars PROVE CacheInv'
<1>0. CacheTyped /\ Written /\ FlightHolds /\ InvalidationHolds /\ MaxWrites \in Nat /\ Data \in Key
  BY BoundAssumption, DataAssumption DEF CacheInv
<1> USE DEF CacheTyped, Written, FlightHolds, InvalidationHolds, At, NoRead, Read, Live
<1>1. ASSUME NEW q \in Request, Count(q) \/ ExpireCounter(q) PROVE CacheInv'
  <2>1. CountLimit + 1 \in Nat
    BY BurstAssumption DEF CountLimit
  <2> QED BY <1>1, <2>1, CounterKept DEF Count, ExpireCounter
<1>2. ASSUME NEW q \in Request, BeginRead(q) PROVE CacheInv'
  <2>1. CacheTyped'
    BY <1>0, <1>2 DEF BeginRead
  <2>2. Written' /\ FlightHolds'
    BY <1>0, <1>2 DEF BeginRead
  <2>3. InvalidationHolds'
    BY <1>0, <1>2 DEF BeginRead
  <2> QED BY <2>1, <2>2, <2>3 DEF CacheInv
<1>3. ASSUME NEW q \in Request, Write(q) PROVE CacheInv'
  <2>1. CacheTyped'
    BY <1>0, <1>3 DEF Write
  <2>2. Written' /\ FlightHolds'
    BY <1>0, <1>3 DEF Write
  <2>3. InvalidationHolds'
    BY <1>0, <1>3 DEF Write
  <2> QED BY <2>1, <2>2, <2>3 DEF CacheInv
<1>4. ASSUME NEW q \in Request, Hit(q) PROVE CacheInv'
  <2>1. items[Data] \in Item
    BY <1>0, <1>4 DEF Hit
  <2>2. CacheTyped'
    BY <1>0, <1>4, <2>1 DEF Hit, Item
  <2>3. Written' /\ FlightHolds'
    BY <1>0, <1>4 DEF Hit
  <2>4. InvalidationHolds'
    BY <1>0, <1>4, <2>1 DEF Hit, Item
  <2> QED BY <2>2, <2>3, <2>4 DEF CacheInv
<1>5. ASSUME NEW q \in Request, Miss(q) PROVE CacheInv'
  <2>1. CacheTyped'
    BY <1>0, <1>5 DEF Miss
  <2>2. Written' /\ FlightHolds' /\ InvalidationHolds'
    BY <1>0, <1>5 DEF Miss
  <2> QED BY <2>1, <2>2 DEF CacheInv
<1>6. ASSUME NEW q \in Request, Do(q) PROVE CacheInv'
  <2>0. UNCHANGED <<version, items, deliveries, invalidated, since>>
    BY <1>6 DEF Do
  <2>1. CacheTyped'
    <3>1. CASE flight = NoFlight
      <4>1. /\ flight' = [phase |-> "load", leader |-> q, value |-> 0, overtaken |-> FALSE]
            /\ read' = [read EXCEPT ![q] = At("lead")]
        BY <1>6, <3>1 DEF Do
      <4>2. flight' \in Flight
        BY <4>1 DEF Flight
      <4>3. read' \in [Request -> Read]
        BY <1>0, <4>1
      <4> QED BY <1>0, <2>0, <4>2, <4>3
    <3>2. CASE flight # NoFlight
      <4>1. flight' = flight /\ read' = [read EXCEPT ![q] = At("wait")]
        BY <1>6, <3>2 DEF Do
      <4>2. read' \in [Request -> Read]
        BY <1>0, <4>1
      <4> QED BY <1>0, <2>0, <4>1, <4>2
    <3> QED BY <3>1, <3>2
  <2>2. Written' /\ InvalidationHolds'
    <3>1. PICK place \in {"lead", "wait"} : read' = [read EXCEPT ![q] = At(place)]
      BY <1>6 DEF Do
    <3>2. \A r \in Request : read'[r] = read[r] \/ read'[r].place \in {"lead", "wait"}
      BY <1>0, <3>1
    <3>3. Written'
      BY <1>0, <2>0, <3>2
    <3>4. InvalidationHolds'
      BY <1>0, <2>0, <3>2
    <3> QED BY <3>3, <3>4
  <2>3. FlightHolds'
    BY <1>0, <1>6 DEF Do, NoFlight
  <2> QED BY <2>1, <2>2, <2>3 DEF CacheInv
<1>7. ASSUME NEW q \in Request, Return(q) PROVE CacheInv'
  <2>1. read' = [read EXCEPT ![q] = NoRead] /\ UNCHANGED <<version, items, flight, invalidated>>
    BY <1>7 DEF Return, PublishChange
  <2>2. /\ since' \in [Request -> 0..MaxWrites]
        /\ \A r \in Request : since'[r] \in {0, since[r]}
        /\ \A r \in Request \ {q} : read'[r] = read[r]
        /\ read'[q] = NoRead
    <3>1. since' = [since EXCEPT ![q] = 0] \/ since' = since
      BY <1>7 DEF Return, PublishChange
    <3> QED BY <1>0, <2>1, <3>1
  <2>3. deliveries' \subseteq 1..version
    <3>1. CASE deliveries' = deliveries
      BY <1>0, <3>1
    <3>2. CASE PublishChange(q)
      BY <1>0, <3>2 DEF PublishChange
    <3> QED BY <1>7, <3>1, <3>2 DEF Return
  <2>4. read' \in [Request -> Read]
    BY <1>0, <2>1
  <2>5. CacheTyped'
    BY <1>0, <2>1, <2>2, <2>3, <2>4
  <2>6. Written' /\ FlightHolds'
    <3>1. \A r \in Request : read'[r].place = "wrote" => read'[r].value \in 1..version
      BY <1>0, <2>2
    <3>2. \A r \in Request : since'[r] <= invalidated
      BY <1>0, <2>2
    <3> QED BY <1>0, <2>1, <2>3, <3>1, <3>2
  <2>7. InvalidationHolds'
    <3>1. ASSUME NEW r \in Request, read'[r].place = "value"
          PROVE  read'[r].value >= since'[r] \/ read'[r].overtaken
      <4>1. r # q
        BY <2>2, <3>1
      <4>2. read[r].value \in Nat /\ since[r] \in Nat
        BY <1>0
      <4> QED BY <1>0, <2>2, <3>1, <4>1, <4>2
    <3> QED BY <1>0, <2>1, <3>1
  <2> QED BY <2>5, <2>6, <2>7 DEF CacheInv
<1>8. ASSUME NEW ended_, Load(ended_) PROVE CacheInv'
  <2>1. UNCHANGED <<version, items, read, deliveries, invalidated, since>>
    BY <1>8 DEF Load
  <2>2. CASE flight' = [phase |-> "loaded", leader |-> flight.leader, value |-> version, overtaken |-> FALSE]
    <3>1. flight' \in Flight
      BY <1>0, <2>2 DEF Flight
    <3>2. FlightHolds'
      BY <1>0, <2>1, <2>2
    <3> QED BY <1>0, <2>1, <3>1, <3>2 DEF CacheInv
  <2>3. CASE flight' = [phase |-> "failed", leader |-> flight.leader, value |-> 0, overtaken |-> FALSE]
    <3>1. flight' \in Flight
      BY <1>0, <2>3 DEF Flight
    <3>2. FlightHolds'
      BY <2>3
    <3> QED BY <1>0, <2>1, <3>1, <3>2 DEF CacheInv
  <2> QED BY <1>8, <2>2, <2>3 DEF Load
<1>9. CASE Store
  <2>1. CacheTyped'
    <3>1. flight' \in Flight
      BY <1>0, <1>9 DEF Store, Flight
    <3>2. flight.value \in Nat /\ flight.overtaken \in BOOLEAN
      BY <1>0 DEF Flight
    <3>3. items' \in [Key -> Item \union {Missing}]
      BY <1>0, <1>9, <3>2 DEF Store, Set, Item
    <3> QED BY <1>0, <1>9, <3>1, <3>3 DEF Store
  <2>2. Written'
    BY <1>0, <1>9 DEF Store
  <2>4. FlightHolds'
    BY <1>0, <1>9 DEF Store
  <2>3. InvalidationHolds'
    BY <1>0, <1>9 DEF Store, Set, Flight
  <2> QED BY <2>1, <2>2, <2>3, <2>4 DEF CacheInv
<1>10. CASE Finish
  <2>1. CacheTyped'
    <3>1. flight' \in Flight
      BY <1>10 DEF Finish, Flight, NoFlight
    <3>2. flight.value \in Nat /\ flight.overtaken \in BOOLEAN
      BY <1>0 DEF Flight
    <3>3. read' \in [Request -> Read]
      BY <1>0, <1>10, <3>2 DEF Finish
    <3> QED BY <1>0, <1>10, <3>1, <3>3 DEF Finish
  <2>2. Written'
    BY <1>0, <1>10 DEF Finish
  <2>3. FlightHolds'
    BY <1>10 DEF Finish, NoFlight
  <2>4. InvalidationHolds'
    BY <1>0, <1>10 DEF Finish, Flight
  <2> QED BY <2>1, <2>2, <2>3, <2>4 DEF CacheInv
<1>11. ASSUME NEW v \in deliveries, Invalidate(v) PROVE CacheInv'
  <2>1. /\ v \in 1..version /\ invalidated' \in 0..MaxWrites /\ invalidated' <= version
        /\ invalidated' >= invalidated
    BY <1>0, <1>11 DEF Invalidate
  <2>2. /\ items' \in [Key -> Item \union {Missing}] /\ items'[Data] = Missing
    BY <1>0, <1>11 DEF Invalidate, DeleteMany
  <2>3. CacheTyped'
    <3>1. flight' \in Flight
      BY <1>0, <1>11 DEF Invalidate, Flight
    <3> QED BY <1>0, <1>11, <2>1, <2>2, <3>1 DEF Invalidate
  <2>4. Written'
    BY <1>0, <1>11, <2>1 DEF Invalidate
  <2>5. FlightHolds'
    <3>1. CASE flight.value < v
      BY <1>0, <1>11, <2>1, <3>1 DEF Invalidate, Flight
    <3>2. CASE flight.value >= v
      BY <1>0, <1>11, <2>1, <3>2 DEF Invalidate, Flight
    <3> QED BY <1>0, <2>1, <3>1, <3>2 DEF Flight
  <2>6. InvalidationHolds'
    BY <1>0, <1>11, <2>2 DEF Invalidate
  <2> QED BY <2>3, <2>4, <2>5, <2>6 DEF CacheInv
<1>12. ASSUME NEW k \in Key, TimePasses(k) PROVE CacheInv'
  <2>1. items[k] \in Item
    BY <1>0, <1>12 DEF TimePasses, Item
  <2>2. items' \in [Key -> Item \union {Missing}]
    BY <1>0, <1>12, <2>1 DEF TimePasses, Expiring, Item
  <2>3. items'[Data] = items[Data] \/ ~Live(Data)'
    BY <1>0, <1>12, <2>1 DEF TimePasses, Expiring, Item
  <2> QED BY <1>12, <2>2, <2>3, ItemsKept DEF TimePasses, CacheInv
<1>13. CASE DeleteExpired
  <2>1. items' \in [Key -> Item \union {Missing}]
    BY <1>0, <1>13 DEF DeleteExpired
  <2>2. Live(Data)' => items'[Data] = items[Data] /\ Live(Data)
    BY <1>0, <1>13 DEF DeleteExpired
  <2> QED BY <1>13, <2>1, <2>2, ItemsKept DEF DeleteExpired, CacheInv
<1>14. ASSUME NEW q \in Request, HandlerPanics(q) PROVE CacheInv'
  <2>1. CacheTyped'
    BY <1>0, <1>14 DEF HandlerPanics, Flight, NoFlight
  <2>2. Written' /\ FlightHolds' /\ InvalidationHolds'
    BY <1>0, <1>14 DEF HandlerPanics, NoFlight
  <2> QED BY <2>1, <2>2 DEF CacheInv
<1>15. CASE UNCHANGED cacheVars
  BY <1>0, <1>15 DEF cacheVars, CacheInv
<1>16. ASSUME NEW q \in Request,
              \/ Arrive(q) \/ EndContext(q) \/ Timeout(q) \/ Leave(q)
              \/ Allow(q) \/ BeginReply(q) \/ Reply(q) \/ HandlerEnds(q)
       PROVE  UNCHANGED cacheVars
  BY <1>16 DEF Arrive, EndContext, Timeout, TimeUp, WriteTimeout, Completed, Leave, Allow,
               BeginReply, Reply, HandlerEnds
<1>17. Refill \/ (UNCHANGED vars) => UNCHANGED cacheVars
  BY DEF Refill, vars, cacheVars
<1>18. ASSUME NEW q \in Request, Handle(q) PROVE CacheInv'
  BY <1>2, <1>3, <1>15, <1>18 DEF Handle
<1>19. CASE Lead
  BY <1>8, <1>9, <1>10, <1>19 DEF Lead
<1>20. ASSUME NEW q \in Request, ReadStep(q) PROVE CacheInv'
  BY <1>4, <1>5, <1>6, <1>20 DEF ReadStep
<1>21. ASSUME NEW q \in Request, Handler(q) PROVE CacheInv'
  <2>1. CASE Allow(q) \/ BeginReply(q) \/ Reply(q) \/ HandlerEnds(q)
    BY <1>15, <1>16, <2>1
  <2> QED BY <1>1, <1>7, <1>18, <1>20, <1>21, <2>1 DEF Handler
<1>22. ASSUME NEW q \in Request, Arrive(q) \/ EndContext(q) \/ Timeout(q) \/ Leave(q) PROVE CacheInv'
  BY <1>15, <1>16, <1>22
<1>23. CASE Refill \/ UNCHANGED vars
  BY <1>15, <1>17, <1>23
<1>24. CASE Elsewhere \/ Deliver
  BY <1>11, <1>12, <1>13, <1>24 DEF Elsewhere, Deliver
<1> QED BY <1>14, <1>19, <1>21, <1>22, <1>23, <1>24 DEF Next

-----------------------------------------------------------------------------
(* The theorems.                                                           *)

LEMMA InitHolds == Init => PathInv /\ CacheInv
<1> SUFFICES ASSUME Init PROVE PathInv /\ CacheInv
  OBVIOUS
<1>1. PathInv
  BY BurstAssumption DEF Init, PathInv, PathTyped, Authorship, Before, Blank
<1>2. CacheTyped
  BY BoundAssumption DEF Init, CacheInit, CacheTyped, Flight, Read, NoFlight, NoRead, At
<1>3. Written /\ FlightHolds /\ InvalidationHolds
  BY DataAssumption DEF Init, CacheInit, Written, FlightHolds, InvalidationHolds, Live, NoFlight, NoRead, At
<1> QED BY <1>1, <1>2, <1>3 DEF CacheInv

THEOREM Inductive == Spec => [](PathInv /\ CacheInv)
<1>1. (PathInv /\ CacheInv) /\ [Next]_vars => (PathInv /\ CacheInv)'
  BY PathStep, CacheStep
<1> QED BY InitHolds, <1>1, PTL DEF Spec

\* Every variable of the cache and of the request path keeps its type.
THEOREM TypeCorrect == Spec => []TypeOK
<1>1. PathInv /\ CacheInv => TypeOK
  BY DEF PathInv, CacheInv, PathTyped, CacheTyped, Flight, Read, TypeOK
<1> QED BY Inductive, <1>1, PTL

\* The middleware's goroutine and the handler's never both write to one answer,
\* except at the moment the middleware reads wroteHeader unsynchronised.
THEOREM AuthorIsOne == Spec => []OneAuthor
<1>1. PathInv => OneAuthor
  BY DEF PathInv, PathTyped, Authorship, OneAuthor
<1> QED BY Inductive, <1>1, PTL

\* After an invalidation neither the cache nor a call that begins then has older
\* data, unless a load that read before it stored or returned after it.
THEOREM InvalidationIsFinal == Spec => []InvalidationHolds
<1>1. CacheInv => InvalidationHolds
  BY DEF CacheInv
<1> QED BY Inductive, <1>1, PTL

-----------------------------------------------------------------------------
(* The inductive invariant of the hub.                                     *)

\* Connections that have come so far belong to a user or to nobody.
Known == \A c \in Conn : reader[c] # "none" => UserOf[c] \in User \union {Nobody}

\* Only connections the hub was handed are clients or have a closed channel, and
\* a hub whose goroutine is gone has none.
Fresh ==
    /\ \A c \in Conn : reader[c] \in {"none", "registering"} => c \notin clients \union closed
    /\ ~running => clients = {}

\* No two users share an inner map.
OwnMaps == \A u, v \in User : userClients[u] = userClients[v] /\ u # v => userClients[u] = 0

\* The map SendToUser holds, though the hub may have dropped it since, has
\* nobody in it but the target.
HeldIsTargets ==
    \A m \in Message : sender[m] = "lookedUp" =>
        /\ Target[m] \in User
        /\ held[m] \in 1..Len(maps)
        /\ \A c \in maps[held[m]] : UserOf[c] = Target[m]

\* What is owed is still to come until it was tried.
DueIsAhead ==
    \A m \in Message :
        /\ \A c \in todo[m] \union tried[m] : UserOf[c] = Target[m]
        /\ sender[m] \in {"idle", "calling"} => due[m] = {}
        /\ sender[m] = "lookedUp" => due[m] \subseteq maps[held[m]]
        /\ sender[m] = "sending" => due[m] \subseteq todo[m] \union tried[m]
        /\ sender[m] = "done" => due[m] \subseteq tried[m]

IInv ==
    /\ HubTypeOK /\ Known /\ Fresh
    /\ NoSendOnClosed
    /\ IndexAgrees /\ OwnMaps
    /\ HeldIsTargets /\ DueIsAhead

-----------------------------------------------------------------------------
(* Lemmas.                                                                 *)

\* The verifier names a user, and so does the development header.
LEMMA UserTyped ==
    ASSUME NEW c \in Conn, Admitted(c)
    PROVE  UserOf[c] \in User \union {Nobody}
<1>1. UserOf[c] = AuthenticateRequest(Handshake[c]) /\ UserOf[c] # Refused
  BY DEF UserOf, Admitted
<1>2. Handshake[c].user_id \in User \union {Nobody}
  BY UserAssumption
<1>3. ExtractToken(Handshake[c]) \in User \union {NoToken, Forged}
  BY UserAssumption DEF ExtractToken
<1> QED BY <1>1, <1>2, <1>3 DEF AuthenticateRequest

LEMMA TargetTyped ==
    ASSUME NEW m \in Message
    PROVE  Target[m] \in User \union {Nobody}
BY UserAssumption DEF Target, ExtractUserID

Own(u) == {c \in clients : UserOf[c] = u}

\* What Register does to the index: the user's map gets the connection, in place
\* or as a new map, and the maps of others stay.
LEMMA RegisterIndexes ==
    ASSUME IInv, NEW c \in Conn, Register(c)
    PROVE  /\ maps' \in Seq(SUBSET Conn) /\ Len(maps') >= Len(maps)
           /\ userClients' \in [User -> 0..Len(maps')]
           /\ \A i \in 1..Len(maps) :
                 \/ maps'[i] = maps[i]
                 \/ /\ UserOf[c] \in User /\ userClients[UserOf[c]] = i
                    /\ maps'[i] = maps[i] \union {c}
           /\ IndexAgrees' /\ OwnMaps'
<1> DEFINE u == UserOf[c]
<1>1. /\ u \in User \union {Nobody} /\ Nobody \notin User
      /\ maps \in Seq(SUBSET Conn) /\ Len(maps) \in Nat
      /\ userClients \in [User -> 0..Len(maps)]
      /\ clients' = clients \union {c} /\ {c} \in SUBSET Conn
  BY UserAssumption DEF IInv, HubTypeOK, Known, Register
<1>2. \A v \in User :
         Own(v)' = IF v = u THEN Own(v) \union {c} ELSE Own(v)
  BY <1>1 DEF Own
<1>3. \A v \in User : IF Own(v) = {} THEN userClients[v] = 0
                      ELSE userClients[v] # 0 /\ maps[userClients[v]] = Own(v)
  BY DEF IInv, IndexAgrees, Own
<1>4. SUFFICES ASSUME TRUE
      PROVE  /\ maps' \in Seq(SUBSET Conn) /\ Len(maps') >= Len(maps)
             /\ userClients' \in [User -> 0..Len(maps')]
             /\ \A i \in 1..Len(maps) :
                   \/ maps'[i] = maps[i]
                   \/ /\ u \in User /\ userClients[u] = i
                      /\ maps'[i] = maps[i] \union {c}
             /\ \A v \in User : IF Own(v)' = {} THEN userClients'[v] = 0
                                ELSE userClients'[v] # 0 /\ maps'[userClients'[v]] = Own(v)'
             /\ OwnMaps'
  BY DEF IndexAgrees, Own
<1>5. CASE u = Nobody
  <2>1. maps' = maps /\ userClients' = userClients
    BY <1>5 DEF Register
  <2> QED BY <1>1, <1>2, <1>3, <1>5, <2>1 DEF IInv, OwnMaps
<1>6. CASE u # Nobody /\ userClients[u] = 0
  <2>1. maps' = Append(maps, {c}) /\ userClients' = [userClients EXCEPT ![u] = Len(maps) + 1]
    BY <1>6 DEF Register
  <2>2. /\ maps' \in Seq(SUBSET Conn) /\ Len(maps') = Len(maps) + 1
        /\ maps'[Len(maps) + 1] = {c} /\ \A i \in 1..Len(maps) : maps'[i] = maps[i]
    BY <1>1, <2>1, AppendProperties
  <2>3. Own(u) = {}
    BY <1>1, <1>3, <1>6
  <2>4. \A v \in User : userClients'[v] = IF v = u THEN Len(maps) + 1 ELSE userClients[v]
    BY <1>1, <2>1
  <2>5. userClients' \in [User -> 0..Len(maps')]
    <3>1. u \in User
      BY <1>1, <1>6
    <3>2. \A v \in User : userClients'[v] \in 0..(Len(maps) + 1)
      BY <1>1, <2>4
    <3> QED BY <1>1, <2>1, <2>2, <3>1, <3>2
  <2>6. OwnMaps'
    BY <1>1, <2>4 DEF IInv, OwnMaps
  <2>7. ASSUME NEW v \in User
        PROVE  IF Own(v)' = {} THEN userClients'[v] = 0
               ELSE userClients'[v] # 0 /\ maps'[userClients'[v]] = Own(v)'
    <3>1. CASE v = u
      <4>1. Own(v)' = {c} /\ userClients'[v] = Len(maps) + 1
        BY <1>2, <2>3, <2>4, <3>1
      <4> QED BY <1>1, <2>2, <4>1
    <3>2. CASE v # u
      BY <1>1, <1>2, <1>3, <2>2, <2>4, <3>2
    <3> QED BY <3>1, <3>2
  <2> QED BY <1>1, <2>2, <2>5, <2>6, <2>7
<1>7. CASE u # Nobody /\ userClients[u] # 0
  <2> DEFINE k == userClients[u]
  <2>1. maps' = [maps EXCEPT ![k] = @ \union {c}] /\ userClients' = userClients
    BY <1>7 DEF Register
  <2>2. k \in 1..Len(maps) /\ u \in User
    BY <1>1, <1>7
  <2>3. maps[k] \in SUBSET Conn /\ maps[k] \union {c} \in SUBSET Conn
    BY <1>1, <2>2, ElementOfSeq
  <2>4. /\ maps' \in Seq(SUBSET Conn) /\ Len(maps') = Len(maps)
        /\ \A i \in 1..Len(maps) : maps'[i] = IF i = k THEN maps[k] \union {c} ELSE maps[i]
    BY <1>1, <2>1, <2>2, <2>3, ExceptSeq
  <2>5. maps[k] = Own(u)
    BY <1>3, <1>7, <2>2
  <2>6. OwnMaps'
    BY <2>1 DEF IInv, OwnMaps
  <2>7. ASSUME NEW v \in User
        PROVE  IF Own(v)' = {} THEN userClients'[v] = 0
               ELSE userClients'[v] # 0 /\ maps'[userClients'[v]] = Own(v)'
    <3>1. CASE v = u
      BY <1>2, <1>7, <2>1, <2>2, <2>4, <2>5, <3>1
    <3>2. CASE v # u
      <4>1. userClients[v] # 0 => userClients[v] # k /\ userClients[v] \in 1..Len(maps)
        BY <1>1, <2>2, <3>2 DEF IInv, OwnMaps
      <4> QED BY <1>2, <1>3, <2>1, <2>4, <3>2, <4>1
    <3> QED BY <3>1, <3>2
  <2> QED BY <1>1, <2>1, <2>2, <2>4, <2>6, <2>7
<1> QED BY <1>5, <1>6, <1>7

\* What Unregister does to the index: the connection leaves the user's map, the
\* map leaves the index with its last connection, and other maps stay.
LEMMA UnregisterIndexes ==
    ASSUME IInv, NEW c \in Conn, Unregister(c)
    PROVE  /\ maps' \in Seq(SUBSET Conn) /\ Len(maps') = Len(maps)
           /\ userClients' \in [User -> 0..Len(maps')]
           /\ \A i \in 1..Len(maps) : maps'[i] = maps[i] \/ maps'[i] = maps[i] \ {c}
           /\ IndexAgrees' /\ OwnMaps'
<1> DEFINE u == UserOf[c]
           k == userClients[u]
<1>1. /\ u \in User \union {Nobody} /\ Nobody \notin User
      /\ maps \in Seq(SUBSET Conn) /\ Len(maps) \in Nat
      /\ userClients \in [User -> 0..Len(maps)]
      /\ clients' = clients \ {c}
  BY UserAssumption DEF IInv, HubTypeOK, Known, Unregister
<1>2. \A v \in User :
         Own(v)' = IF v = u THEN Own(v) \ {c} ELSE Own(v)
  BY <1>1 DEF Own
<1>3. \A v \in User : IF Own(v) = {} THEN userClients[v] = 0
                      ELSE userClients[v] # 0 /\ maps[userClients[v]] = Own(v)
  BY DEF IInv, IndexAgrees, Own
<1>4. SUFFICES ASSUME TRUE
      PROVE  /\ maps' \in Seq(SUBSET Conn) /\ Len(maps') = Len(maps)
             /\ userClients' \in [User -> 0..Len(maps')]
             /\ \A i \in 1..Len(maps) : maps'[i] = maps[i] \/ maps'[i] = maps[i] \ {c}
             /\ \A v \in User : IF Own(v)' = {} THEN userClients'[v] = 0
                                ELSE userClients'[v] # 0 /\ maps'[userClients'[v]] = Own(v)'
             /\ OwnMaps'
  BY DEF IndexAgrees, Own
<1>5. CASE u = Nobody \/ k = 0
  <2>1. maps' = maps /\ userClients' = userClients
    BY <1>5 DEF Unregister, RemoveFromIndex
  <2>2. \A v \in User : Own(v)' = Own(v)
    <3>1. CASE u = Nobody
      BY <1>1, <1>2, <3>1
    <3>2. CASE u # Nobody /\ k = 0
      BY <1>1, <1>2, <1>3, <3>2
    <3> QED BY <1>5, <3>1, <3>2
  <2>3. OwnMaps'
    BY <2>1 DEF IInv, OwnMaps
  <2> QED BY <1>1, <1>3, <2>1, <2>2, <2>3
<1>6. CASE u # Nobody /\ k # 0
  <2>1. /\ maps' = [maps EXCEPT ![k] = @ \ {c}]
        /\ userClients' = [userClients EXCEPT ![u] = IF maps[k] \subseteq {c} THEN 0 ELSE k]
    BY <1>1, <1>6 DEF Unregister, RemoveFromIndex
  <2>2. k \in 1..Len(maps) /\ u \in User
    BY <1>1, <1>6
  <2>3. maps[k] \ {c} \in SUBSET Conn
    BY <1>1, <2>2, ElementOfSeq
  <2>4. /\ maps' \in Seq(SUBSET Conn) /\ Len(maps') = Len(maps)
        /\ \A i \in 1..Len(maps) : maps'[i] = IF i = k THEN maps[k] \ {c} ELSE maps[i]
    BY <1>1, <2>1, <2>2, <2>3, ExceptSeq
  <2>5. maps[k] = Own(u)
    BY <1>3, <1>6, <2>2
  <2>6. \A v \in User : userClients'[v] = IF v # u THEN userClients[v]
                                          ELSE IF Own(u) \subseteq {c} THEN 0 ELSE k
    BY <1>1, <2>1, <2>5
  <2>7. userClients' \in [User -> 0..Len(maps')]
    <3>1. \A v \in User : userClients'[v] \in 0..Len(maps)
      BY <1>1, <2>2, <2>6
    <3> QED BY <1>1, <2>1, <2>4, <3>1
  <2>8. OwnMaps'
    BY <2>2, <2>6 DEF IInv, OwnMaps
  <2>9. ASSUME NEW v \in User
        PROVE  IF Own(v)' = {} THEN userClients'[v] = 0
               ELSE userClients'[v] # 0 /\ maps'[userClients'[v]] = Own(v)'
    <3>1. CASE v = u
      <4>1. Own(v)' = Own(u) \ {c} /\ (Own(v)' = {} <=> Own(u) \subseteq {c})
        BY <1>2, <3>1
      <4> QED BY <1>2, <1>6, <2>2, <2>4, <2>5, <2>6, <3>1, <4>1
    <3>2. CASE v # u
      <4>1. userClients[v] # 0 => userClients[v] # k /\ userClients[v] \in 1..Len(maps)
        BY <1>1, <2>2, <3>2 DEF IInv, OwnMaps
      <4> QED BY <1>2, <1>3, <2>4, <2>6, <3>2, <4>1
    <3> QED BY <3>1, <3>2
  <2> QED BY <1>1, <2>2, <2>4, <2>7, <2>8, <2>9
<1> QED BY <1>5, <1>6

-----------------------------------------------------------------------------
(* The steps, one conjunct of the invariant after another.                 *)

LEMMA StepTyped == ASSUME IInv, [HubNext]_allVars PROVE HubTypeOK'
<1> USE DEF HubTypeOK
<1>0. HubTypeOK /\ SendCap \in Nat /\ BroadcastCap \in Nat
  BY CapAssumption DEF IInv
<1>1. ASSUME NEW c \in Conn, Register(c) PROVE HubTypeOK'
  <2>1. /\ maps' \in Seq(SUBSET Conn) /\ Len(maps') \in Nat /\ Len(maps) \in Nat
        /\ Len(maps') >= Len(maps)
        /\ userClients' \in [User -> 0..Len(maps')]
    BY <1>0, <1>1, RegisterIndexes
  <2>2. held \in [Message -> 0..Len(maps')]
    BY <1>0, <2>1
  <2> QED BY <1>0, <1>1, <2>1, <2>2 DEF Register, senderVars
<1>2. ASSUME NEW c \in Conn, Unregister(c) PROVE HubTypeOK'
  <2>1. /\ maps' \in Seq(SUBSET Conn) /\ Len(maps') = Len(maps)
        /\ userClients' \in [User -> 0..Len(maps')]
    BY <1>2, UnregisterIndexes
  <2> QED BY <1>0, <1>2, <2>1 DEF Unregister, senderVars
<1>3. CASE BroadcastMessage
  <2>1. /\ Head(broadcast) \in Message /\ broadcast' \in Seq(Message)
        /\ Len(broadcast') <= BroadcastCap
    BY <1>0, <1>3 DEF BroadcastMessage
  <2>2. send' \in [Conn -> Seq(Message)] /\ \A c \in Conn : Len(send'[c]) <= SendCap
    BY <1>0, <1>3, <2>1 DEF BroadcastMessage, HasRoom
  <2> QED BY <1>0, <1>3, <2>1, <2>2 DEF BroadcastMessage, hubVars, connVars, senderVars
<1>4. CASE Shutdown
  <2>1. userClients' \in [User -> 0..Len(maps)] /\ maps' = maps
    BY <1>0, <1>4, LenProperties DEF Shutdown
  <2> QED BY <1>0, <1>4, <2>1 DEF Shutdown, connVars, senderVars
<1>5. CASE Stop BY <1>0, <1>5 DEF Stop, connVars, senderVars
<1>6. ASSUME NEW c \in Conn, ServeHTTP(c) PROVE HubTypeOK'
  BY <1>0, <1>6 DEF ServeHTTP, hubVars, senderVars
<1>7. ASSUME NEW c \in Conn, Disconnect(c) \/ ReadFails(c) PROVE HubTypeOK'
  <2>1. CASE Disconnect(c) BY <1>0, <2>1 DEF Disconnect, hubVars, senderVars
  <2>2. CASE ReadFails(c) BY <1>0, <2>2 DEF ReadFails, hubVars, senderVars
  <2> QED BY <1>7, <2>1, <2>2
<1>8. ASSUME NEW c \in Conn, WritePump(c) PROVE HubTypeOK'
  <2>1. CASE UNCHANGED send
    <3>1. /\ writer' \in [Conn -> {"off", "writing", "exited"}]
          /\ socket' \in [Conn -> {"none", "open", "closed"}]
      <4>1. CASE WriteMessage(c) BY <1>0, <4>1 DEF WriteMessage
      <4>2. CASE WriteFails(c) BY <1>0, <4>2 DEF WriteFails
      <4>3. CASE WriterStops(c) BY <1>0, <4>3 DEF WriterStops
      <4> QED BY <1>8, <4>1, <4>2, <4>3 DEF WritePump
    <3>2. UNCHANGED <<hubVars, broadcast, closed, reader, senderVars, due>>
      BY <1>8 DEF WritePump, WriteMessage, WriteFails, WriterStops
    <3> QED BY <1>0, <2>1, <3>1, <3>2 DEF hubVars, senderVars
  <2>2. CASE send[c] # <<>> /\ send' = [send EXCEPT ![c] = Tail(@)]
    <3>1. send[c] \in Seq(Message) /\ Len(send[c]) <= SendCap
      BY <1>0
    <3>2. Tail(send[c]) \in Seq(Message) /\ Len(Tail(send[c])) <= SendCap
      BY <1>0, <2>2, <3>1, HeadTailProperties, LenProperties
    <3>3. send' \in [Conn -> Seq(Message)] /\ \A d \in Conn : Len(send'[d]) <= SendCap
      BY <1>0, <2>2, <3>2
    <3>4. writer' \in [Conn -> {"off", "writing", "exited"}] /\ socket' = socket
      <4>1. ~WriterStops(c)
        BY <2>2 DEF WriterStops
      <4>2. CASE WriteMessage(c) BY <1>0, <4>2 DEF WriteMessage
      <4>3. CASE WriteFails(c) BY <1>0, <4>3 DEF WriteFails
      <4> QED BY <1>8, <4>1, <4>2, <4>3 DEF WritePump
    <3>5. UNCHANGED <<hubVars, broadcast, closed, reader, senderVars, due>>
      BY <1>8 DEF WritePump, WriteMessage, WriteFails, WriterStops
    <3> QED BY <1>0, <3>3, <3>4, <3>5 DEF hubVars, senderVars
  <2> QED BY <1>8, <2>1, <2>2 DEF WritePump, WriteMessage, WriteFails, WriterStops
<1>9. ASSUME NEW m \in Message, HandleEvent(m) \/ BroadcastGivesUp(m) PROVE HubTypeOK'
  BY <1>0, <1>9 DEF HandleEvent, BroadcastGivesUp, hubVars, connVars
<1>10. ASSUME NEW m \in Message, Broadcast(m) PROVE HubTypeOK'
  <2>1. broadcast' \in Seq(Message) /\ Len(broadcast') <= BroadcastCap
    BY <1>0, <1>10 DEF Broadcast
  <2> QED BY <1>0, <1>10, <2>1 DEF Broadcast, hubVars, connVars
<1>11. ASSUME NEW m \in Message, LookUp(m) PROVE HubTypeOK'
  <2>1. userClients[Target[m]] \in 0..Len(maps)
    BY <1>0, <1>11, TargetTyped DEF LookUp
  <2> QED BY <1>0, <1>11, <2>1 DEF LookUp, hubVars, connVars
<1>12. ASSUME NEW m \in Message, BeginSend(m) PROVE HubTypeOK'
  <2>1. maps[held[m]] \in SUBSET Conn
    BY <1>0, <1>12, ElementOfSeq DEF IInv, HeldIsTargets, BeginSend
  <2> QED BY <1>0, <1>12, <2>1 DEF BeginSend, hubVars, connVars
<1>13. ASSUME NEW m \in Message, NEW c \in Conn, SendTo(m, c) PROVE HubTypeOK'
  <2>1. send' \in [Conn -> Seq(Message)] /\ \A d \in Conn : Len(send'[d]) <= SendCap
    BY <1>0, <1>13 DEF SendTo, HasRoom
  <2> QED BY <1>0, <1>13, <2>1 DEF SendTo, hubVars, connVars
<1>14. CASE UNCHANGED allVars
  BY <1>0, <1>14 DEF allVars, hubVars, connVars, senderVars
<1> QED BY <1>1, <1>2, <1>3, <1>4, <1>5, <1>6, <1>7, <1>8, <1>9, <1>10, <1>11, <1>12, <1>13, <1>14
        DEF HubNext, Run, Send

\* Who is a client, and whose channel is closed.
LEMMA StepFresh == ASSUME IInv, [HubNext]_allVars PROVE Known' /\ Fresh' /\ NoSendOnClosed'
<1> USE DEF Known, Fresh, NoSendOnClosed
<1>0. HubTypeOK /\ Known /\ Fresh /\ NoSendOnClosed
  BY DEF IInv
<1>1. ASSUME NEW c \in Conn, Register(c) PROVE Known' /\ Fresh' /\ NoSendOnClosed'
  BY <1>0, <1>1 DEF Register, HubTypeOK
<1>2. ASSUME NEW c \in Conn, Unregister(c) PROVE Known' /\ Fresh' /\ NoSendOnClosed'
  BY <1>0, <1>2 DEF Unregister, HubTypeOK
<1>3. CASE Shutdown
  BY <1>0, <1>3 DEF Shutdown, connVars, HubTypeOK
<1>4. ASSUME NEW c \in Conn, ServeHTTP(c) PROVE Known' /\ Fresh' /\ NoSendOnClosed'
  BY <1>0, <1>4, UserTyped DEF ServeHTTP, hubVars, HubTypeOK
<1>5. ASSUME NEW c \in Conn, ReadFails(c) PROVE Known' /\ Fresh' /\ NoSendOnClosed'
  BY <1>0, <1>5 DEF ReadFails, hubVars, HubTypeOK
<1>6. CASE UNCHANGED <<running, clients, closed, reader>>
  BY <1>0, <1>6
<1>7. BroadcastMessage \/ Stop \/ (UNCHANGED allVars) => UNCHANGED <<running, clients, closed, reader>>
  BY DEF BroadcastMessage, Stop, allVars, hubVars, connVars
<1>8. ASSUME NEW c \in Conn, Disconnect(c) \/ WritePump(c)
      PROVE  UNCHANGED <<running, clients, closed, reader>>
  BY <1>8 DEF Disconnect, WritePump, WriteMessage, WriteFails, WriterStops, hubVars
<1>9. ASSUME NEW m \in Message, HandleEvent(m) \/ Send(m)
      PROVE  UNCHANGED <<running, clients, closed, reader>>
  BY <1>9 DEF HandleEvent, Send, Broadcast, BroadcastGivesUp, LookUp, BeginSend, SendTo, hubVars, connVars
<1> QED BY <1>1, <1>2, <1>3, <1>4, <1>5, <1>6, <1>7, <1>8, <1>9 DEF HubNext, Run

\* The index follows the clients.
LEMMA StepIndexed == ASSUME IInv, [HubNext]_allVars PROVE IndexAgrees' /\ OwnMaps'
<1> USE DEF IndexAgrees, OwnMaps
<1>0. HubTypeOK /\ IndexAgrees /\ OwnMaps
  BY DEF IInv
<1>1. ASSUME NEW c \in Conn, Register(c) \/ Unregister(c) PROVE IndexAgrees' /\ OwnMaps'
  BY <1>1, RegisterIndexes, UnregisterIndexes
<1>2. CASE Shutdown
  BY <1>0, <1>2 DEF Shutdown
<1>3. CASE UNCHANGED <<clients, maps, userClients>>
  BY <1>0, <1>3
<1>4. BroadcastMessage \/ Stop \/ (UNCHANGED allVars) => UNCHANGED <<clients, maps, userClients>>
  BY DEF BroadcastMessage, Stop, allVars, hubVars
<1>5. ASSUME NEW c \in Conn, ServeHTTP(c) \/ Disconnect(c) \/ ReadFails(c) \/ WritePump(c)
      PROVE  UNCHANGED <<clients, maps, userClients>>
  BY <1>5 DEF ServeHTTP, Disconnect, ReadFails, WritePump, WriteMessage, WriteFails, WriterStops, hubVars
<1>6. ASSUME NEW m \in Message, HandleEvent(m) \/ Send(m)
      PROVE  UNCHANGED <<clients, maps, userClients>>
  BY <1>6 DEF HandleEvent, Send, Broadcast, BroadcastGivesUp, LookUp, BeginSend, SendTo, hubVars
<1> QED BY <1>1, <1>2, <1>3, <1>4, <1>5, <1>6 DEF HubNext, Run

\* What one message is owed and where it may go, with the maps as they are.
Routed(m) ==
    /\ sender[m] = "lookedUp" =>
          /\ Target[m] \in User
          /\ held[m] \in 1..Len(maps)
          /\ \A c \in maps[held[m]] : UserOf[c] = Target[m]
          /\ due[m] \subseteq maps[held[m]]
    /\ \A c \in todo[m] \union tried[m] : UserOf[c] = Target[m]
    /\ sender[m] \in {"idle", "calling"} => due[m] = {}
    /\ sender[m] = "sending" => due[m] \subseteq todo[m] \union tried[m]
    /\ sender[m] = "done" => due[m] \subseteq tried[m]

LEMMA RoutedIsBoth == (\A m \in Message : Routed(m)) <=> HeldIsTargets /\ DueIsAhead
BY DEF Routed, HeldIsTargets, DueIsAhead

\* A message is not concerned by the steps of others, unless they change the maps.
LEMMA RoutedStays ==
    ASSUME HubTypeOK, NEW m \in Message, Routed(m), maps' = maps,
           sender'[m] = sender[m], held'[m] = held[m], todo'[m] = todo[m],
           tried'[m] = tried[m], due'[m] = due[m] \/ due'[m] = {}
    PROVE  Routed(m)'
BY DEF Routed

LEMMA StepRouted == ASSUME IInv, [HubNext]_allVars, NEW m \in Message PROVE Routed(m)'
<1>0. HubTypeOK /\ IndexAgrees /\ OwnMaps /\ Routed(m)
  BY RoutedIsBoth DEF IInv
<1>1. ASSUME NEW c \in Conn, Register(c) PROVE Routed(m)'
  <2>1. UNCHANGED <<senderVars, due>>
    BY <1>1 DEF Register
  <2>2. ASSUME sender[m] = "lookedUp"
        PROVE  /\ held[m] \in 1..Len(maps')
               /\ \A d \in maps'[held[m]] : UserOf[d] = Target[m]
               /\ maps[held[m]] \subseteq maps'[held[m]]
    <3>1. /\ held[m] \in 1..Len(maps) /\ Target[m] \in User
          /\ \A d \in maps[held[m]] : UserOf[d] = Target[m]
      BY <1>0, <2>2 DEF Routed
    <3>2. Len(maps) \in Nat /\ Len(maps') \in Nat /\ Len(maps') >= Len(maps)
      BY <1>0, <1>1, RegisterIndexes DEF HubTypeOK
    <3>3. CASE maps'[held[m]] = maps[held[m]]
      BY <3>1, <3>2, <3>3
    <3>4. CASE /\ UserOf[c] \in User /\ userClients[UserOf[c]] = held[m]
               /\ maps'[held[m]] = maps[held[m]] \union {c}
      <4>1. userClients[UserOf[c]] # 0
        BY <3>1, <3>2, <3>4
      <4>2. maps[held[m]] = Own(UserOf[c]) /\ Own(UserOf[c]) # {}
        BY <1>0, <3>4, <4>1 DEF IndexAgrees, Own
      <4>3. UserOf[c] = Target[m]
        BY <3>1, <4>2 DEF Own
      <4> QED BY <3>1, <3>2, <3>4, <4>3
    <3> QED BY <1>1, <3>1, <3>3, <3>4, RegisterIndexes
  <2> QED BY <1>0, <2>1, <2>2 DEF Routed, senderVars
<1>2. ASSUME NEW c \in Conn, Unregister(c) PROVE Routed(m)'
  <2>1. UNCHANGED senderVars /\ due'[m] = due[m] \ {c}
    BY <1>2 DEF Unregister
  <2>2. ASSUME sender[m] = "lookedUp"
        PROVE  /\ held[m] \in 1..Len(maps')
               /\ maps'[held[m]] = maps[held[m]] \/ maps'[held[m]] = maps[held[m]] \ {c}
    BY <1>0, <1>2, <2>2, UnregisterIndexes DEF Routed
  <2> QED BY <1>0, <2>1, <2>2 DEF Routed, senderVars
<1>3. CASE Shutdown
  <2>1. UNCHANGED <<senderVars, maps>> /\ due'[m] = {}
    BY <1>3 DEF Shutdown
  <2> QED BY <1>0, <2>1, RoutedStays DEF senderVars
<1>4. CASE UNCHANGED <<senderVars, maps, due>>
  BY <1>0, <1>4, RoutedStays DEF senderVars
<1>5. BroadcastMessage \/ Stop \/ (UNCHANGED allVars) => UNCHANGED <<senderVars, maps, due>>
  BY DEF BroadcastMessage, Stop, allVars, hubVars
<1>6. ASSUME NEW c \in Conn, ServeHTTP(c) \/ Disconnect(c) \/ ReadFails(c) \/ WritePump(c)
      PROVE  UNCHANGED <<senderVars, maps, due>>
  BY <1>6 DEF ServeHTTP, Disconnect, ReadFails, WritePump, WriteMessage, WriteFails, WriterStops, hubVars
<1>7. ASSUME NEW n \in Message, HandleEvent(n) \/ Send(n), n # m PROVE Routed(m)'
  <2>1. /\ maps' = maps /\ sender'[m] = sender[m] /\ held'[m] = held[m] /\ todo'[m] = todo[m]
        /\ tried'[m] = tried[m] /\ due'[m] = due[m]
    BY <1>0, <1>7 DEF HubTypeOK, HandleEvent, Send, Broadcast, BroadcastGivesUp, LookUp, BeginSend,
                      SendTo, hubVars
  <2> QED BY <1>0, <2>1, RoutedStays
<1>8. CASE HandleEvent(m) \/ Broadcast(m) \/ BroadcastGivesUp(m)
  BY <1>0, <1>8 DEF Routed, HubTypeOK, HandleEvent, Broadcast, BroadcastGivesUp, hubVars
<1>9. CASE LookUp(m)
  <2> DEFINE u == Target[m]
  <2>1. /\ u \in User /\ userClients[u] \in 0..Len(maps) /\ Len(maps) \in Nat
        /\ held'[m] = userClients[u] /\ due'[m] = Own(u)
        /\ sender'[m] = IF userClients[u] = 0 THEN "done" ELSE "lookedUp"
        /\ UNCHANGED <<maps, todo, tried>>
    BY <1>0, <1>9, TargetTyped DEF LookUp, HubTypeOK, Own, hubVars
  <2>2. CASE userClients[u] = 0
    <3>1. Own(u) = {}
      BY <1>0, <2>1, <2>2 DEF IndexAgrees, Own
    <3> QED BY <1>0, <2>1, <2>2, <3>1 DEF Routed
  <2>3. CASE userClients[u] # 0
    <3>1. maps[userClients[u]] = Own(u)
      BY <1>0, <2>1, <2>3 DEF IndexAgrees, Own
    <3> QED BY <1>0, <2>1, <2>3, <3>1 DEF Routed, Own
  <2> QED BY <2>2, <2>3
<1>10. CASE BeginSend(m)
  <2>1. /\ todo'[m] = maps[held[m]] /\ sender[m] = "lookedUp"
        /\ sender'[m] = IF todo'[m] = {} THEN "done" ELSE "sending"
        /\ UNCHANGED <<maps, held, tried, due>>
    BY <1>0, <1>10 DEF BeginSend, HubTypeOK, hubVars
  <2> QED BY <1>0, <2>1 DEF Routed
<1>11. ASSUME NEW c \in Conn, SendTo(m, c) PROVE Routed(m)'
  <2>1. /\ todo'[m] = todo[m] \ {c} /\ tried'[m] = tried[m] \union {c}
        /\ sender[m] = "sending" /\ c \in todo[m]
        /\ sender'[m] = IF todo'[m] = {} THEN "done" ELSE "sending"
        /\ UNCHANGED <<maps, held, due>>
    BY <1>0, <1>11 DEF SendTo, HubTypeOK, hubVars
  <2> QED BY <1>0, <2>1 DEF Routed
<1> QED BY <1>1, <1>2, <1>3, <1>4, <1>5, <1>6, <1>7, <1>8, <1>9, <1>10, <1>11
        DEF HubNext, Run, Send

-----------------------------------------------------------------------------
(* Theorems.                                                               *)

LEMMA Invariance == HubSpec => []IInv
<1>1. HubInit => IInv
  <2> SUFFICES ASSUME HubInit PROVE IInv
    OBVIOUS
  <2>1. HubTypeOK
    <3>1. /\ maps = <<>> /\ maps \in Seq(SUBSET Conn) /\ Len(maps) = 0
          /\ broadcast \in Seq(Message) /\ Len(broadcast) = 0
      BY DEF HubInit
    <3>2. /\ send \in [Conn -> Seq(Message)]
          /\ \A c \in Conn : Len(send[c]) = 0
      BY DEF HubInit
    <3>3. userClients \in [User -> 0..Len(maps)] /\ held \in [Message -> 0..Len(maps)]
      BY <3>1 DEF HubInit
    <3>4. \A c \in Conn : Len(send[c]) <= SendCap
      BY <3>2, CapAssumption
    <3>5. Len(broadcast) <= BroadcastCap
      BY <3>1, CapAssumption
    <3>6. /\ cancelled \in BOOLEAN /\ running \in BOOLEAN
          /\ clients \in SUBSET Conn /\ closed \in SUBSET Conn
          /\ socket \in [Conn -> {"none", "open", "closed"}]
          /\ reader \in [Conn -> {"none", "registering", "reading", "unregistering", "exited"}]
          /\ writer \in [Conn -> {"off", "writing", "exited"}]
      BY DEF HubInit
    <3>7. /\ sender \in [Message -> {"idle", "calling", "lookedUp", "sending", "done"}]
          /\ todo \in [Message -> SUBSET Conn]
          /\ due \in [Message -> SUBSET Conn]
          /\ tried \in [Message -> SUBSET Conn]
      BY DEF HubInit
    <3> QED BY <3>1, <3>2, <3>3, <3>4, <3>5, <3>6, <3>7 DEF HubTypeOK
  <2>2. Known /\ Fresh /\ NoSendOnClosed
    BY DEF HubInit, Known, Fresh, NoSendOnClosed
  <2>3. IndexAgrees /\ OwnMaps
    BY DEF HubInit, IndexAgrees, OwnMaps
  <2>4. HeldIsTargets /\ DueIsAhead
    BY DEF HubInit, HeldIsTargets, DueIsAhead
  <2> QED BY <2>1, <2>2, <2>3, <2>4 DEF IInv
<1>2. IInv /\ [HubNext]_allVars => IInv'
  <2> SUFFICES ASSUME IInv, [HubNext]_allVars PROVE IInv'
    OBVIOUS
  <2>1. \A m \in Message : Routed(m)'
    BY StepRouted
  <2>2. HeldIsTargets' /\ DueIsAhead'
    BY <2>1 DEF Routed, HeldIsTargets, DueIsAhead
  <2> QED BY <2>2, StepTyped, StepFresh, StepIndexed DEF IInv
<1> QED BY <1>1, <1>2, PTL DEF HubSpec

\* The state of the hub, its connections and its senders is well typed: no send
\* channel and no broadcast channel holds more than its capacity.
THEOREM HubTypeCorrect == HubSpec => []HubTypeOK
<1>1. IInv => HubTypeOK
  BY DEF IInv
<1> QED BY <1>1, Invariance, PTL

\* No goroutine ever sends on a channel that was closed, or closes it twice, in
\* whatever order Unregister, Shutdown and the senders run.
THEOREM OpenWhileClient == HubSpec => []NoSendOnClosed
<1>1. IInv => NoSendOnClosed
  BY DEF IInv
<1> QED BY <1>1, Invariance, PTL

\* userClients is the index of clients, and SendToUser, which releases the lock
\* in between, reaches every connection of the user that stays, and no other user's.
THEOREM Targeting == HubSpec => []TargetingIsExact
<1>1. IInv => TargetingIsExact
  BY DEF IInv, TargetingIsExact, SendToUserIsExact, DueIsAhead
<1> QED BY <1>1, Invariance, PTL
=============================================================================
