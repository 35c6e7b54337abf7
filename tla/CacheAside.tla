----------------------------- MODULE CacheAside -----------------------------
(***************************************************************************)
(* internal/cache: the memory cache, the loader that fills it (proto.go,   *)
(* over golang.org/x/sync/singleflight) and the invalidator that empties   *)
(* it when an event of the in-process bus says that the data changed.      *)
(* Reads, loads, writes and invalidations are steps of different           *)
(* goroutines.  The data behind the key is a version number.               *)
(***************************************************************************)
EXTENDS Naturals, FiniteSets

CONSTANTS
    Request,     \* requests that may be under way at the same time
    Key,         \* cache keys
    Data,        \* the key of the loaded message; the invalidator deletes it
    TTL,         \* is the ttl passed to GetOrLoadProto above zero?
    MaxWrites    \* bound: how often the data change

ASSUME DataAssumption == Data \in Key
ASSUME BoundAssumption == TTL \in BOOLEAN /\ MaxWrites \in Nat

VARIABLES
    version,     \* of the data in the database
    items,       \* the map of MemoryCache
    flight,      \* the call singleflight has registered for the key
    read,        \* per request: what GetOrLoadProto has reached or returned
    deliveries,  \* goroutines of the bus about to run the invalidator
    invalidated, \* history: the last write whose invalidation has run
    since        \* history, per request: invalidated when its read began

cacheVars == <<version, items, flight, read, deliveries, invalidated, since>>

\* overtaken (history): stored by a load that read before an invalidation.
Item == [value : Nat, expiry : {"never", "ahead", "past"}, overtaken : BOOLEAN]
Missing == [value |-> 0, expiry |-> "missing", overtaken |-> FALSE]

NoFlight == [phase |-> "none", leader |-> "none", value |-> 0, overtaken |-> FALSE]

\* place: "idle", "get", "do", "wait" (a sharer of the flight), "lead" (its
\* leader), "value" or "error" (returned); "wrote" is a writer's.
At(place) == [place |-> place, value |-> 0, overtaken |-> FALSE]
NoRead == At("idle")

CacheInit ==
    /\ version = 0
    /\ items = [k \in Key |-> Missing]
    /\ flight = NoFlight
    /\ read = [r \in Request |-> NoRead]
    /\ deliveries = {}
    /\ invalidated = 0
    /\ since = [r \in Request |-> 0]

-----------------------------------------------------------------------------
(* memory.go: each operation is one critical section.                      *)

\* The item is in the map and has not expired.
Live(k) == items[k] # Missing /\ items[k].expiry # "past"

\* Mutant: an expiry is set only where there was one.
Set_KeepsExpiry(k, v, ttl, over) ==
    [items EXCEPT ![k] =
        [value |-> v, expiry |-> IF ttl /\ @.expiry = "ahead" THEN "ahead" ELSE "never", overtaken |-> over]]

Set(k, v, ttl, over) ==
    [items EXCEPT ![k] =
        [value |-> v, expiry |-> IF ttl THEN "ahead" ELSE "never", overtaken |-> over]]

\* Mutant: only the items that will expire anyway are removed.
DeleteMany_SparesUnexpiring(K) ==
    [k \in Key |-> IF k \in K /\ items[k].expiry # "ahead" THEN Missing ELSE items[k]]

\* DeleteMany, and DeleteByPrefix with the keys that have the prefix.
DeleteMany(K) == [k \in Key |-> IF k \in K THEN Missing ELSE items[k]]

\* A counter that is missing or expired starts again at 1, without an expiry.
\* cap is where the model's counter saturates.
Increment(k, cap) ==
    IF Live(k)
    THEN [items EXCEPT ![k] = [value |-> IF @.value < cap THEN @.value + 1 ELSE cap,
                               expiry |-> @.expiry, overtaken |-> @.overtaken]]
    ELSE [items EXCEPT ![k] = [value |-> 1, expiry |-> "never", overtaken |-> FALSE]]

Expiring(k, when) ==
    [items EXCEPT ![k] = [value |-> @.value, expiry |-> when, overtaken |-> @.overtaken]]

\* Expire with a ttl above zero; ErrNotFound changes nothing.
Expire(k) == IF Live(k) THEN Expiring(k, "ahead") ELSE items

TimePasses(k) ==
    /\ items[k] # Missing /\ items[k].expiry = "ahead"
    /\ items' = Expiring(k, "past")
    /\ UNCHANGED <<version, flight, read, deliveries, invalidated, since>>

\* The ticker of the cleanup goroutine.
DeleteExpired ==
    /\ \E k \in Key : items[k] # Missing /\ ~Live(k)
    /\ items' = [k \in Key |-> IF Live(k) THEN items[k] ELSE Missing]
    /\ UNCHANGED <<version, flight, read, deliveries, invalidated, since>>

-----------------------------------------------------------------------------
(* proto.go.                                                               *)

\* A handler calls GetOrLoadProto.
BeginRead(r) ==
    /\ read[r] = NoRead
    /\ read' = [read EXCEPT ![r] = At("get")]
    /\ since' = [since EXCEPT ![r] = invalidated]
    /\ UNCHANGED <<version, items, flight, deliveries, invalidated>>

\* GetProto finds a live item.
Hit(r) ==
    /\ read[r].place = "get" /\ Live(Data)
    /\ read' = [read EXCEPT ![r] = [place |-> "value", value |-> items[Data].value,
                                    overtaken |-> items[Data].overtaken]]
    /\ UNCHANGED <<version, items, flight, deliveries, invalidated, since>>

\* It finds none: Do will register a call or share the registered one.
Miss(r) ==
    /\ read[r].place = "get" /\ ~Live(Data)
    /\ read' = [read EXCEPT ![r] = At("do")]
    /\ UNCHANGED <<version, items, flight, deliveries, invalidated, since>>

Do(r) ==
    /\ read[r].place = "do"
    /\ IF flight = NoFlight
       THEN /\ flight' = [phase |-> "load", leader |-> r, value |-> 0, overtaken |-> FALSE]
            /\ read' = [read EXCEPT ![r] = At("lead")]
       ELSE /\ read' = [read EXCEPT ![r] = At("wait")]
            /\ UNCHANGED flight
    /\ UNCHANGED <<version, items, deliveries, invalidated, since>>

\* The loader reads the database, with the context of the leader.
Load(ended) ==
    /\ flight.phase = "load"
    /\ \/ flight' = [phase |-> "loaded", leader |-> flight.leader, value |-> version, overtaken |-> FALSE]
       \/ ended /\ flight' = [phase |-> "failed", leader |-> flight.leader, value |-> 0, overtaken |-> FALSE]
    /\ UNCHANGED <<version, items, read, deliveries, invalidated, since>>

\* SetProto stores what was read, however long ago that was.
Store ==
    /\ flight.phase = "loaded"
    /\ items' = Set(Data, flight.value, TTL, flight.overtaken)
    /\ flight' = [phase |-> "stored", leader |-> flight.leader,
                   value |-> flight.value, overtaken |-> flight.overtaken]
    /\ UNCHANGED <<version, read, deliveries, invalidated, since>>

\* Mutant: only the caller that ran the loader returns.
Finish_LeaderOnly ==
    /\ flight.phase \in {"stored", "failed"}
    /\ read' = [r \in Request |->
          IF read[r].place = "lead"
          THEN [place |-> IF flight.phase = "stored" THEN "value" ELSE "error",
                value |-> flight.value, overtaken |-> flight.overtaken]
          ELSE read[r]]
    /\ flight' = NoFlight
    /\ UNCHANGED <<version, items, deliveries, invalidated, since>>

\* singleflight forgets the call and everybody who shares it returns with its
\* result, an error included.
Finish ==
    /\ flight.phase \in {"stored", "failed"}
    /\ read' = [r \in Request |->
          IF read[r].place \in {"lead", "wait"}
          THEN [place |-> IF flight.phase = "stored" THEN "value" ELSE "error",
                value |-> flight.value, overtaken |-> flight.overtaken]
          ELSE read[r]]
    /\ flight' = NoFlight
    /\ UNCHANGED <<version, items, deliveries, invalidated, since>>

-----------------------------------------------------------------------------
(* Writers and invalidator.go.                                             *)

\* A handler commits a change of the data ...
Write(r) ==
    /\ read[r] = NoRead
    /\ version < MaxWrites
    /\ version' = version + 1
    /\ read' = [read EXCEPT ![r] = [place |-> "wrote", value |-> version + 1, overtaken |-> FALSE]]
    /\ UNCHANGED <<items, flight, deliveries, invalidated, since>>

\* ... and publishes its event: the bus starts a goroutine for the invalidator.
PublishChange(r) ==
    /\ read[r].place = "wrote"
    /\ deliveries' = deliveries \union {read[r].value}
    /\ UNCHANGED <<version, items, flight, invalidated, since>>

\* The handler of SubscribeKeys or SubscribePrefixes.
Invalidate(v) ==
    /\ v \in deliveries
    /\ deliveries' = deliveries \ {v}
    /\ items' = DeleteMany({Data})
    /\ invalidated' = IF v > invalidated THEN v ELSE invalidated
    /\ LET late == flight.phase \in {"loaded", "stored"} /\ flight.value < v
       IN  flight' = [phase |-> flight.phase, leader |-> flight.leader,
                      value |-> flight.value, overtaken |-> flight.overtaken \/ late]
    /\ UNCHANGED <<version, read, since>>
=============================================================================
