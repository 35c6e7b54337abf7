---------------------------- MODULE RequestPath ----------------------------
(***************************************************************************)
(* One HTTP request from BuildHTTPHandler (cmd/server/setup/server.go) to  *)
(* its handler and back: the timeout middleware answers in the goroutine   *)
(* of net/http while a goroutine of its own runs the rate limiter and the  *)
(* handler, which reads through the cache or writes.  The central counter  *)
(* of the limiter is an item of the same cache.  All requests come from    *)
(* one address.                                                            *)
(***************************************************************************)
EXTENDS CacheAside

CONSTANTS
    Counter,    \* the key "ratelimit:" of that address
    Burst,      \* RateLimiter.burst
    Deployment  \* what may be deployed: the limiter enabled or not, and handlers
                \* that go through the cache or do not

ASSUME CounterAssumption == Counter \in Key /\ Counter # Data
ASSUME BurstAssumption == Burst \in Nat \ {0}
ASSUME DeploymentAssumption == Deployment \subseteq [limited : BOOLEAN, cached : BOOLEAN]

VARIABLES
    deployed,   \* RateLimitEnabled, and whether handlers use the cache: never changes
    tokens,     \* of the address's local limiter
    server,     \* per request: the goroutine of net/http, in Timeout
    handler,    \* per request: the goroutine Timeout starts
    ended,      \* per request: is its context done?
    wrote,      \* per request: wroteHeader of its timeoutResponseWriter
    header,     \* per request: who wrote the header the client gets
    body,       \* per request: who wrote to the body
    raced       \* history: did the deadline fall into the handler's reply?

pathVars == <<deployed, tokens, server, handler, ended, wrote, header, body, raced>>
vars == <<cacheVars, pathVars>>

TypeOK ==
    /\ version \in 0..MaxWrites
    /\ items \in [Key -> Item \union {Missing}]
    /\ flight \in [phase : {"none", "load", "loaded", "stored", "failed"},
                   leader : Request \union {"none"}, value : Nat, overtaken : BOOLEAN]
    /\ read \in [Request -> [place : {"idle", "get", "do", "wait", "lead", "value", "error", "wrote"},
                             value : Nat, overtaken : BOOLEAN]]
    /\ deliveries \subseteq 1..MaxWrites
    /\ invalidated \in 0..MaxWrites
    /\ since \in [Request -> 0..MaxWrites]
    /\ deployed \in Deployment
    /\ tokens \in 0..Burst
    /\ server \in [Request -> {"idle", "waiting", "late", "answered"}]
    /\ handler \in [Request -> {"none", "limit", "first", "local", "handle", "call", "reply", "header", "end"}]
    /\ ended \in [Request -> BOOLEAN]
    /\ wrote \in [Request -> BOOLEAN]
    /\ header \in [Request -> {"none", "handler", "timeout"}]
    /\ body \in [Request -> SUBSET {"handler", "timeout"}]
    /\ raced \in [Request -> BOOLEAN]

Init ==
    /\ CacheInit
    /\ deployed \in Deployment
    /\ tokens = Burst
    /\ server = [r \in Request |-> "idle"]
    /\ handler = [r \in Request |-> "none"]
    /\ ended = [r \in Request |-> FALSE]
    /\ wrote = [r \in Request |-> FALSE]
    /\ header = [r \in Request |-> "none"]
    /\ body = [r \in Request |-> {}]
    /\ raced = [r \in Request |-> FALSE]

-----------------------------------------------------------------------------
(* timeout.go: the goroutine of net/http.                                  *)

\* A request arrives; Timeout starts its goroutine and waits.
Arrive(r) ==
    /\ server[r] = "idle"
    /\ server' = [server EXCEPT ![r] = "waiting"]
    /\ handler' = [handler EXCEPT ![r] = IF deployed.limited THEN "limit" ELSE "handle"]
    /\ UNCHANGED <<cacheVars, deployed, tokens, ended, wrote, header, body, raced>>

\* The deadline passes, or the client is gone.
EndContext(r) ==
    /\ server[r] = "waiting" /\ ~ended[r]
    /\ ended' = [ended EXCEPT ![r] = TRUE]
    /\ UNCHANGED <<cacheVars, deployed, tokens, server, handler, wrote, header, body, raced>>

\* Mutant: whatever the handler wrote, the middleware answers.
TimeUp_Unchecked(r) ==
    /\ server[r] = "waiting" /\ ended[r]
    /\ server' = [server EXCEPT ![r] = "late"]
    /\ raced' = [raced EXCEPT ![r] = handler[r] = "header"]
    /\ UNCHANGED <<cacheVars, deployed, tokens, handler, ended, wrote, header, body>>

\* ctx.Done(): wroteHeader is read without a lock.  Once it is set, the
\* middleware returns, be the reply complete or not.
TimeUp(r) ==
    /\ server[r] = "waiting" /\ ended[r]
    /\ server' = [server EXCEPT ![r] = IF wrote[r] THEN "answered" ELSE "late"]
    /\ raced' = [raced EXCEPT ![r] = handler[r] = "header"]
    /\ UNCHANGED <<cacheVars, deployed, tokens, handler, ended, wrote, header, body>>

\* Of two WriteHeader calls net/http takes the first and ignores the other.
FirstHeader(r, who) == header' = [header EXCEPT ![r] = IF @ = "none" THEN who ELSE @]

WriteTimeout(r) ==
    /\ server[r] = "late"
    /\ server' = [server EXCEPT ![r] = "answered"]
    /\ FirstHeader(r, "timeout")
    /\ body' = [body EXCEPT ![r] = @ \union {"timeout"}]
    /\ UNCHANGED <<cacheVars, deployed, tokens, handler, ended, wrote, raced>>

\* The handler has returned: done is ready.  The deferred cancel ends the context.
Completed(r) ==
    /\ server[r] = "waiting" /\ handler[r] = "none"
    /\ server' = [server EXCEPT ![r] = "answered"]
    /\ ended' = [ended EXCEPT ![r] = TRUE]
    /\ UNCHANGED <<cacheVars, deployed, tokens, handler, wrote, header, body, raced>>

\* Both goroutines are gone; the place is free for another request.
Leave(r) ==
    /\ server[r] = "answered" /\ handler[r] = "none"
    /\ server' = [server EXCEPT ![r] = "idle"]
    /\ ended' = [ended EXCEPT ![r] = FALSE]
    /\ wrote' = [wrote EXCEPT ![r] = FALSE]
    /\ header' = [header EXCEPT ![r] = "none"]
    /\ body' = [body EXCEPT ![r] = {}]
    /\ raced' = [raced EXCEPT ![r] = FALSE]
    /\ UNCHANGED <<cacheVars, deployed, tokens, handler>>

-----------------------------------------------------------------------------
(* The goroutine of the handler: rate_limit.go first.                      *)

GoesTo(r, place) ==
    /\ handler' = [handler EXCEPT ![r] = place]
    /\ UNCHANGED <<server, ended, wrote, header, body, raced>>

CountLimit == 2 * Burst

\* checkCentralizedLimit increments; the request that finds the counter at 1
\* will set its expiry.
Count(r) ==
    /\ handler[r] = "limit"
    /\ items' = Increment(Counter, CountLimit + 1)
    /\ GoesTo(r, IF items'[Counter].value = 1 THEN "first"
                 ELSE IF items'[Counter].value > CountLimit THEN "reply" ELSE "local")
    /\ UNCHANGED <<version, flight, read, deliveries, invalidated, since, deployed, tokens>>

ExpireCounter(r) ==
    /\ handler[r] = "first"
    /\ items' = Expire(Counter)
    /\ GoesTo(r, "local")
    /\ UNCHANGED <<version, flight, read, deliveries, invalidated, since, deployed, tokens>>

\* limiter.Allow(); a refused request is answered with 429.
Allow(r) ==
    /\ handler[r] = "local"
    /\ IF tokens > 0 THEN tokens' = tokens - 1 /\ GoesTo(r, "handle")
       ELSE UNCHANGED tokens /\ GoesTo(r, "reply")
    /\ UNCHANGED <<cacheVars, deployed>>

\* Tokens come back with time; CleanupExpired forgets a limiter that was idle
\* for so long that its bucket is full again.
Refill ==
    /\ tokens < Burst
    /\ tokens' = tokens + 1
    /\ UNCHANGED <<cacheVars, deployed, server, handler, ended, wrote, header, body, raced>>

Handle(r) ==
    /\ handler[r] = "handle"
    /\ IF deployed.cached THEN (BeginRead(r) \/ Write(r)) /\ GoesTo(r, "call")
       ELSE UNCHANGED cacheVars /\ GoesTo(r, "reply")
    /\ UNCHANGED <<deployed, tokens>>

ReadStep(r) == (Hit(r) \/ Miss(r) \/ Do(r)) /\ UNCHANGED pathVars

\* The leader of the flight runs the loader and stores what it got.
Lead ==
    /\ flight # NoFlight
    /\ Load(ended[flight.leader]) \/ Store \/ Finish
    /\ UNCHANGED pathVars

\* GetOrLoadProto returned, or the event of the write is published.
Return(r) ==
    /\ handler[r] = "call"
    /\ \/ read[r].place \in {"value", "error"}
          /\ since' = [since EXCEPT ![r] = 0]
          /\ UNCHANGED <<version, items, flight, deliveries, invalidated>>
       \/ PublishChange(r)
    /\ read' = [read EXCEPT ![r] = NoRead]
    /\ GoesTo(r, "reply")
    /\ UNCHANGED <<deployed, tokens>>

\* WriteHeader of the timeoutResponseWriter: wroteHeader is set first ...
BeginReply(r) ==
    /\ handler[r] = "reply"
    /\ handler' = [handler EXCEPT ![r] = "header"]
    /\ wrote' = [wrote EXCEPT ![r] = TRUE]
    /\ raced' = [raced EXCEPT ![r] = @ \/ server[r] = "late"]
    /\ UNCHANGED <<cacheVars, deployed, tokens, server, ended, header, body>>

\* ... the header and the body follow.  net/http has finished a response whose
\* middleware returned: what comes later is not part of it.
Reply(r) ==
    /\ handler[r] = "header"
    /\ handler' = [handler EXCEPT ![r] = "end"]
    /\ IF server[r] = "answered" THEN UNCHANGED <<header, body>>
       ELSE FirstHeader(r, "handler") /\ body' = [body EXCEPT ![r] = @ \union {"handler"}]
    /\ UNCHANGED <<cacheVars, deployed, tokens, server, ended, wrote, raced>>

\* The handler returns and done <- true finds room: the goroutine ends, whether
\* anybody still waits for it or not.
HandlerEnds(r) ==
    /\ handler[r] = "end"
    /\ GoesTo(r, "none")
    /\ UNCHANGED <<cacheVars, deployed, tokens>>

\* A panic in that goroutine is recovered by nobody: the process ends, and a
\* new one starts with empty memory.
HandlerPanics(r) ==
    /\ handler[r] \in {"handle", "call"}
    /\ UNCHANGED <<version, deployed>>
    /\ items' = [k \in Key |-> Missing]
    /\ flight' = NoFlight
    /\ read' = [q \in Request |-> NoRead]
    /\ deliveries' = {} /\ invalidated' = 0
    /\ since' = [q \in Request |-> 0]
    /\ tokens' = Burst
    /\ server' = [q \in Request |-> "idle"]
    /\ handler' = [q \in Request |-> "none"]
    /\ ended' = [q \in Request |-> FALSE]
    /\ wrote' = [q \in Request |-> FALSE]
    /\ header' = [q \in Request |-> "none"]
    /\ body' = [q \in Request |-> {}]
    /\ raced' = [q \in Request |-> FALSE]

-----------------------------------------------------------------------------

Timeout(r) == TimeUp(r) \/ WriteTimeout(r) \/ Completed(r)

Handler(r) ==
    \/ Count(r) \/ ExpireCounter(r) \/ Allow(r) \/ Handle(r)
    \/ ReadStep(r) \/ Return(r)
    \/ BeginReply(r) \/ Reply(r) \/ HandlerEnds(r)

Elsewhere == (\E k \in Key : TimePasses(k)) \/ DeleteExpired
Deliver == \E v \in deliveries : Invalidate(v)

Next ==
    \/ \E r \in Request : Arrive(r) \/ EndContext(r) \/ Timeout(r) \/ Leave(r)
                          \/ Handler(r) \/ HandlerPanics(r)
    \/ Lead
    \/ Refill
    \/ (Elsewhere \/ Deliver) /\ UNCHANGED pathVars

\* Goroutines that can run do, deadlines and expiry times come.  Nobody has to
\* send requests, and the cleanup need not run.
Fairness ==
    /\ \A r \in Request : WF_vars(EndContext(r)) /\ WF_vars(Timeout(r)) /\ WF_vars(Handler(r))
    /\ WF_vars(Lead)
    /\ WF_vars(Deliver /\ UNCHANGED pathVars)
    /\ \A k \in Key : WF_vars(TimePasses(k) /\ UNCHANGED pathVars)

Spec == Init /\ [][Next]_vars
FairSpec == Spec /\ Fairness

-----------------------------------------------------------------------------
(* Properties.                                                             *)

\* Once a write has been invalidated, what is cached, and what a call that
\* begins afterwards returns, is at least as new: with the one exception of a
\* load that read before the invalidation and stored or returned after it.
InvalidationHolds ==
    /\ Live(Data) => items[Data].value >= invalidated \/ items[Data].overtaken
    /\ \A r \in Request :
          read[r].place = "value" => read[r].value >= since[r] \/ read[r].overtaken

\* That exception is temporary if entries expire: no item stays in the cache
\* that is older than the data.
StalenessEnds ==
    (Live(Data) /\ items[Data].value < version) ~>
        ~(Live(Data) /\ items[Data].value < version)

\* A finished answer has one author, who wrote its header and its body, unless
\* the deadline fell between the two statements of the handler's WriteHeader, or
\* the handler replied between those of the middleware.
OneAuthor ==
    \A r \in Request :
        server[r] = "answered" /\ ~raced[r] =>
            header[r] # "none" /\ body[r] = {header[r]}

\* Every request is answered, whatever its handler does, and every goroutine the
\* middleware starts ends, answered or not, sharing the load of another or not.
RequestsEnd ==
    \A r \in Request :
        /\ server[r] = "waiting" ~> server[r] # "waiting"
        /\ handler[r] # "none" ~> handler[r] = "none"

\* An address over the central limit is not refused for ever: its counter gets
\* an expiry, in whatever order requests increment it.
BlockIsTemporary ==
    LET Blocked == Live(Counter) /\ items[Counter].value > CountLimit
    IN  Blocked ~> ~Blocked

\* What the cache keeps is not kept for ever: see StalenessEnds, BlockIsTemporary.
KeptForAWhile == StalenessEnds /\ BlockIsTemporary
=============================================================================
