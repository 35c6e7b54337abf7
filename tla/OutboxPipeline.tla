--------------------------- MODULE OutboxPipeline ---------------------------
(***************************************************************************)
(* The delivery pipeline of the server binary: a business transaction      *)
(* stores an event in the outbox table (internal/outbox), the publisher    *)
(* goroutine of some instance copies it to that instance's in-memory task  *)
(* queue (internal/queue, fallback build), the queue server relays it to   *)
(* the event bus (modules/auth/module.go) and the bus runs the subscriber  *)
(* in a goroutine of its own.  The table is shared by the instances and    *)
(* survives them; everything else lives and dies with one process.         *)
(***************************************************************************)
EXTENDS Naturals, Sequences, FiniteSets

CONSTANTS
    Server,      \* instances of cmd/server that share the database
    Event,       \* the events the business transactions try to store
    Malformed,   \* events whose payload is no JSON object
    Unrouted,    \* events whose name has no handler on the queue server
    BatchSize,   \* Publisher.batchSize
    QueueCap,    \* capacity of taskChan
    FaultKind,   \* the faults the environment may inject
    MaxFaults    \* bound: how many faults in all

ASSUME MalformedAssumption == Malformed \subseteq Event
ASSUME UnroutedAssumption == Unrouted \subseteq Event
ASSUME EventAssumption == IsFiniteSet(Event)
ASSUME BatchSizeAssumption == BatchSize \in Nat \ {0}
ASSUME QueueCapAssumption == QueueCap \in Nat
ASSUME FaultAssumption ==
    /\ FaultKind \subseteq {"restart", "mark", "handler"}
    /\ MaxFaults \in Nat

VARIABLES
    \* the database
    row,          \* state of the event's transaction and outbox row
    createdAt,    \* created_at of the row: NOW() is the transaction's start
    \* one process each
    phase,        \* of the process: "down", "up" or "stopping"
    batch,        \* entries of the current Process call not yet visited
    publishedIDs, \* entries of the current Process call already published
    taskChan,     \* the in-memory queue
    loop,         \* is the queue server's worker loop running?
    running,      \* tasks whose queue handler (the relay) runs
    spawned,      \* tasks whose event is with a goroutine of the bus
    \* history, read by no action of the code
    attempts,     \* how often the instance handed the event to its queue client
    interrupted,  \* how often a Process call of the instance ended unmarked
    delivered,    \* events some subscriber handled without an error
    dropped,      \* the ways copies of the event were discarded
    faults        \* faults injected so far

dbVars == <<row, createdAt>>
publisherVars == <<batch, publishedIDs, attempts, interrupted>>
queueVars == <<taskChan, loop, running, spawned>>
outcomeVars == <<delivered, dropped>>
vars == <<dbVars, phase, publisherVars, queueVars, outcomeVars, faults>>

Row == {"none", "open", "aborted", "unpublished", "published"}
Reason == {"full", "unrouted", "restart", "handler"}
Task == [event : Event, copy : Nat]

TypeOK ==
    /\ row \in [Event -> Row]
    /\ createdAt \in [Event -> Nat]
    /\ phase \in [Server -> {"down", "up", "stopping"}]
    /\ batch \in [Server -> SUBSET Event]
    /\ publishedIDs \in [Server -> SUBSET Event]
    /\ taskChan \in [Server -> Seq(Task)]
    /\ loop \in [Server -> BOOLEAN]
    /\ running \in [Server -> SUBSET Task]
    /\ spawned \in [Server -> SUBSET Task]
    /\ attempts \in [Server -> [Event -> Nat]]
    /\ interrupted \in [Server -> Nat]
    /\ delivered \in SUBSET Event
    /\ dropped \in [Event -> SUBSET Reason]
    /\ faults \in Nat

Init ==
    /\ row = [e \in Event |-> "none"]
    /\ createdAt = [e \in Event |-> 0]
    /\ phase = [s \in Server |-> "down"]
    /\ batch = [s \in Server |-> {}]
    /\ publishedIDs = [s \in Server |-> {}]
    /\ taskChan = [s \in Server |-> <<>>]
    /\ loop = [s \in Server |-> FALSE]
    /\ running = [s \in Server |-> {}]
    /\ spawned = [s \in Server |-> {}]
    /\ attempts = [s \in Server |-> [e \in Event |-> 0]]
    /\ interrupted = [s \in Server |-> 0]
    /\ delivered = {}
    /\ dropped = [e \in Event |-> {}]
    /\ faults = 0

-----------------------------------------------------------------------------
(* The business transaction.                                               *)

Begin(e) ==
    /\ row[e] = "none"
    /\ row' = [row EXCEPT ![e] = "open"]
    /\ createdAt' = [createdAt EXCEPT
                        ![e] = 1 + Cardinality({f \in Event : row[f] # "none"})]
    /\ UNCHANGED <<phase, publisherVars, queueVars, outcomeVars, faults>>

\* Store inserts the row inside the caller's transaction: the commit makes the
\* business change and the row visible together.
Commit(e) ==
    /\ row[e] = "open"
    /\ row' = [row EXCEPT ![e] = "unpublished"]
    /\ UNCHANGED <<createdAt, phase, publisherVars, queueVars, outcomeVars, faults>>

\* A failing Store (two rows of one nanosecond share an id) or any later
\* failure rolls the whole transaction back.
Abort(e) ==
    /\ row[e] = "open"
    /\ row' = [row EXCEPT ![e] = "aborted"]
    /\ UNCHANGED <<createdAt, phase, publisherVars, queueVars, outcomeVars, faults>>

-----------------------------------------------------------------------------
(* The publisher goroutine of one instance.                                *)

\* Mutant: the row is inserted outside the transaction and seen before it ends.
Unpublished_DirtyRead == {e \in Event : row[e] \in {"open", "unpublished"}}

Unpublished == {e \in Event : row[e] = "unpublished"}

\* Mutant: the limit is off by one.
GetUnpublished_LimitOffByOne ==
    {e \in Unpublished :
        Cardinality({f \in Unpublished : createdAt[f] < createdAt[e]}) < BatchSize - 1}

\* ORDER BY created_at ASC LIMIT batchSize.
GetUnpublished ==
    {e \in Unpublished :
        Cardinality({f \in Unpublished : createdAt[f] < createdAt[e]}) < BatchSize}

\* A tick of the poll timer starts Process.  A failing query, and any query
\* after the context was cancelled, changes nothing.
Poll(s) ==
    /\ phase[s] = "up"
    /\ batch[s] = {} /\ publishedIDs[s] = {}
    /\ GetUnpublished # {}
    /\ batch' = [batch EXCEPT ![s] = GetUnpublished]
    /\ UNCHANGED <<dbVars, phase, publishedIDs, attempts, interrupted, queueVars,
                   outcomeVars, faults>>

IsNext(s, e) ==
    /\ e \in batch[s]
    /\ \A f \in batch[s] : createdAt[e] <= createdAt[f]

\* json.Unmarshal fails: the loop continues with the next entry, and this one
\* stays unpublished.
SkipMalformed(s, e) ==
    /\ IsNext(s, e)
    /\ e \in Malformed
    /\ batch' = [batch EXCEPT ![s] = @ \ {e}]
    /\ UNCHANGED <<dbVars, phase, publishedIDs, attempts, interrupted, queueVars,
                   outcomeVars, faults>>

\* The select of Enqueue takes its default case.
QueueFull(s) == Len(taskChan[s]) >= QueueCap

\* The publisher function enqueues a task.  It has no result: when the queue
\* is full it logs the error, and the entry counts as published all the same.
Publish(s, e) ==
    /\ IsNext(s, e)
    /\ e \notin Malformed
    /\ batch' = [batch EXCEPT ![s] = @ \ {e}]
    /\ publishedIDs' = [publishedIDs EXCEPT ![s] = @ \union {e}]
    /\ attempts' = [attempts EXCEPT ![s][e] = @ + 1]
    /\ \/ /\ ~QueueFull(s)
          /\ taskChan' = [taskChan EXCEPT
                ![s] = Append(@, [event |-> e, copy |-> attempts[s][e]])]
          /\ UNCHANGED dropped
       \/ /\ QueueFull(s)
          /\ dropped' = [dropped EXCEPT ![e] = @ \union {"full"}]
          /\ UNCHANGED taskChan
    /\ UNCHANGED <<dbVars, phase, interrupted, loop, running, spawned, delivered, faults>>

ReadyToMark(s) == batch[s] = {} /\ publishedIDs[s] # {}

\* Mutant: the update marks whatever is unpublished instead of the given ids.
MarkPublished_Everything(s) ==
    /\ phase[s] = "up"
    /\ ReadyToMark(s)
    /\ row' = [e \in Event |-> IF e \in Unpublished THEN "published" ELSE row[e]]
    /\ publishedIDs' = [publishedIDs EXCEPT ![s] = {}]
    /\ UNCHANGED <<createdAt, phase, batch, attempts, interrupted, queueVars,
                   outcomeVars, faults>>

\* Mutant: WHERE id = $1 takes one id of the batch.
MarkPublished_OneId(s) ==
    /\ phase[s] = "up"
    /\ ReadyToMark(s)
    /\ \E e \in publishedIDs[s] : row' = [row EXCEPT ![e] = "published"]
    /\ publishedIDs' = [publishedIDs EXCEPT ![s] = {}]
    /\ UNCHANGED <<createdAt, phase, batch, attempts, interrupted, queueVars,
                   outcomeVars, faults>>

MarkPublished(s) ==
    /\ phase[s] = "up"
    /\ ReadyToMark(s)
    /\ row' = [e \in Event |-> IF e \in publishedIDs[s] THEN "published" ELSE row[e]]
    /\ publishedIDs' = [publishedIDs EXCEPT ![s] = {}]
    /\ UNCHANGED <<createdAt, phase, batch, attempts, interrupted, queueVars,
                   outcomeVars, faults>>

\* The update fails: always once shutdown has cancelled the context, by a
\* fault of the database before.  Process returns, the rows stay unpublished.
MarkFails(s) ==
    /\ ReadyToMark(s)
    /\ \/ phase[s] = "stopping" /\ UNCHANGED faults
       \/ /\ phase[s] = "up"
          /\ "mark" \in FaultKind /\ faults < MaxFaults
          /\ faults' = faults + 1
    /\ publishedIDs' = [publishedIDs EXCEPT ![s] = {}]
    /\ interrupted' = [interrupted EXCEPT ![s] = @ + 1]
    /\ UNCHANGED <<dbVars, phase, batch, attempts, queueVars, outcomeVars>>

-----------------------------------------------------------------------------
(* The queue server, the relay it runs and the bus handler that follows.   *)

\* Mutant: the worker loop starts before any handler is registered.
HasHandler_NotYet(t) == FALSE

\* handlers[task.Type()] of the queue server.
HasHandler(t) == t.event \notin Unrouted

\* The worker loop takes one task and starts its handler; a task type without
\* a handler is logged and forgotten.
Dequeue(s) ==
    /\ loop[s]
    /\ taskChan[s] # <<>>
    /\ taskChan' = [taskChan EXCEPT ![s] = Tail(@)]
    /\ LET t == Head(taskChan[s])
       IN  IF HasHandler(t)
           THEN /\ running' = [running EXCEPT ![s] = @ \union {t}]
                /\ UNCHANGED dropped
           ELSE /\ dropped' = [dropped EXCEPT ![t.event] = @ \union {"unrouted"}]
                /\ UNCHANGED running
    /\ UNCHANGED <<dbVars, phase, publisherVars, loop, spawned, delivered, faults>>

\* The relay calls bus.Publish, which starts a goroutine and returns.
Relay(s) ==
    \E t \in running[s] :
        /\ running' = [running EXCEPT ![s] = @ \ {t}]
        /\ spawned' = [spawned EXCEPT ![s] = @ \union {t}]
        /\ UNCHANGED <<dbVars, phase, publisherVars, taskChan, loop, outcomeVars, faults>>

\* The subscriber returns.  Its error goes to the bus's error handler, which
\* logs it; nobody retries.
Handle(s) ==
    \E t \in spawned[s] :
        /\ spawned' = [spawned EXCEPT ![s] = @ \ {t}]
        /\ \/ /\ delivered' = delivered \union {t.event}
              /\ UNCHANGED <<dropped, faults>>
           \/ /\ "handler" \in FaultKind /\ faults < MaxFaults
              /\ faults' = faults + 1
              /\ dropped' = [dropped EXCEPT ![t.event] = @ \union {"handler"}]
              /\ UNCHANGED delivered
        /\ UNCHANGED <<dbVars, phase, publisherVars, taskChan, loop, running>>

-----------------------------------------------------------------------------
(* The life of one process.                                                *)

Boot(s) ==
    /\ phase[s] = "down"
    /\ phase' = [phase EXCEPT ![s] = "up"]
    /\ loop' = [loop EXCEPT ![s] = TRUE]
    /\ UNCHANGED <<dbVars, publisherVars, taskChan, running, spawned, outcomeVars, faults>>

\* The signal cancels the context and runServer calls the queue server's
\* Shutdown, which closes its stop channel.
BeginShutdown(s) ==
    /\ phase[s] = "up"
    /\ "restart" \in FaultKind /\ faults < MaxFaults
    /\ faults' = faults + 1
    /\ phase' = [phase EXCEPT ![s] = "stopping"]
    /\ UNCHANGED <<dbVars, publisherVars, queueVars, outcomeVars>>

\* The select of the worker loop picks the closed stop channel; a task that is
\* ready as well may have been picked any number of times before.
LoopStops(s) ==
    /\ phase[s] = "stopping"
    /\ loop[s]
    /\ loop' = [loop EXCEPT ![s] = FALSE]
    /\ UNCHANGED <<dbVars, phase, publisherVars, taskChan, running, spawned,
                   outcomeVars, faults>>

ToTasks(q) == {q[i] : i \in DOMAIN q}
InMemory(s) == ToTasks(taskChan[s]) \union running[s] \union spawned[s]

\* The end of a process discards what only its memory held.
Die(s) ==
    /\ phase' = [phase EXCEPT ![s] = "down"]
    /\ loop' = [loop EXCEPT ![s] = FALSE]
    /\ batch' = [batch EXCEPT ![s] = {}]
    /\ publishedIDs' = [publishedIDs EXCEPT ![s] = {}]
    /\ interrupted' = [interrupted EXCEPT ![s] = @ + 1]
    /\ taskChan' = [taskChan EXCEPT ![s] = <<>>]
    /\ running' = [running EXCEPT ![s] = {}]
    /\ spawned' = [spawned EXCEPT ![s] = {}]
    /\ dropped' = [e \in Event |->
                     IF \E t \in InMemory(s) : t.event = e
                     THEN dropped[e] \union {"restart"} ELSE dropped[e]]
    /\ UNCHANGED <<dbVars, attempts, delivered>>

\* Shutdown waits for the worker loop and the queue handlers.  Nothing waits
\* for the tasks still queued, the publisher or the goroutines of the bus.
Exit(s) ==
    /\ phase[s] = "stopping"
    /\ ~loop[s]
    /\ running[s] = {}
    /\ Die(s)
    /\ UNCHANGED faults

Crash(s) ==
    /\ phase[s] # "down"
    /\ "restart" \in FaultKind /\ faults < MaxFaults
    /\ faults' = faults + 1
    /\ Die(s)

-----------------------------------------------------------------------------

Transaction(e) == Begin(e) \/ Commit(e) \/ Abort(e)

Process(s) ==
    \/ Poll(s)
    \/ \E e \in Event : SkipMalformed(s, e) \/ Publish(s, e)
    \/ MarkPublished(s)
    \/ MarkFails(s)

Next ==
    \/ \E e \in Event : Transaction(e)
    \/ \E s \in Server :
          \/ Process(s)
          \/ Dequeue(s) \/ Relay(s) \/ Handle(s)
          \/ Boot(s) \/ BeginShutdown(s) \/ LoopStops(s) \/ Exit(s) \/ Crash(s)

\* A goroutine that can run runs: the ticker keeps firing, an open transaction
\* ends one way or the other, a random select picks every ready case in the
\* end, and a supervisor restarts a process that is gone.
Fairness ==
    /\ \A e \in Event : WF_vars(Commit(e) \/ Abort(e))
    /\ \A s \in Server :
          /\ WF_vars(Process(s))
          /\ WF_vars(Dequeue(s)) /\ WF_vars(Relay(s)) /\ WF_vars(Handle(s))
          /\ WF_vars(LoopStops(s)) /\ WF_vars(Exit(s)) /\ WF_vars(Boot(s))

Spec == Init /\ [][Next]_vars
FairSpec == Spec /\ Fairness

-----------------------------------------------------------------------------
(* Properties.                                                             *)

InFlight(e) == \E s \in Server : \E t \in InMemory(s) : t.event = e

\* No event of a transaction that is open or was rolled back is ever selected,
\* queued, relayed or handled (Store runs in the caller's transaction).
OnlyCommittedLeave ==
    \A e \in Event :
        row[e] \in {"none", "open", "aborted"} =>
            /\ \A s \in Server : e \notin batch[s] \union publishedIDs[s]
            /\ ~InFlight(e)
            /\ e \notin delivered
            /\ dropped[e] = {}

Accounted(e) == InFlight(e) \/ e \in delivered \/ dropped[e] # {}

\* A row that is marked published belongs to an event that is still in some
\* process's memory, was handled, or had a copy dropped in one of the known
\* ways; no entry is marked without having been handed over.
PublishedIsAccountedFor ==
    \A e \in Event :
        row[e] = "published" => Accounted(e)

\* An instance hands one event to its queue at most once more than its Process
\* calls were interrupted before the mark: a polling instance never publishes
\* twice what it managed to mark, whatever the other instances do.
RepublishOnlyAfterInterruption ==
    \A s \in Server, e \in Event : attempts[s][e] <= interrupted[s] + 1

\* What makes the last two inductive.  The ids a Process call has collected are
\* accounted for before they are marked; an entry that a call has still to
\* visit, or that is not marked at all, costs an interruption for each attempt.
CollectedIsAccountedFor ==
    \A s \in Server : \A e \in publishedIDs[s] : Accounted(e)

AttemptsBeforeVisit ==
    \A s \in Server, e \in Event :
        /\ e \notin batch[s] \/ e \notin publishedIDs[s]
        /\ e \notin publishedIDs[s] /\ (row[e] # "published" \/ e \in batch[s])
              => attempts[s][e] <= interrupted[s]

\* Every committed event with a well-formed payload is marked in the end.
EventuallyPublished ==
    \A e \in Event \ Malformed : row[e] = "unpublished" ~> row[e] = "published"

\* The reasons that excuse an event for which a handler was registered.
Lost(e) == dropped[e] \intersect (IF e \in Unrouted THEN Reason ELSE Reason \ {"unrouted"})

\* The abstract promise about the well-formed events (a malformed one is never
\* published): delivery of committed events only, each of them delivered or lost
\* in the end, and lost to a full queue, a fault or for want of a handler alone.
Promise == INSTANCE CommittedDelivery WITH
    Event <- Event \ Malformed,
    committed <- {e \in Event \ Malformed : row[e] \in {"unpublished", "published"}},
    dropped <- {e \in Event : Lost(e) # {}}

ImplementsPromise == Promise!Spec
=============================================================================
