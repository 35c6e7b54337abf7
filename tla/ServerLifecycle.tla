-------------------------- MODULE ServerLifecycle --------------------------
(***************************************************************************)
(* cmd/server, cmd/worker and cmd/auth from the first line of main to the  *)
(* exit: the main goroutine opens resources, runs the hooks of the modules *)
(* and starts servers one after another, waits for a signal, and takes it  *)
(* all down; the servers, the task queue and the outbox publisher are      *)
(* goroutines that have their own pace, and requests arrive meanwhile.     *)
(***************************************************************************)
EXTENDS Integers, Sequences, SequencesExt

CONSTANTS
    NumModules,       \* modules in the registry, in the order of registration
    Request,          \* HTTP requests and direct RPCs
    MaxTasks          \* bound: queue tasks that are started

ASSUME ModulesAssumption == NumModules \in Nat \ {0}
ASSUME TasksAssumption == MaxTasks \in Nat

VARIABLES
    binary,           \* which main runs
    at,               \* the step the main goroutine is at
    progress,         \* the modules it has been through in this step
    hooks,            \* the OnStart and OnStop calls that were made
    ctxDone,          \* the context of signal.NotifyContext is done
    db,               \* the connection pool
    http, grpc,       \* the servers
    queue,            \* the worker goroutine of the queue server
    stopRequested,    \* Shutdown has closed the channel stop
    tasks,            \* task handlers that are running
    dispatched,       \* tasks started so far
    publisher,        \* the goroutine of the outbox publisher
    req,              \* how far each request is
    incidents         \* history: what went wrong

vars == <<binary, at, progress, hooks, ctxDone, db, http, grpc, queue, stopRequested,
          tasks, dispatched, publisher, req, incidents>>

main == <<at, progress>>
servers == <<http, grpc>>
background == <<queue, stopRequested, tasks, dispatched, publisher>>

\* What each main does, in steps, deferred calls included.
InitializeServices == <<"observability", "database">>

\* The listener and the gateway come before the servers, which are goroutines.
AndStartServers == <<"listen", "startHTTP", "startGRPC">>

\* Step 1, "Stop accepting new connections", only logs that it does.
ShutdownServers_GRPCFirst == <<"stopHub", "stopGRPC", "drainGRPC", "stopHTTP", "drainHTTP">>
ShutdownServers == <<"stopHub", "stopHTTP", "drainHTTP", "stopGRPC", "drainGRPC">>

\* OnStop is deferred after the servers have started.
RunServer ==
    <<"onStart">> \o AndStartServers \o <<"serve", "stopQueue", "waitQueue">>
        \o ShutdownServers \o <<"onStop">>

\* "server -migrate" stands for the flags -migrate and -seed.
HandleSpecialFlags(name) == name = "migrate"

ServerMain(name) ==
    InitializeServices \o <<"initialize", "migrate">>
        \o (IF HandleSpecialFlags(name) THEN <<>> ELSE RunServer)
        \o <<"closeDB", "shutdownObs">>

RunWorker == <<"onStart", "serve", "onStop">>

WorkerMain == <<"database", "initialize", "migrate">> \o RunWorker \o <<"closeDB">>

\* Health and metrics are served before the module is initialized.
SetupAndStartServersAuth == <<"startHTTP", "listen", "initialize", "startGRPC">>

ShutdownServersAuth == <<"stopHTTP", "drainHTTP", "stopGRPC", "drainGRPC", "shutdownObs">>

AuthMain ==
    <<"observability", "database", "migrate">> \o SetupAndStartServersAuth \o <<"serve">>
        \o ShutdownServersAuth \o <<"closeDB">>

Program == [server |-> ServerMain("server"), migrate |-> ServerMain("migrate"),
            worker |-> WorkerMain, auth |-> AuthMain]

Exited == at > Len(Program[binary])
At(step) == ~Exited /\ Program[binary][at] = step
Position(step) == CHOOSE n \in DOMAIN Program[binary] : Program[binary][n] = step

Proceed == at' = at + 1 /\ progress' = 0

Init ==
    /\ binary \in {"server", "migrate", "worker", "auth"}
    /\ at = 1
    /\ progress = 0
    /\ hooks = <<>>
    /\ ctxDone = FALSE
    /\ db = "none"
    /\ http = "off" /\ grpc = "off"
    /\ queue = "off"
    /\ stopRequested = FALSE
    /\ tasks = 0 /\ dispatched = 0
    /\ publisher = "off"
    /\ req = [r \in Request |-> "new"]
    /\ incidents = {}

-----------------------------------------------------------------------------
\* The main goroutine.

\* Steps that touch nothing the other goroutines see, as far as this module goes:
\* tracing and metrics, the listener and the gateway, the WebSocket hub.
Passes(step) ==
    /\ At(step)
    /\ Proceed
    /\ UNCHANGED <<binary, hooks, ctxDone, db, servers, background, req, incidents>>

Observability == Passes("observability") \/ Passes("shutdownObs")
Listen == Passes("listen")
StopHub == Passes("stopHub")

OpenDB ==
    /\ At("database")
    /\ db' = "open"
    /\ Proceed
    /\ UNCHANGED <<binary, hooks, ctxDone, servers, background, req, incidents>>

\* One pass of a loop over the modules.
PerModule ==
    IF progress + 1 < NumModules
    THEN progress' = progress + 1 /\ UNCHANGED at
    ELSE Proceed

InitializeAll ==
    /\ At("initialize")
    /\ PerModule
    /\ UNCHANGED <<binary, hooks, ctxDone, db, servers, background, req, incidents>>

RunAll ==
    /\ At("migrate") /\ binary # "auth"
    /\ PerModule
    /\ UNCHANGED <<binary, hooks, ctxDone, db, servers, background, req, incidents>>

\* cmd/auth migrates its one module, before it is registered.
RunMigrationsAuth ==
    /\ binary = "auth"
    /\ Passes("migrate")

OnStart ==
    /\ At("onStart")
    /\ hooks' = Append(hooks, <<"OnStart", progress + 1>>)
    /\ PerModule
    /\ UNCHANGED <<binary, ctxDone, db, servers, background, req, incidents>>

\* A step of the startup fails: main returns and runs what it has deferred so far.
\* Modules that were started are not stopped.  cmd/auth calls shutdownObs itself, and
\* cmd/server forgets it when there is no database.
Unwind ==
    IF binary = "auth" /\ ~At("observability") THEN Position("shutdownObs")
    ELSE IF binary # "auth" /\ db = "open" THEN Position("closeDB")
    ELSE Len(Program[binary]) + 1

StartupFails ==
    /\ \/ At("observability") \/ At("database") \/ At("initialize") \/ At("migrate")
       \/ At("onStart") \/ At("listen")
    /\ at' = Unwind /\ progress' = 0
    /\ incidents' = incidents \union {"startup"}
    /\ UNCHANGED <<binary, hooks, ctxDone, db, servers, background, req>>

StartHTTP ==
    /\ At("startHTTP")
    /\ http' = "starting"
    /\ Proceed
    /\ UNCHANGED <<binary, hooks, ctxDone, db, grpc, background, req, incidents>>

\* The listener has been there since "listen".  cmd/server goes on to start the
\* queue server and the publisher.
StartGRPC ==
    /\ At("startGRPC")
    /\ grpc' = "starting"
    /\ IF binary = "server"
       THEN queue' = "starting" /\ publisher' = "idle"
       ELSE UNCHANGED <<queue, publisher>>
    /\ Proceed
    /\ UNCHANGED <<binary, hooks, ctxDone, db, http, stopRequested, tasks, dispatched, req,
                   incidents>>

AwaitSignal ==
    /\ At("serve") /\ ctxDone
    /\ Proceed
    /\ UNCHANGED <<binary, hooks, ctxDone, db, servers, background, req, incidents>>

\* Shutdown of the queue server: close(stop), then wait for the worker and its
\* tasks, for as long as it takes.
StopQueue_NotClosed ==
    /\ At("stopQueue")
    /\ Proceed
    /\ UNCHANGED <<binary, hooks, ctxDone, db, servers, background, req, incidents>>
StopQueue ==
    /\ At("stopQueue")
    /\ stopRequested' = TRUE
    /\ Proceed
    /\ UNCHANGED <<binary, hooks, ctxDone, db, servers, queue, tasks, dispatched, publisher,
                   req, incidents>>

WaitQueue_WorkerOnly ==
    /\ At("waitQueue")
    /\ queue # "running"
    /\ Proceed
    /\ UNCHANGED <<binary, hooks, ctxDone, db, servers, background, req, incidents>>
WaitQueue ==
    /\ At("waitQueue")
    /\ queue # "running" /\ tasks = 0
    /\ Proceed
    /\ UNCHANGED <<binary, hooks, ctxDone, db, servers, background, req, incidents>>

\* httpServer.Shutdown closes the listener and waits for the requests, up to a
\* deadline.
StopHTTP ==
    /\ At("stopHTTP")
    /\ http' = "closed"
    /\ Proceed
    /\ UNCHANGED <<binary, hooks, ctxDone, db, grpc, background, req, incidents>>

DrainHTTP ==
    /\ At("drainHTTP")
    /\ \/ /\ \A r \in Request : req[r] \notin {"http", "gateway"}
          /\ UNCHANGED incidents
       \/ incidents' = incidents \union {"deadline"}
    /\ Proceed
    /\ UNCHANGED <<binary, hooks, ctxDone, db, servers, background, req>>

\* GracefulStop refuses new RPCs and waits for those that run, without a deadline.
StopGRPC ==
    /\ At("stopGRPC")
    /\ grpc' = "closed"
    /\ Proceed
    /\ UNCHANGED <<binary, hooks, ctxDone, db, http, background, req, incidents>>

Running(r) == req[r] \in {"rpc", "gateway", "abandoned"}

DrainGRPC_ConnectedOnly ==
    /\ At("drainGRPC")
    /\ \A r \in Request : req[r] \notin {"rpc", "gateway"}
    /\ Proceed
    /\ UNCHANGED <<binary, hooks, ctxDone, db, servers, background, req, incidents>>
DrainGRPC ==
    /\ At("drainGRPC")
    /\ \A r \in Request : ~Running(r)
    /\ Proceed
    /\ UNCHANGED <<binary, hooks, ctxDone, db, servers, background, req, incidents>>

\* Every module, in reverse order, whatever the hooks return.
OnStop_SameOrder ==
    /\ At("onStop")
    /\ hooks' = Append(hooks, <<"OnStop", progress + 1>>)
    /\ PerModule
    /\ UNCHANGED <<binary, ctxDone, db, servers, background, req, incidents>>
OnStop ==
    /\ At("onStop")
    /\ hooks' = Append(hooks, <<"OnStop", NumModules - progress>>)
    /\ PerModule
    /\ UNCHANGED <<binary, ctxDone, db, servers, background, req, incidents>>

\* The pool closes when the publisher has given back its connection.
CloseDB ==
    /\ At("closeDB")
    /\ publisher # "busy"
    /\ db' = IF db = "open" THEN "closed" ELSE db
    /\ Proceed
    /\ UNCHANGED <<binary, hooks, ctxDone, servers, background, req, incidents>>

Startup ==
    \/ Observability \/ OpenDB \/ InitializeAll \/ RunAll \/ RunMigrationsAuth
    \/ OnStart \/ Listen \/ StartHTTP \/ StartGRPC

Shutdown ==
    \/ AwaitSignal \/ StopQueue \/ WaitQueue \/ StopHub \/ StopHTTP \/ DrainHTTP
    \/ StopGRPC \/ DrainGRPC \/ OnStop \/ CloseDB

-----------------------------------------------------------------------------
\* The other goroutines, which end with the process.

Signal ==
    /\ ~Exited /\ ~ctxDone
    /\ ctxDone' = TRUE
    /\ UNCHANGED <<binary, main, hooks, db, servers, background, req, incidents>>

\* ListenAndServe.  When the port is taken cmd/auth stops, cmd/server only logs it
\* and goes on with gRPC alone.
ServeHTTP ==
    /\ ~Exited /\ http = "starting"
    /\ \/ http' = "serving" /\ UNCHANGED ctxDone
       \/ http' = "failed" /\ ctxDone' = (ctxDone \/ binary = "auth")
    /\ UNCHANGED <<binary, main, hooks, db, grpc, background, req, incidents>>

ServeGRPC ==
    /\ ~Exited /\ grpc = "starting"
    /\ grpc' = "serving"
    /\ UNCHANGED <<binary, main, hooks, ctxDone, db, http, background, req, incidents>>

\* Serve returns an error, which cancels the context; connections that exist live on.
ServeGRPCFails ==
    /\ ~Exited /\ grpc \in {"starting", "serving"}
    /\ grpc' = "failed"
    /\ ctxDone' = TRUE
    /\ incidents' = incidents \union {"grpc"}
    /\ UNCHANGED <<binary, main, hooks, db, http, background, req>>

\* The goroutine of Start may come after Shutdown has closed stop and found nothing
\* to wait for.
StartQueue ==
    /\ ~Exited /\ queue = "starting"
    /\ queue' = "running"
    /\ incidents' = IF stopRequested THEN incidents \union {"lateQueue"} ELSE incidents
    /\ UNCHANGED <<binary, main, hooks, ctxDone, db, servers, stopRequested, tasks,
                   dispatched, publisher, req>>

\* select chooses among stop and the next task as it likes.
Dispatch ==
    /\ ~Exited /\ queue = "running" /\ dispatched < MaxTasks
    /\ tasks' = tasks + 1
    /\ dispatched' = dispatched + 1
    /\ UNCHANGED <<binary, main, hooks, ctxDone, db, servers, queue, stopRequested,
                   publisher, req, incidents>>

WorkerStops ==
    /\ ~Exited /\ queue = "running" /\ stopRequested
    /\ queue' = "ended"
    /\ UNCHANGED <<binary, main, hooks, ctxDone, db, servers, stopRequested, tasks,
                   dispatched, publisher, req, incidents>>

TaskEnds ==
    /\ ~Exited /\ tasks > 0
    /\ tasks' = tasks - 1
    /\ UNCHANGED <<binary, main, hooks, ctxDone, db, servers, queue, stopRequested,
                   dispatched, publisher, req, incidents>>

\* A poll that begins when the context is done gets no connection.
PublisherPolls ==
    /\ ~Exited /\ publisher = "idle" /\ ~ctxDone
    /\ publisher' = "busy"
    /\ UNCHANGED <<binary, main, hooks, ctxDone, db, servers, queue, stopRequested, tasks,
                   dispatched, req, incidents>>

PublisherRests ==
    /\ ~Exited
    /\ \/ publisher = "busy" /\ publisher' = "idle"
       \/ publisher = "idle" /\ ctxDone /\ publisher' = "ended"
    /\ UNCHANGED <<binary, main, hooks, ctxDone, db, servers, queue, stopRequested, tasks,
                   dispatched, req, incidents>>

-----------------------------------------------------------------------------
\* Requests.

Becomes(r, s) ==
    /\ ~Exited
    /\ req' = [req EXCEPT ![r] = s]
    /\ UNCHANGED <<binary, main, hooks, ctxDone, db, servers, background, incidents>>

HTTPArrives(r) == req[r] = "new" /\ http = "serving" /\ Becomes(r, "http")
RPCArrives(r) == req[r] = "new" /\ grpc = "serving" /\ Becomes(r, "rpc")

\* A health check, a page, a rejection or a timeout.
HTTPEnds(r) == req[r] = "http" /\ Becomes(r, "done")

\* The gateway of cmd/server calls the gRPC server of its own process: it waits for
\* a listener nobody serves yet, and is refused by one that was closed.
CallsGateway(r) ==
    /\ req[r] = "http" /\ binary = "server"
    /\ \/ grpc \in {"serving", "failed"} /\ Becomes(r, "gateway")
       \/ grpc \in {"failed", "closed"} /\ Becomes(r, "refused")

\* The timeout middleware answers 504, and the RPC goes on without it.
TimesOut(r) == req[r] = "gateway" /\ Becomes(r, "abandoned")

RPCEnds(r) == Running(r) /\ Becomes(r, "done")

Arrives(r) == HTTPArrives(r) \/ RPCArrives(r)
Handled(r) == HTTPEnds(r) \/ CallsGateway(r) \/ TimesOut(r) \/ RPCEnds(r)

Main == Startup \/ StartupFails \/ Shutdown
Finished == Exited /\ UNCHANGED vars

Next ==
    \/ Main
    \/ Signal \/ ServeHTTP \/ ServeGRPC \/ ServeGRPCFails
    \/ StartQueue \/ Dispatch \/ WorkerStops \/ TaskEnds
    \/ PublisherPolls \/ PublisherRests
    \/ \E r \in Request : Arrives(r) \/ Handled(r)
    \/ Finished

\* The scheduler runs every goroutine that can run, and every handler of a request
\* or a task returns after a while.
Fairness ==
    /\ WF_vars(Main)
    /\ WF_vars(WorkerStops) /\ WF_vars(TaskEnds) /\ WF_vars(PublisherRests)
    /\ \A r \in Request : WF_vars(RPCEnds(r))

Spec == Init /\ [][Next]_vars /\ Fairness

-----------------------------------------------------------------------------

Starts == [m \in 1..NumModules |-> <<"OnStart", m>>]
Stops == [m \in 1..NumModules |-> <<"OnStop", NumModules + 1 - m>>]

TypeOK ==
    /\ binary \in DOMAIN Program
    /\ at \in 1..(Len(Program[binary]) + 1)
    /\ progress \in 0..(NumModules - 1)
    /\ hooks \in Seq({"OnStart", "OnStop"} \X (1..NumModules))
    /\ ctxDone \in BOOLEAN
    /\ db \in {"none", "open", "closed"}
    /\ http \in {"off", "starting", "serving", "failed", "closed"}
    /\ grpc \in {"off", "starting", "serving", "failed", "closed"}
    /\ queue \in {"off", "starting", "running", "ended"}
    /\ stopRequested \in BOOLEAN
    /\ dispatched \in 0..MaxTasks /\ tasks \in 0..dispatched
    /\ publisher \in {"off", "idle", "busy", "ended"}
    /\ req \in [Request -> {"new", "http", "rpc", "gateway", "abandoned", "refused", "done"}]
    /\ incidents \subseteq {"startup", "deadline", "grpc", "lateQueue"}

\* An RPC runs only over an open database and modules that are started and not yet
\* stopped, even if the HTTP request it belongs to was answered long ago.
WorkHasResources ==
    \A r \in Request : Running(r) =>
        /\ db = "open"
        /\ hooks = IF binary = "auth" THEN <<>> ELSE Starts

\* A request the HTTP server accepted is never refused by a gRPC server that went
\* away before it: unless Serve failed, or the drain of HTTP met its deadline.
AcceptedIsServed ==
    \A r \in Request :
        req[r] = "refused" => incidents \intersect {"grpc", "deadline"} # {}

\* Once the queue was shut down no task runs beside the servers' shutdown, the hooks
\* and the closing of the database, unless the worker only started after that.
QuietAfterQueueStop ==
    (binary = "server" /\ at > Position("waitQueue") /\ tasks > 0) =>
        "lateQueue" \in incidents

\* OnStart runs in the order of registration, OnStop in reverse, each once; a process
\* that got through its startup does not exit with a module that was not stopped.
HooksArePaired ==
    /\ IsPrefix(hooks, Starts \o Stops)
    /\ Exited /\ incidents \intersect {"startup"} = {} /\ hooks # <<>> =>
          hooks = Starts \o Stops

\* After a signal, or an error that cancels the context, the process exits, through
\* every wait of the shutdown.
ExitsWhenTold == ctxDone ~> Exited
=============================================================================
