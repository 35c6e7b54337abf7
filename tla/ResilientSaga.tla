--------------------------- MODULE ResilientSaga ---------------------------
(***************************************************************************)
(* internal/saga/saga.go over internal/resilience/retry.go over the        *)
(* breaker: clients run sagas whose steps, and whose compensations, are    *)
(* calls of one remote service, each as docs/MODULE_COMMUNICATION.md makes *)
(* it: Retry(ctx, ..., IsRetryable) around CircuitBreaker.Execute.  Other  *)
(* callers share the breaker.  A reply may be lost after the service did   *)
(* what it was asked.                                                      *)
(***************************************************************************)
EXTENDS CircuitBreaker

CONSTANTS
    Client,        \* the callers that run sagas, one after the other
    NumSteps,      \* steps of a saga, in the order in which they were added
    Compensable,   \* those with a Compensate function
    MaxAttempts    \* of RetryConfig

Step == 1..NumSteps

ASSUME ClientAssumption == Client \subseteq Caller
ASSUME StepsAssumption == NumSteps \in Nat \ {0} /\ Compensable \subseteq Step
ASSUME AttemptsAssumption == MaxAttempts \in Nat \ {0}

VARIABLES
    saga,        \* per client: the place Execute and the Retry under it have reached
    cancelled,   \* per client: has the context it passed down ended?
    effects,     \* per client: the steps in force at the service
    unacknowledged \* history: steps that took effect although they were reported failed

sagaVars == <<saga, cancelled, effects, unacknowledged>>
allVars == <<vars, sagaVars>>

\* step is the one that executes or is compensated, attempt the loop variable of
\* Retry, waiting its sleep; failing is lastErr of compensate.
Fresh == [phase |-> "forward", step |-> 1, attempt |-> 0, waiting |-> FALSE, failing |-> FALSE]

Running(c) == saga[c].phase \in {"forward", "compensate"}

SagaInit ==
    /\ Init
    /\ saga = [c \in Client |-> Fresh]
    /\ cancelled = [c \in Client |-> FALSE]
    /\ effects = [c \in Client |-> {}]
    /\ unacknowledged = [c \in Client |-> {}]

-----------------------------------------------------------------------------
(* saga.go.                                                                *)

\* Mutant: the loop ends before the first step.
Compensating_SkipsFirst(s, below, failing) ==
    LET todo == {i \in Compensable : 1 < i /\ i < below}
    IN  IF todo = {} THEN [s EXCEPT !.phase = IF failing THEN "torn" ELSE "failed"]
        ELSE [Fresh EXCEPT !.phase = "compensate", !.failing = failing,
                           !.step = CHOOSE i \in todo : \A j \in todo : j <= i]

\* The next turn of compensate's loop: downwards from the step before `below`,
\* past the steps without a Compensate function.
Compensating(s, below, failing) ==
    LET todo == {i \in Compensable : i < below}
    IN  IF todo = {} THEN [s EXCEPT !.phase = IF failing THEN "torn" ELSE "failed"]
        ELSE [Fresh EXCEPT !.phase = "compensate", !.failing = failing,
                           !.step = CHOOSE i \in todo : \A j \in todo : j <= i]

\* Execute or Compensate of the current step returned nil.
AfterSuccess(s) ==
    IF s.phase = "compensate" THEN Compensating(s, s.step, s.failing)
    ELSE IF s.step < NumSteps THEN [Fresh EXCEPT !.step = s.step + 1]
    ELSE [s EXCEPT !.phase = "succeeded"]

\* It returned an error: the first one of a step starts the compensation, one
\* of a compensation is remembered and the loop goes on.
AfterError(s) == Compensating(s, s.step, s.phase = "compensate")

-----------------------------------------------------------------------------
(* retry.go.                                                               *)

\* RetryIf: neither the end of the context nor a breaker that refuses is retried.
IsRetryable(err) == err = "service"

\* An attempt failed: sleep before the next, or give up with this error.
Retry(s, err) ==
    IF IsRetryable(err) /\ s.attempt + 1 < MaxAttempts
    THEN [s EXCEPT !.waiting = TRUE, !.attempt = @ + 1]
    ELSE AfterError(s)

AtAttempt(c) == Running(c) /\ ~saga[c].waiting /\ request[c] = "none"

\* What the service has in force once it has done what it was asked.
Performed(c) ==
    IF saga[c].phase = "forward"
    THEN effects[c] \union {saga[c].step} ELSE effects[c] \ {saga[c].step}

\* The operation that fails now for good leaves an effect behind its error.
NoteLost(c, eff) ==
    unacknowledged' =
        IF saga[c].phase = "forward" /\ saga'[c].phase # "forward"
        THEN [unacknowledged EXCEPT ![c] = eff \intersect {saga[c].step}]
        ELSE unacknowledged

Fails(c, err, eff) ==
    /\ saga' = [saga EXCEPT ![c] = Retry(@, err)]
    /\ effects' = [effects EXCEPT ![c] = eff]
    /\ NoteLost(c, eff)
    /\ UNCHANGED cancelled

\* ctx.Err() before an attempt, or ctx.Done() in the sleep.
ContextEnded(c) ==
    /\ Running(c) /\ request[c] = "none"
    /\ cancelled[c]
    /\ Fails(c, "context", effects[c])
    /\ UNCHANGED vars

\* Execute refuses: open before its timeout, or all trials taken.
Rejected(c) ==
    /\ AtAttempt(c) /\ ~cancelled[c]
    /\ \/ state = "open" /\ ~expired
       \/ state = "half-open" /\ halfOpenRequests >= MaxHalfOpenRequests
    /\ Fails(c, "breaker", effects[c])
    /\ UNCHANGED vars

Attempt(c) ==
    /\ AtAttempt(c) /\ ~cancelled[c]
    /\ BeforeRequest(c)
    /\ UNCHANGED sagaVars

CallSucceeds(c) ==
    /\ OnSuccess(c)
    /\ effects' = [effects EXCEPT ![c] = Performed(c)]
    /\ saga' = [saga EXCEPT ![c] = AfterSuccess(@)]
    /\ UNCHANGED <<cancelled, unacknowledged>>

\* The call fails: at the service, on its way there or back, or because the
\* context ended meanwhile.  For the breaker all of them are failures.
CallFails(c) ==
    /\ OnFailure(c)
    /\ \E err \in {"service"} \union (IF cancelled[c] THEN {"context"} ELSE {}),
          eff \in {effects[c], Performed(c)} : Fails(c, err, eff)

\* The sleep is over.
Wake(c) ==
    /\ Running(c) /\ saga[c].waiting
    /\ saga' = [saga EXCEPT ![c].waiting = FALSE]
    /\ UNCHANGED <<vars, cancelled, effects, unacknowledged>>

\* A panic of the call unwinds Retry and the saga as well.
CallPanics(c) ==
    /\ Panic(c)
    /\ saga' = [saga EXCEPT ![c].phase = "aborted"]
    /\ \E eff \in {effects[c], Performed(c)} : effects' = [effects EXCEPT ![c] = eff]
    /\ UNCHANGED <<cancelled, unacknowledged>>

\* The caller's deadline passes, or its client leaves.
Cancel(c) ==
    /\ Running(c) /\ ~cancelled[c]
    /\ cancelled' = [cancelled EXCEPT ![c] = TRUE]
    /\ UNCHANGED <<vars, saga, effects, unacknowledged>>

\* The caller's next saga, with a context and effects of its own.
Again(c) ==
    /\ ~Running(c)
    /\ saga' = [saga EXCEPT ![c] = Fresh]
    /\ cancelled' = [cancelled EXCEPT ![c] = FALSE]
    /\ effects' = [effects EXCEPT ![c] = {}]
    /\ unacknowledged' = [unacknowledged EXCEPT ![c] = {}]
    /\ UNCHANGED vars

\* A caller that calls Execute directly.
Call(c) == BeforeRequest(c) \/ AfterRequest(c) \/ Panic(c)

CallReturns(c) == CallSucceeds(c) \/ CallFails(c)
Proceed(c) == ContextEnded(c) \/ Rejected(c) \/ Attempt(c) \/ Wake(c) \/ Again(c)

SagaNext ==
    \/ (TimeoutPasses \/ Reset) /\ UNCHANGED sagaVars
    \/ \E c \in Caller \ Client : Call(c) /\ UNCHANGED sagaVars
    \/ \E c \in Client : Proceed(c) \/ CallReturns(c) \/ CallPanics(c) \/ Cancel(c)

\* Time passes, calls return, clients go on and others keep calling.
SagaFairness ==
    /\ WF_allVars(TimeoutPasses /\ UNCHANGED sagaVars)
    /\ \A c \in Caller \ Client :
          /\ WF_allVars(BeforeRequest(c) /\ UNCHANGED sagaVars)
          /\ WF_allVars(AfterRequest(c) /\ UNCHANGED sagaVars)
    /\ \A c \in Client : WF_allVars(CallReturns(c)) /\ WF_allVars(Proceed(c))

SagaSpec == SagaInit /\ [][SagaNext]_allVars
FairSagaSpec == SagaSpec /\ SagaFairness

-----------------------------------------------------------------------------
(* Properties.                                                             *)

\* What a failed saga may leave in force although every compensation it tried
\* succeeded: the steps without one, and a last step that took effect and was
\* reported failed.
Excused(c) == (Step \ Compensable) \union unacknowledged[c]

Atomic == INSTANCE AtomicSaga WITH
    Steps <- Step,
    outcome <- [c \in Client |-> IF Running(c) THEN "open" ELSE saga[c].phase],
    inForce <- [c \in Client |->
        IF Running(c) THEN {}
        ELSE IF saga[c].phase = "failed" THEN effects[c] \ Excused(c) ELSE effects[c]]

\* Every saga ends; a nil error means that all steps are in force, and an error
\* that does not mention compensation that none is but the excused ones, however
\* retries, a breaker shared with other sagas and the caller's context interfere.
ImplementsAtomicSaga == Atomic!Spec
=============================================================================
