--------------------------- MODULE CircuitBreaker ---------------------------
(***************************************************************************)
(* internal/resilience/circuit_breaker.go.  Execute is two critical        *)
(* sections, beforeRequest and afterRequest, with the protected call       *)
(* between them: any number of calls are under way while others change the *)
(* state, so a result may arrive in a later period than the one that       *)
(* admitted its request.                                                   *)
(***************************************************************************)
EXTENDS Integers, FiniteSets

CONSTANTS
    Caller,               \* goroutines that call Execute, over and over
    MaxFailures,          \* the three limits of CircuitBreakerConfig
    MaxHalfOpenRequests,
    SuccessThreshold,
    FailureCap            \* bound: where the model's failure counter saturates

ASSUME CallerAssumption == IsFiniteSet(Caller)
ASSUME LimitsAssumption ==
    /\ MaxFailures \in Nat \ {0}
    /\ MaxHalfOpenRequests \in Nat \ {0}
    /\ SuccessThreshold \in Nat \ {0}
    /\ FailureCap \in Nat /\ FailureCap >= MaxFailures

VARIABLES
    state,               \* "closed", "open" or "half-open"
    failures,
    halfOpenRequests,
    consecutiveSuccess,
    expired,             \* has Timeout passed since lastStateChange?
    request,             \* per caller: in which period the call under way was admitted
    leaked               \* history: did a trial of this half-open period panic?

vars == <<state, failures, halfOpenRequests, consecutiveSuccess, expired, request, leaked>>

\* "trial" is a call admitted in the current half-open period, "stale" one that
\* was admitted before the last state change, "none" means no call under way.
Request == {"none", "closed", "trial", "stale"}

TypeOK ==
    /\ state \in {"closed", "open", "half-open"}
    /\ failures \in 0..FailureCap
    /\ halfOpenRequests \in Nat
    /\ consecutiveSuccess \in Nat
    /\ expired \in BOOLEAN
    /\ request \in [Caller -> Request]
    /\ leaked \in BOOLEAN

Init ==
    /\ state = "closed"
    /\ failures = 0
    /\ halfOpenRequests = 0
    /\ consecutiveSuccess = 0
    /\ expired = FALSE
    /\ request = [c \in Caller |-> "none"]
    /\ leaked = FALSE

-----------------------------------------------------------------------------

\* The calls under way, seen after setState left the period they belong to.
Aged(req) == [c \in Caller |-> IF req[c] = "none" THEN "none" ELSE "stale"]

\* setState: nothing happens when the state is the same.
SetState(new, req) ==
    IF new = state
    THEN request' = req /\ UNCHANGED <<state, expired, leaked>>
    ELSE state' = new /\ expired' = FALSE /\ leaked' = FALSE /\ request' = Aged(req)

\* Timeout elapses after the last state change.  Only beforeRequest of an open
\* breaker looks at it.
TimeoutPasses ==
    /\ state = "open"
    /\ ~expired
    /\ expired' = TRUE
    /\ UNCHANGED <<state, failures, halfOpenRequests, consecutiveSuccess, request, leaked>>

AdmitClosed(c) ==
    /\ request[c] = "none"
    /\ state = "closed"
    /\ request' = [request EXCEPT ![c] = "closed"]
    /\ UNCHANGED <<state, failures, halfOpenRequests, consecutiveSuccess, expired, leaked>>

\* Mutant: the count of the last half-open period is not reset.
AdmitFirstTrial_KeepsCount(c) ==
    /\ request[c] = "none"
    /\ state = "open" /\ expired
    /\ state' = "half-open" /\ expired' = FALSE
    /\ request' = [Aged(request) EXCEPT ![c] = "trial"]
    /\ halfOpenRequests' = halfOpenRequests + 1
    /\ consecutiveSuccess' = 0
    /\ UNCHANGED <<failures, leaked>>

\* The first request after the timeout opens the half-open period and is its
\* first trial.
AdmitFirstTrial(c) ==
    /\ request[c] = "none"
    /\ state = "open" /\ expired
    /\ state' = "half-open" /\ expired' = FALSE
    /\ request' = [Aged(request) EXCEPT ![c] = "trial"]
    /\ halfOpenRequests' = 1
    /\ consecutiveSuccess' = 0
    /\ UNCHANGED <<failures, leaked>>

\* Mutant: the limit is compared before the request is counted.
AdmitTrial_OneTooMany(c) ==
    /\ request[c] = "none"
    /\ state = "half-open"
    /\ halfOpenRequests <= MaxHalfOpenRequests
    /\ halfOpenRequests' = halfOpenRequests + 1
    /\ request' = [request EXCEPT ![c] = "trial"]
    /\ UNCHANGED <<state, failures, consecutiveSuccess, expired, leaked>>

AdmitTrial(c) ==
    /\ request[c] = "none"
    /\ state = "half-open"
    /\ halfOpenRequests < MaxHalfOpenRequests
    /\ halfOpenRequests' = halfOpenRequests + 1
    /\ request' = [request EXCEPT ![c] = "trial"]
    /\ UNCHANGED <<state, failures, consecutiveSuccess, expired, leaked>>

Done(c) == [request EXCEPT ![c] = "none"]

\* Mutant: the success count is compared with > instead of >=.
OnSuccess_NeedsOneMore(c) ==
    /\ request[c] # "none"
    /\ CASE state = "closed" ->
              /\ failures' = 0
              /\ request' = Done(c)
              /\ UNCHANGED <<state, expired, consecutiveSuccess, leaked>>
         [] state = "half-open" ->
              /\ consecutiveSuccess' = consecutiveSuccess + 1
              /\ IF consecutiveSuccess' > SuccessThreshold
                 THEN SetState("closed", Done(c)) /\ failures' = 0
                 ELSE request' = Done(c) /\ UNCHANGED <<state, expired, failures, leaked>>
         [] OTHER ->
              /\ request' = Done(c)
              /\ UNCHANGED <<state, expired, failures, consecutiveSuccess, leaked>>
    /\ UNCHANGED halfOpenRequests

\* afterRequest without an error, whatever period admitted the request.
OnSuccess(c) ==
    /\ request[c] # "none"
    /\ CASE state = "closed" ->
              /\ failures' = 0
              /\ request' = Done(c)
              /\ UNCHANGED <<state, expired, consecutiveSuccess, leaked>>
         [] state = "half-open" ->
              /\ consecutiveSuccess' = consecutiveSuccess + 1
              /\ IF consecutiveSuccess' >= SuccessThreshold
                 THEN SetState("closed", Done(c)) /\ failures' = 0
                 ELSE request' = Done(c) /\ UNCHANGED <<state, expired, failures, leaked>>
         [] OTHER ->
              /\ request' = Done(c)
              /\ UNCHANGED <<state, expired, failures, consecutiveSuccess, leaked>>
    /\ UNCHANGED halfOpenRequests

MoreFailures == IF failures < FailureCap THEN failures + 1 ELSE FailureCap

\* afterRequest with an error: it counts in every state, opens a half-open
\* breaker at once and a closed one at the threshold.
OnFailure(c) ==
    /\ request[c] # "none"
    /\ failures' = MoreFailures
    /\ IF state = "half-open" \/ (state = "closed" /\ failures' >= MaxFailures)
       THEN SetState("open", Done(c))
       ELSE request' = Done(c) /\ UNCHANGED <<state, expired, leaked>>
    /\ UNCHANGED <<halfOpenRequests, consecutiveSuccess>>

\* A panic of the protected function unwinds Execute: afterRequest is skipped.
Panic(c) ==
    /\ request[c] # "none"
    /\ request' = Done(c)
    /\ leaked' = (leaked \/ request[c] = "trial")
    /\ UNCHANGED <<state, failures, halfOpenRequests, consecutiveSuccess, expired>>

\* Callable at any time.
Reset ==
    /\ SetState("closed", request)
    /\ failures' = 0
    /\ halfOpenRequests' = 0
    /\ consecutiveSuccess' = 0

BeforeRequest(c) == AdmitClosed(c) \/ AdmitFirstTrial(c) \/ AdmitTrial(c)
AfterRequest(c) == OnSuccess(c) \/ OnFailure(c)

Next ==
    \/ TimeoutPasses
    \/ \E c \in Caller : BeforeRequest(c) \/ AfterRequest(c) \/ Panic(c)
    \/ Reset

\* Calls return, time passes, and the callers keep calling.
Fairness ==
    /\ WF_vars(TimeoutPasses)
    /\ \A c \in Caller : WF_vars(BeforeRequest(c)) /\ WF_vars(AfterRequest(c))

Spec == Init /\ [][Next]_vars
FairSpec == Spec /\ Fairness

-----------------------------------------------------------------------------
(* Properties.                                                             *)

Trials == {c \in Caller : request[c] = "trial"}
UnderWay == {c \in Caller : request[c] # "none"}

\* A closed breaker is below its threshold: no interleaving of late results
\* leaves it closed with MaxFailures failures counted.
ClosedBelowThreshold == state = "closed" => failures < MaxFailures

\* However results, resets and re-openings interleave, at most
\* MaxHalfOpenRequests calls admitted in a half-open period are under way.
TrialsBounded ==
    state = "half-open" => Cardinality(Trials) <= MaxHalfOpenRequests

\* A half-open breaker tests the service: it can admit a trial, or some call is
\* under way whose result will move it.  Otherwise it would reject every
\* request for ever.
HalfOpenAlwaysTesting ==
    state = "half-open" => halfOpenRequests < MaxHalfOpenRequests \/ UnderWay # {}

\* Only a panic can end that: without one in the period, no interleaving of
\* trials with late results and resets uses up the trials for nothing.
HalfOpenIsTesting == leaked \/ HalfOpenAlwaysTesting

\* The breaker does not stay half-open, unless a trial panicked, nor open,
\* while callers keep calling and their calls return.
NoPeriodLasts ==
    /\ state = "half-open" ~> state # "half-open" \/ leaked
    /\ state = "open" ~> state # "open"

\* What makes the two half-open invariants inductive: every trial of the period
\* is under way, was counted as a success or panicked, and a success that reaches
\* the threshold closes.
HalfOpenAccount ==
    state = "half-open" =>
        /\ Cardinality(Trials) <= halfOpenRequests
        /\ leaked \/ halfOpenRequests <= Cardinality(Trials) + consecutiveSuccess
        /\ consecutiveSuccess < SuccessThreshold
        /\ halfOpenRequests <= MaxHalfOpenRequests
=============================================================================
