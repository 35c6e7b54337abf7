---------------------- MODULE ResilienceSettingsProofs ----------------------
(***************************************************************************)
(* Proofs about what other components are called through and configured    *)
(* by, for all values of the constants.  Of CircuitBreaker: its types, its *)
(* two thresholds and that only a panic leaves it with nothing to test     *)
(* with.  Of ResilientSaga: that it implements AtomicSaga, and that every  *)
(* step of a saga leads to its end.  Of Seeding: that what Load returns    *)
(* follows the order of its layers, that seeded roles hold, and that a     *)
(* seeder that was alone heals.                                            *)
(* Of FeatureFlags: that nobody falls out.                                 *)
(***************************************************************************)
EXTENDS ResilientSaga, Seeding, FeatureFlags, FiniteSetTheorems, WellFoundedInduction, TLAPS

(* The circuit breaker.                                                    *)

USE DEF Request

\* The trials are a finite set, whose size is a number.
LEMMA TrialsFinite ==
    ASSUME TypeOK
    PROVE  IsFiniteSet(Trials) /\ Cardinality(Trials) \in Nat
<1>1. Trials \subseteq Caller BY DEF Trials
<1>2. IsFiniteSet(Trials) BY <1>1, CallerAssumption, FS_Subset
<1> QED BY <1>2, FS_CardinalityType

\* The request functions the actions build have the right type.
LEMMA RequestTyped ==
    ASSUME TypeOK, NEW c \in Caller
    PROVE  /\ Done(c) \in [Caller -> Request]
           /\ Aged(Done(c)) \in [Caller -> Request]
           /\ Aged(request) \in [Caller -> Request]
BY DEF TypeOK, Done, Aged

\* What SetState does to the variables it touches.
LEMMA SetStateTyped ==
    ASSUME TypeOK, NEW s \in {"closed", "open"}, NEW req \in [Caller -> Request],
           SetState(s, req)
    PROVE  /\ state' = s
           /\ expired' \in BOOLEAN /\ leaked' \in BOOLEAN
           /\ request' \in [Caller -> Request]
BY DEF TypeOK, SetState, Aged

\* Every reachable state of the breaker is well typed: the counters stay in
\* their range however admissions, results and resets interleave.
THEOREM TypeCorrect == Spec => []TypeOK
<1>1. ASSUME Init PROVE TypeOK
  <2>1. 0 \in 0..FailureCap
    BY LimitsAssumption
  <2>2. request \in [Caller -> Request]
    BY <1>1 DEF Init
  <2> QED BY <1>1, <2>1, <2>2 DEF Init, TypeOK
<1>2. ASSUME TypeOK, [Next]_vars
      PROVE  TypeOK'
  <2> USE LimitsAssumption
  <2>1. CASE TimeoutPasses BY <2>1, <1>2 DEF TimeoutPasses, TypeOK
  <2>2. ASSUME NEW c \in Caller, AdmitClosed(c) PROVE TypeOK'
    BY <2>2, <1>2 DEF AdmitClosed, TypeOK
  <2>3. ASSUME NEW c \in Caller, AdmitFirstTrial(c) PROVE TypeOK'
    BY <2>3, <1>2 DEF AdmitFirstTrial, Aged, TypeOK
  <2>4. ASSUME NEW c \in Caller, AdmitTrial(c) PROVE TypeOK'
    BY <2>4, <1>2 DEF AdmitTrial, TypeOK
  <2>5. ASSUME NEW c \in Caller, OnSuccess(c) PROVE TypeOK'
    <3>1. CASE state = "closed"
      BY <3>1, <2>5, <1>2, RequestTyped DEF OnSuccess, TypeOK
    <3>2. CASE state = "half-open"
      <4>1. CASE consecutiveSuccess' >= SuccessThreshold
        BY <4>1, <3>2, <2>5, <1>2, RequestTyped, SetStateTyped DEF OnSuccess, TypeOK
      <4>2. CASE ~(consecutiveSuccess' >= SuccessThreshold)
        BY <4>2, <3>2, <2>5, <1>2, RequestTyped DEF OnSuccess, TypeOK
      <4> QED BY <4>1, <4>2
    <3>3. CASE state = "open"
      BY <3>3, <2>5, <1>2, RequestTyped DEF OnSuccess, TypeOK
    <3> QED BY <3>1, <3>2, <3>3, <1>2 DEF TypeOK
  <2>6. ASSUME NEW c \in Caller, OnFailure(c) PROVE TypeOK'
    <3>1. failures' \in 0..FailureCap
      BY <2>6, <1>2 DEF OnFailure, MoreFailures, TypeOK
    <3>2. CASE SetState("open", Done(c))
      BY <3>1, <3>2, <2>6, <1>2, RequestTyped, SetStateTyped DEF OnFailure, TypeOK
    <3>3. CASE request' = Done(c) /\ UNCHANGED <<state, expired, leaked>>
      BY <3>1, <3>3, <2>6, <1>2, RequestTyped DEF OnFailure, TypeOK
    <3> QED BY <3>2, <3>3, <2>6 DEF OnFailure
  <2>7. ASSUME NEW c \in Caller, Panic(c) PROVE TypeOK'
    BY <2>7, <1>2, RequestTyped DEF Panic, TypeOK
  <2>8. CASE Reset
    BY <2>8, <1>2, SetStateTyped DEF Reset, TypeOK
  <2>9. CASE UNCHANGED vars
    BY <2>9, <1>2 DEF vars, TypeOK
  <2> QED BY <1>2, <2>1, <2>2, <2>3, <2>4, <2>5, <2>6, <2>7, <2>8, <2>9
          DEF Next, BeforeRequest, AfterRequest
<1> QED BY <1>1, <1>2, PTL DEF Spec

\* A closed breaker never has MaxFailures failures counted.
THEOREM ClosedBelow == Spec => []ClosedBelowThreshold
<1>1. Init => ClosedBelowThreshold
  BY LimitsAssumption DEF Init, ClosedBelowThreshold
<1>2. ASSUME TypeOK, ClosedBelowThreshold, [Next]_vars
      PROVE  ClosedBelowThreshold'
  <2> USE LimitsAssumption DEF ClosedBelowThreshold, TypeOK
  <2>1. CASE TimeoutPasses BY <2>1, <1>2 DEF TimeoutPasses
  <2>2. ASSUME NEW c \in Caller, BeforeRequest(c) PROVE ClosedBelowThreshold'
    BY <2>2, <1>2 DEF BeforeRequest, AdmitClosed, AdmitFirstTrial, AdmitTrial
  <2>3. ASSUME NEW c \in Caller, OnSuccess(c) PROVE ClosedBelowThreshold'
    BY <2>3, <1>2 DEF OnSuccess
  <2>4. ASSUME NEW c \in Caller, OnFailure(c) PROVE ClosedBelowThreshold'
    <3>1. CASE SetState("open", Done(c))
      BY <3>1 DEF SetState
    <3>2. CASE state # "half-open" /\ ~(state = "closed" /\ failures' >= MaxFailures)
      <4>1. state' = state /\ failures' = MoreFailures
        BY <3>2, <2>4 DEF OnFailure
      <4>2. failures' \in Nat
        BY <4>1, <1>2 DEF MoreFailures
      <4> QED BY <3>2, <4>1, <4>2
    <3> QED BY <3>1, <3>2, <2>4 DEF OnFailure
  <2>5. ASSUME NEW c \in Caller, Panic(c) PROVE ClosedBelowThreshold'
    BY <2>5, <1>2 DEF Panic
  <2>6. CASE Reset BY <2>6 DEF Reset
  <2>7. CASE UNCHANGED vars BY <2>7, <1>2 DEF vars
  <2> QED BY <1>2, <2>1, <2>2, <2>3, <2>4, <2>5, <2>6, <2>7 DEF Next, AfterRequest
<1> QED BY <1>1, <1>2, TypeCorrect, PTL DEF Spec

-----------------------------------------------------------------------------

\* The end of one call: a trial less, if the call was one.
LEMMA OneCallLess ==
    ASSUME TypeOK, NEW c \in Caller, request[c] # "none", request' = Done(c)
    PROVE  /\ Cardinality(Trials') \in Nat
           /\ request[c] = "trial" => Cardinality(Trials') = Cardinality(Trials) - 1
           /\ request[c] # "trial" => Cardinality(Trials') = Cardinality(Trials)
<1>1. Trials' = Trials \ {c}
  BY DEF Trials, Done, TypeOK
<1>2. c \in Trials <=> request[c] = "trial"
  BY DEF Trials
<1>3. IsFiniteSet(Trials) /\ Cardinality(Trials) \in Nat
  BY TrialsFinite
<1>4. CASE c \in Trials
  BY <1>1, <1>2, <1>3, <1>4, FS_RemoveElement, FS_CardinalityType
<1>5. CASE c \notin Trials
  BY <1>1, <1>2, <1>3, <1>5
<1> QED BY <1>4, <1>5

\* The account of a half-open period: requests, trials, successes and panics.
LEMMA AccountHolds == Spec => []HalfOpenAccount
<1>1. Init => HalfOpenAccount
  BY DEF Init, HalfOpenAccount
<1>2. ASSUME TypeOK, HalfOpenAccount, [Next]_vars
      PROVE  HalfOpenAccount'
  <2> USE LimitsAssumption
  <2>0. IsFiniteSet(Trials) /\ Cardinality(Trials) \in Nat
    BY <1>2, TrialsFinite
  <2>1. CASE TimeoutPasses
    BY <2>1, <1>2 DEF TimeoutPasses, HalfOpenAccount
  <2>2. ASSUME NEW c \in Caller, AdmitClosed(c) PROVE HalfOpenAccount'
    BY <2>2, <1>2 DEF AdmitClosed, HalfOpenAccount
  <2>3. ASSUME NEW c \in Caller, AdmitFirstTrial(c) PROVE HalfOpenAccount'
    <3>1. Trials' = {c}
      BY <2>3, <1>2 DEF AdmitFirstTrial, Trials, Aged, TypeOK
    <3>2. Cardinality(Trials') = 1
      BY <3>1, FS_Singleton
    <3> QED BY <2>3, <3>2 DEF AdmitFirstTrial, HalfOpenAccount
  <2>4. ASSUME NEW c \in Caller, AdmitTrial(c) PROVE HalfOpenAccount'
    <3>1. Trials' = Trials \union {c} /\ c \notin Trials
      BY <2>4, <1>2 DEF AdmitTrial, Trials, TypeOK
    <3>2. Cardinality(Trials') = Cardinality(Trials) + 1
      BY <3>1, <2>0, FS_AddElement
    <3> QED BY <2>0, <2>4, <3>2, <1>2 DEF AdmitTrial, HalfOpenAccount, TypeOK
  <2>5. ASSUME NEW c \in Caller, OnSuccess(c) PROVE HalfOpenAccount'
    <3>1. CASE state = "half-open" /\ consecutiveSuccess' >= SuccessThreshold
      BY <3>1, <2>5 DEF OnSuccess, SetState, HalfOpenAccount
    <3>2. CASE state = "half-open" /\ ~(consecutiveSuccess' >= SuccessThreshold)
      <4>1. /\ request[c] # "none" /\ request' = Done(c)
            /\ consecutiveSuccess' = consecutiveSuccess + 1
            /\ UNCHANGED <<state, leaked, halfOpenRequests>>
        BY <3>2, <2>5 DEF OnSuccess
      <4>2. /\ Cardinality(Trials') \in Nat
            /\ Cardinality(Trials') <= Cardinality(Trials)
            /\ Cardinality(Trials) <= Cardinality(Trials') + 1
        BY <4>1, <1>2, <2>0, OneCallLess
      <4> QED BY <4>1, <4>2, <3>2, <2>0, <1>2 DEF HalfOpenAccount, TypeOK
    <3>3. CASE state # "half-open"
      BY <3>3, <2>5 DEF OnSuccess, HalfOpenAccount
    <3> QED BY <3>1, <3>2, <3>3
  <2>6. ASSUME NEW c \in Caller, OnFailure(c) PROVE HalfOpenAccount'
    BY <2>6 DEF OnFailure, SetState, HalfOpenAccount
  <2>7. ASSUME NEW c \in Caller, Panic(c) PROVE HalfOpenAccount'
    <3>1. /\ request[c] # "none" /\ request' = Done(c)
          /\ leaked' = (leaked \/ request[c] = "trial")
          /\ UNCHANGED <<state, halfOpenRequests, consecutiveSuccess>>
      BY <2>7 DEF Panic
    <3>2. /\ Cardinality(Trials') \in Nat
          /\ Cardinality(Trials') <= Cardinality(Trials)
          /\ request[c] # "trial" => Cardinality(Trials') = Cardinality(Trials)
      BY <3>1, <1>2, <2>0, OneCallLess
    <3>3. CASE leaked \/ request[c] = "trial"
      <4>1. leaked' BY <3>1, <3>3
      <4> QED BY <4>1, <3>1, <3>2, <2>0, <1>2 DEF HalfOpenAccount, TypeOK
    <3>4. CASE ~leaked /\ request[c] # "trial"
      BY <3>1, <3>2, <3>4, <2>0, <1>2 DEF HalfOpenAccount, TypeOK
    <3> QED BY <3>3, <3>4
  <2>8. CASE Reset
    BY <2>8 DEF Reset, SetState, HalfOpenAccount
  <2>9. CASE UNCHANGED vars
    BY <2>9, <1>2 DEF vars, HalfOpenAccount, Trials
  <2> QED BY <1>2, <2>1, <2>2, <2>3, <2>4, <2>5, <2>6, <2>7, <2>8, <2>9
          DEF Next, BeforeRequest, AfterRequest
<1> QED BY <1>1, <1>2, TypeCorrect, PTL DEF Spec

\* A half-open breaker has at most MaxHalfOpenRequests trials under way,
\* whatever late results, panics and resets do in between.
THEOREM TrialLimit == Spec => []TrialsBounded
<1>1. ASSUME TypeOK, HalfOpenAccount
      PROVE  TrialsBounded
  BY <1>1, TrialsFinite, LimitsAssumption DEF TypeOK, HalfOpenAccount, TrialsBounded
<1> QED BY <1>1, TypeCorrect, AccountHolds, PTL

\* If the trials of a period can reach the threshold at all, as those of the
\* default configuration can, then as long as none of them panicked a half-open
\* breaker can admit one or waits for a call: it never rejects every request
\* with nothing under way.
THEOREM NeverStuckHalfOpen ==
    ASSUME SuccessThreshold <= MaxHalfOpenRequests
    PROVE  Spec => []HalfOpenIsTesting
<1>1. ASSUME TypeOK, HalfOpenAccount
      PROVE  HalfOpenIsTesting
  <2>1. SUFFICES ASSUME ~leaked, state = "half-open",
                        ~(halfOpenRequests < MaxHalfOpenRequests)
                 PROVE  UnderWay # {}
    BY DEF HalfOpenIsTesting, HalfOpenAlwaysTesting
  <2>2. Cardinality(Trials) > 0
    BY <1>1, <2>1, TrialsFinite, LimitsAssumption DEF TypeOK, HalfOpenAccount
  <2>3. Trials # {}
    BY <2>2, FS_EmptySet
  <2> QED BY <2>3 DEF Trials, UnderWay
<1> QED BY <1>1, TypeCorrect, AccountHolds, PTL

-----------------------------------------------------------------------------
(* The saga over it.                                                       *)

\* A set of steps that is not empty has a last one.
LEMMA LastOne ==
    ASSUME NEW n \in Nat, NEW T, T \subseteq 1..n, T # {}
    PROVE  \E i \in T : \A j \in T : j <= i
<1> DEFINE U == {n - i : i \in T}
<1>1. U \subseteq Nat /\ U # {}
  <2>1. \A i \in T : i \in Int /\ n - i \in Nat
    OBVIOUS
  <2> QED BY <2>1
<1> HIDE DEF U
<1>2. PICK m \in U : \A k \in U : <<k, m>> \notin OpToRel(<, Nat)
  BY <1>1, WFMin, NatLessThanWellFounded, Zenon
<1>3. \A k \in U : ~(k < m)
  BY <1>1, <1>2, Zenon DEF OpToRel
<1>4. PICK i \in T : m = n - i
  BY DEF U
<1>5. \A j \in T : n - j \in U
  BY DEF U
<1>6. \A j \in T : ~(n - j < n - i)
  BY <1>3, <1>4, <1>5
<1>7. \A j \in T : j <= i
  <2>1. \A j \in T : j \in Int /\ i \in Int
    OBVIOUS
  <2> QED BY <1>6, <2>1
<1> QED BY <1>7

Phase == {"forward", "compensate", "succeeded", "failed", "torn", "aborted"}

\* A saga in the middle of its steps has done those before the current one; one that
\* compensates has undone those after it, but for a lost last one, unless a
\* compensation failed.
SagaSound(s, done, lost) ==
    /\ s \in [phase : Phase, step : Step, attempt : Nat, waiting : BOOLEAN, failing : BOOLEAN]
    /\ done \subseteq Step
    /\ s.phase = "forward" => 1..(s.step - 1) \subseteq done /\ done \subseteq 1..s.step
    /\ s.phase = "compensate" /\ ~s.failing =>
          done \intersect Compensable \subseteq (1..s.step) \union lost
    /\ s.phase = "succeeded" => done = Step
    /\ s.phase = "failed" => done \intersect Compensable \subseteq lost

SagaInv ==
    /\ saga = [c \in Client |-> saga[c]] /\ effects = [c \in Client |-> effects[c]]
    /\ unacknowledged = [c \in Client |-> unacknowledged[c]]
    /\ \A c \in Client : SagaSound(saga[c], effects[c], unacknowledged[c])

\* Only a running saga calls, and not while it sleeps.
CallsAreOwed ==
    \A c \in Client : request[c] # "none" => Running(c) /\ ~saga[c].waiting

\* What a new Execute of the saga starts from.
LEMMA FreshIs ==
    ASSUME NEW i \in Step
    PROVE  LET s == [Fresh EXCEPT !.step = i]
           IN  /\ s \in [phase : Phase, step : Step, attempt : Nat, waiting : BOOLEAN,
                         failing : BOOLEAN]
               /\ s.phase = "forward" /\ s.step = i
BY DEF Fresh, Phase

\* A new saga has nothing in force.
LEMMA FreshIsSound == SagaSound(Fresh, {}, {})
BY StepsAssumption DEF SagaSound, Fresh, Phase, Step

\* The turn of compensate's loop below a step, with what is in force then.
LEMMA CompensatingIsSound ==
    ASSUME NEW s, NEW done, NEW lost, NEW below \in Step, NEW failing \in BOOLEAN,
           s \in [phase : Phase, step : Step, attempt : Nat, waiting : BOOLEAN, failing : BOOLEAN],
           done \subseteq Step,
           ~failing => done \intersect Compensable \subseteq (1..(below - 1)) \union lost
    PROVE  /\ SagaSound(Compensating(s, below, failing), done, lost)
           /\ Compensating(s, below, failing).phase \in {"compensate", "failed", "torn"}
<1> DEFINE todo == {i \in Compensable : i < below}
<1>1. todo \subseteq 1..NumSteps /\ below \in Nat /\ NumSteps \in Nat /\ Compensable \subseteq Step
  <2>1. below \in Nat /\ NumSteps \in Nat /\ Compensable \subseteq 1..NumSteps
    BY StepsAssumption DEF Step
  <2> QED BY <2>1 DEF Step
<1>2. CASE todo = {}
  <2> DEFINE q == [s EXCEPT !.phase = IF failing THEN "torn" ELSE "failed"]
  <2>1. Compensating(s, below, failing) = q
    BY <1>2 DEF Compensating
  <2>2. /\ q \in [phase : Phase, step : Step, attempt : Nat, waiting : BOOLEAN, failing : BOOLEAN]
        /\ q.phase = IF failing THEN "torn" ELSE "failed"
    BY DEF Phase
  <2> HIDE DEF q
  <2>3. ~failing => done \intersect Compensable \subseteq lost
    BY <1>1, <1>2
  <2> QED BY <2>1, <2>2, <2>3 DEF SagaSound
<1>3. CASE todo # {}
  <2> DEFINE last == CHOOSE i \in todo : \A j \in todo : j <= i
             q == [Fresh EXCEPT !.phase = "compensate", !.failing = failing, !.step = last]
  <2>1. Compensating(s, below, failing) = q
    BY <1>3 DEF Compensating
  <2>2. last \in todo /\ \A j \in todo : j <= last
    <3> HIDE DEF todo
    <3>1. \E i \in todo : \A j \in todo : j <= i
      BY <1>1, <1>3, LastOne
    <3> QED BY <3>1
  <2>3. last \in Step /\ last \in Nat
    BY <1>1, <2>2 DEF Step
  <2> HIDE DEF last
  <2>4. /\ q \in [phase : Phase, step : Step, attempt : Nat, waiting : BOOLEAN, failing : BOOLEAN]
        /\ q.phase = "compensate" /\ q.failing = failing /\ q.step = last
    BY <2>3 DEF Fresh, Phase
  <2> HIDE DEF q
  <2>5. ~failing => done \intersect Compensable \subseteq (1..last) \union lost
    <3> SUFFICES ASSUME ~failing, NEW i \in done \intersect Compensable, i \notin lost
                 PROVE  i \in 1..last
      OBVIOUS
    <3>1. i \in 1..(below - 1)
      OBVIOUS
    <3>2. i \in todo
      BY <1>1, <3>1
    <3> QED BY <2>2, <2>3, <3>1, <3>2
  <2> QED BY <2>1, <2>4, <2>5 DEF SagaSound
<1> QED BY <1>2, <1>3

\* The place of a saga after an attempt failed.
LEMMA RetryIsSound ==
    ASSUME NEW s, NEW done, NEW lost, SagaSound(s, done, lost), NEW err,
           s.phase \in {"forward", "compensate"},
           NEW eff, eff \in {done, IF s.phase = "forward" THEN done \union {s.step}
                                   ELSE done \ {s.step}},
           NEW left, left = IF s.phase = "forward" /\ Retry(s, err).phase # "forward"
                            THEN eff \intersect {s.step} ELSE lost
    PROVE  /\ SagaSound(Retry(s, err), eff, left)
           /\ Retry(s, err).phase # "succeeded" /\ Retry(s, err).phase # "aborted"
<1>1. /\ s \in [phase : Phase, step : Step, attempt : Nat, waiting : BOOLEAN, failing : BOOLEAN]
      /\ done \subseteq Step /\ s.step \in Nat /\ s.step >= 1 /\ eff \subseteq Step
  BY StepsAssumption DEF SagaSound, Step
<1>2. CASE IsRetryable(err) /\ s.attempt + 1 < MaxAttempts
  <2> DEFINE q == [s EXCEPT !.waiting = TRUE]
             r == [q EXCEPT !.attempt = s.attempt + 1]
  <2>1. Retry(s, err) = r
    BY <1>2 DEF Retry
  <2>2. /\ q \in [phase : Phase, step : Step, attempt : Nat, waiting : BOOLEAN, failing : BOOLEAN]
        /\ q.phase = s.phase /\ q.step = s.step /\ q.failing = s.failing /\ q.attempt = s.attempt
    BY <1>1
  <2> HIDE DEF q
  <2>3. s.attempt + 1 \in Nat
    BY <1>1
  <2>4. /\ r \in [phase : Phase, step : Step, attempt : Nat, waiting : BOOLEAN, failing : BOOLEAN]
        /\ r.phase = s.phase /\ r.step = s.step /\ r.failing = s.failing
    BY <2>2, <2>3
  <2> HIDE DEF r
  <2>5. left = lost
    BY <2>1, <2>4
  <2>6. s.phase = "forward" => 1..(s.step - 1) \subseteq eff /\ eff \subseteq 1..s.step
    BY <1>1 DEF SagaSound
  <2>7. s.phase = "compensate" /\ ~s.failing =>
          eff \intersect Compensable \subseteq (1..s.step) \union lost
    BY DEF SagaSound
  <2> QED BY <1>1, <2>1, <2>4, <2>5, <2>6, <2>7 DEF SagaSound
<1>3. CASE ~(IsRetryable(err) /\ s.attempt + 1 < MaxAttempts)
  <2> DEFINE failing == s.phase = "compensate"
  <2>1. Retry(s, err) = Compensating(s, s.step, failing)
    BY <1>3 DEF Retry, AfterError
  <2>2. failing \in BOOLEAN /\ s.step \in Step
    BY <1>1
  <2>3. left = IF s.phase = "forward" /\ Compensating(s, s.step, failing).phase # "forward"
               THEN eff \intersect {s.step} ELSE lost
    BY <2>1
  <2>4. Compensating(s, s.step, failing).phase \in {"compensate", "failed", "torn"}
    BY <1>1 DEF Compensating, Fresh
  <2>5. s.phase = "forward" => left = eff \intersect {s.step} /\ eff \subseteq 1..s.step
    BY <1>1, <2>3, <2>4 DEF SagaSound
  <2>6. ~failing => eff \intersect Compensable \subseteq (1..(s.step - 1)) \union left
    BY <1>1, <2>5
  <2> HIDE DEF failing
  <2> QED BY <1>1, <2>1, <2>2, <2>4, <2>6, CompensatingIsSound
<1> QED BY <1>2, <1>3

\* A call that succeeds: the next step, the end, or the next compensation.
LEMMA SuccessIsSound ==
    ASSUME NEW s, NEW done, NEW lost, SagaSound(s, done, lost),
           s.phase \in {"forward", "compensate"},
           NEW eff, eff = IF s.phase = "forward" THEN done \union {s.step} ELSE done \ {s.step}
    PROVE  /\ SagaSound(AfterSuccess(s), eff, lost)
           /\ AfterSuccess(s).phase # "aborted"
<1>1. /\ s \in [phase : Phase, step : Step, attempt : Nat, waiting : BOOLEAN, failing : BOOLEAN]
      /\ done \subseteq Step /\ s.step \in Nat /\ s.step >= 1 /\ eff \subseteq Step
      /\ s.step <= NumSteps /\ NumSteps \in Nat
  <2>1. /\ s \in [phase : Phase, step : Step, attempt : Nat, waiting : BOOLEAN, failing : BOOLEAN]
        /\ done \subseteq Step
    BY DEF SagaSound
  <2>2. s.step \in Step /\ eff \subseteq Step
    BY <2>1
  <2> QED BY <2>1, <2>2, StepsAssumption DEF Step
<1>2. CASE s.phase = "compensate"
  <2>1. AfterSuccess(s) = Compensating(s, s.step, s.failing)
    BY <1>2 DEF AfterSuccess
  <2>2. ~s.failing => eff \intersect Compensable \subseteq (1..(s.step - 1)) \union lost
    BY <1>1, <1>2 DEF SagaSound
  <2>3. s.failing \in BOOLEAN /\ s.step \in Step
    BY <1>1
  <2> QED BY <1>1, <2>1, <2>2, <2>3, CompensatingIsSound
<1>3. CASE s.phase = "forward" /\ s.step < NumSteps
  <2> DEFINE q == [Fresh EXCEPT !.step = s.step + 1]
  <2>1. AfterSuccess(s) = q
    BY <1>3 DEF AfterSuccess
  <2>2. s.step + 1 \in Step
    BY <1>1, <1>3 DEF Step
  <2>3. /\ q \in [phase : Phase, step : Step, attempt : Nat, waiting : BOOLEAN, failing : BOOLEAN]
        /\ q.phase = "forward" /\ q.step = s.step + 1
    BY <2>2, FreshIs
  <2> HIDE DEF q
  <2>4. 1..(q.step - 1) \subseteq eff /\ eff \subseteq 1..q.step
    BY <1>1, <1>3, <2>3 DEF SagaSound
  <2> QED BY <1>1, <2>1, <2>3, <2>4 DEF SagaSound
<1>4. CASE s.phase = "forward" /\ ~(s.step < NumSteps)
  <2> DEFINE q == [s EXCEPT !.phase = "succeeded"]
  <2>1. AfterSuccess(s) = q
    BY <1>4 DEF AfterSuccess
  <2>2. /\ q \in [phase : Phase, step : Step, attempt : Nat, waiting : BOOLEAN, failing : BOOLEAN]
        /\ q.phase = "succeeded"
    BY <1>1 DEF Phase
  <2> HIDE DEF q
  <2>3. s.step = NumSteps
    BY <1>1, <1>4
  <2>4. eff = Step
    <3>1. 1..(s.step - 1) \subseteq done /\ eff = done \union {s.step}
      BY <1>4 DEF SagaSound
    <3>2. \A i \in 1..NumSteps : i \in 1..(s.step - 1) \/ i = s.step
      BY <1>1, <2>3
    <3> QED BY <1>1, <3>1, <3>2 DEF Step
  <2> QED BY <2>1, <2>2, <2>4 DEF SagaSound
<1> QED BY <1>2, <1>3, <1>4

\* A step that changes one saga.
LEMMA OneSagaChanges ==
    ASSUME SagaInv, NEW c \in Client, NEW s, NEW done, NEW lost, SagaSound(s, done, lost),
           saga' = [saga EXCEPT ![c] = s], effects' = [effects EXCEPT ![c] = done],
           unacknowledged' = [unacknowledged EXCEPT ![c] = lost]
    PROVE  /\ SagaInv' /\ saga'[c] = s
           /\ \A d \in Client \ {c} : /\ saga'[d] = saga[d] /\ effects'[d] = effects[d]
                                      /\ unacknowledged'[d] = unacknowledged[d]
BY DEF SagaInv

\* Whatever changes nothing of the sagas.
LEMMA SagasKept == ASSUME SagaInv, UNCHANGED <<saga, effects, unacknowledged>> PROVE SagaInv'
BY DEF SagaInv

\* A failed attempt.
LEMMA FailsIsSound ==
    ASSUME SagaInv, NEW c \in Client, Running(c), NEW err, NEW eff \in {effects[c], Performed(c)},
           Fails(c, err, eff)
    PROVE  /\ SagaInv'
           /\ \A d \in Client \ {c} : /\ saga'[d] = saga[d] /\ effects'[d] = effects[d]
                                      /\ unacknowledged'[d] = unacknowledged[d]
<1> DEFINE s == Retry(saga[c], err)
           lost == IF saga[c].phase = "forward" /\ s.phase # "forward"
                   THEN eff \intersect {saga[c].step} ELSE unacknowledged[c]
<1>1. saga' = [saga EXCEPT ![c] = s] /\ effects' = [effects EXCEPT ![c] = eff]
  BY DEF Fails
<1>2. saga'[c] = s
  BY <1>1 DEF SagaInv
<1>3. unacknowledged' = [unacknowledged EXCEPT ![c] = lost]
  BY <1>2 DEF Fails, NoteLost, SagaInv
<1>4. SagaSound(saga[c], effects[c], unacknowledged[c])
  BY DEF SagaInv
<1>5. eff \in {effects[c], IF saga[c].phase = "forward" THEN effects[c] \union {saga[c].step}
                           ELSE effects[c] \ {saga[c].step}}
  BY DEF Performed
<1>6. SagaSound(s, eff, lost)
  BY <1>4, <1>5, RetryIsSound DEF Running
<1> HIDE DEF s, lost
<1> QED BY <1>1, <1>3, <1>6, OneSagaChanges

\* What the calls under way become.
LEMMA CallBegins ==
    ASSUME TypeOK, NEW c \in Caller, BeforeRequest(c)
    PROVE  \A d \in Caller \ {c} : request'[d] = "none" <=> request[d] = "none"
BY DEF TypeOK, BeforeRequest, AdmitClosed, AdmitFirstTrial, AdmitTrial, Aged, Request

\* A call that ends leaves its caller's request, and no other's.
LEMMA CallEnds ==
    ASSUME TypeOK, NEW c \in Caller, AfterRequest(c) \/ Panic(c)
    PROVE  /\ request[c] # "none" /\ request'[c] = "none"
           /\ \A d \in Caller \ {c} : request'[d] = "none" <=> request[d] = "none"
<1>1. request' \in {Done(c), Aged(Done(c))} /\ request[c] # "none"
  BY DEF AfterRequest, OnSuccess, OnFailure, Panic, SetState
<1> QED BY <1>1 DEF Done, Aged, TypeOK, Request

\* The passing of time, and Reset, take nobody's request.
LEMMA NoCallChanges ==
    ASSUME TypeOK, TimeoutPasses \/ Reset
    PROVE  \A d \in Caller : request'[d] = "none" <=> request[d] = "none"
BY DEF TimeoutPasses, Reset, SetState, Aged, TypeOK, Request

-----------------------------------------------------------------------------

\* A step of one client leaves the sagas of the others alone.
OthersKeep(c) ==
    \A d \in Client \ {c} : /\ saga'[d] = saga[d] /\ effects'[d] = effects[d]
                            /\ unacknowledged'[d] = unacknowledged[d]

\* The inductive invariant of the sagas.
SagaWell == TypeOK /\ SagaInv /\ CallsAreOwed

\* Calls end or begin for a client alone.
LEMMA OwedKept ==
    ASSUME CallsAreOwed, NEW c \in Client, OthersKeep(c),
           \A d \in Client \ {c} : request'[d] = "none" <=> request[d] = "none",
           request'[c] = "none"
    PROVE  CallsAreOwed'
BY DEF CallsAreOwed, OthersKeep, Running

\* The steps of one client keep the invariant and change no other client's saga.
LEMMA GivesUpOrRetries ==
    ASSUME SagaWell, NEW c \in Client, ContextEnded(c) \/ Rejected(c) \/ CallFails(c)
    PROVE  Running(c) /\ SagaInv' /\ CallsAreOwed' /\ OthersKeep(c)
<1> USE ClientAssumption
<1>1. c \in Caller
  OBVIOUS
<1>2. Running(c)
  <2>1. CASE CallFails(c)
    BY <2>1, <1>1, CallEnds DEF CallFails, AfterRequest, CallsAreOwed, SagaWell
  <2> QED BY <2>1 DEF ContextEnded, Rejected, AtAttempt
<1>3. \E err : \E eff \in {effects[c], Performed(c)} : Fails(c, err, eff)
  <2>1. CASE CallFails(c)
    <3>1. PICK err \in {"service"} \union (IF cancelled[c] THEN {"context"} ELSE {}),
               eff \in {effects[c], Performed(c)} : Fails(c, err, eff)
      BY <2>1 DEF CallFails
    <3> QED BY <3>1
  <2>2. CASE ContextEnded(c) \/ Rejected(c)
    <3>1. Fails(c, "context", effects[c]) \/ Fails(c, "breaker", effects[c])
      BY <2>2 DEF ContextEnded, Rejected
    <3> QED BY <3>1
  <2> QED BY <2>1, <2>2
<1>4. SagaInv' /\ OthersKeep(c)
  BY <1>2, <1>3, FailsIsSound DEF OthersKeep, SagaWell
<1>5. request'[c] = "none" /\ \A d \in Client \ {c} : request'[d] = "none" <=> request[d] = "none"
  <2>1. CASE CallFails(c)
    BY <2>1, <1>1, CallEnds DEF CallFails, AfterRequest, SagaWell
  <2> QED BY <2>1 DEF ContextEnded, Rejected, AtAttempt, vars
<1> QED BY <1>2, <1>4, <1>5, OwedKept DEF SagaWell

\* A step, or a compensation, that returns no error.
LEMMA Succeeds ==
    ASSUME SagaWell, NEW c \in Client, CallSucceeds(c)
    PROVE  Running(c) /\ SagaInv' /\ CallsAreOwed' /\ OthersKeep(c)
<1> USE ClientAssumption
<1>1. /\ request[c] # "none" /\ request'[c] = "none"
      /\ \A d \in Client \ {c} : request'[d] = "none" <=> request[d] = "none"
  BY CallEnds DEF CallSucceeds, AfterRequest, SagaWell
<1>2. Running(c)
  BY <1>1 DEF CallsAreOwed, SagaWell
<1>3. SagaSound(saga[c], effects[c], unacknowledged[c])
  BY DEF SagaWell, SagaInv
<1>4. SagaSound(AfterSuccess(saga[c]), Performed(c), unacknowledged[c])
  BY <1>2, <1>3, SuccessIsSound DEF Running, Performed
<1>5. /\ saga' = [saga EXCEPT ![c] = AfterSuccess(saga[c])]
      /\ effects' = [effects EXCEPT ![c] = Performed(c)]
      /\ unacknowledged' = [unacknowledged EXCEPT ![c] = unacknowledged[c]]
  BY DEF CallSucceeds, SagaWell, SagaInv
<1>6. SagaInv' /\ OthersKeep(c)
  BY <1>4, <1>5, OneSagaChanges DEF OthersKeep, SagaWell
<1> QED BY <1>1, <1>2, <1>6, OwedKept DEF SagaWell

\* A step that panics ends its saga where it stands.
LEMMA Panics ==
    ASSUME SagaWell, NEW c \in Client, CallPanics(c)
    PROVE  Running(c) /\ SagaInv' /\ CallsAreOwed' /\ OthersKeep(c)
<1> USE ClientAssumption
<1>1. /\ request[c] # "none" /\ request'[c] = "none"
      /\ \A d \in Client \ {c} : request'[d] = "none" <=> request[d] = "none"
  BY CallEnds DEF CallPanics, SagaWell
<1>2. Running(c)
  BY <1>1 DEF CallsAreOwed, SagaWell
<1>3. SagaSound(saga[c], effects[c], unacknowledged[c])
  BY DEF SagaWell, SagaInv
<1> DEFINE s == [saga[c] EXCEPT !.phase = "aborted"]
<1>4. /\ s \in [phase : Phase, step : Step, attempt : Nat, waiting : BOOLEAN, failing : BOOLEAN]
      /\ s.phase = "aborted"
  BY <1>3 DEF SagaSound, Phase
<1>5. saga' = [saga EXCEPT ![c] = s]
  BY DEF CallPanics
<1> HIDE DEF s
<1>6. PICK eff \in {effects[c], Performed(c)} : effects' = [effects EXCEPT ![c] = eff]
  BY DEF CallPanics
<1>7. eff \subseteq Step
  BY <1>3 DEF SagaSound, Performed
<1>8. SagaSound(s, eff, unacknowledged[c])
  BY <1>4, <1>7 DEF SagaSound
<1>9. unacknowledged' = [unacknowledged EXCEPT ![c] = unacknowledged[c]]
  BY DEF CallPanics, SagaWell, SagaInv
<1>10. SagaInv' /\ OthersKeep(c)
  BY <1>5, <1>6, <1>8, <1>9, OneSagaChanges DEF OthersKeep, SagaWell
<1> QED BY <1>1, <1>2, <1>10, OwedKept DEF SagaWell

\* The end of a pause between two attempts.
LEMMA Wakes ==
    ASSUME SagaWell, NEW c \in Client, Wake(c)
    PROVE  Running(c) /\ SagaInv' /\ CallsAreOwed' /\ OthersKeep(c)
<1>1. Running(c) /\ request[c] = "none" /\ request' = request
  BY DEF Wake, vars, CallsAreOwed, SagaWell
<1>2. SagaSound(saga[c], effects[c], unacknowledged[c])
  BY DEF SagaWell, SagaInv
<1> DEFINE s == [saga[c] EXCEPT !.waiting = FALSE]
<1>3. /\ s \in [phase : Phase, step : Step, attempt : Nat, waiting : BOOLEAN, failing : BOOLEAN]
      /\ s.phase = saga[c].phase /\ s.step = saga[c].step /\ s.failing = saga[c].failing
  BY <1>2 DEF SagaSound
<1>4. saga' = [saga EXCEPT ![c] = s]
  BY DEF Wake
<1> HIDE DEF s
<1>5. SagaSound(s, effects[c], unacknowledged[c])
  BY <1>2, <1>3 DEF SagaSound
<1>6. /\ effects' = [effects EXCEPT ![c] = effects[c]]
      /\ unacknowledged' = [unacknowledged EXCEPT ![c] = unacknowledged[c]]
  BY DEF Wake, SagaWell, SagaInv
<1>7. SagaInv' /\ OthersKeep(c)
  BY <1>4, <1>5, <1>6, OneSagaChanges DEF OthersKeep, SagaWell
<1> QED BY <1>1, <1>7, OwedKept DEF SagaWell

\* An ended saga is executed once more.
LEMMA Restarts ==
    ASSUME SagaWell, NEW c \in Client, Again(c)
    PROVE  ~Running(c) /\ SagaInv' /\ CallsAreOwed' /\ OthersKeep(c) /\ saga'[c] = Fresh
<1>1. ~Running(c) /\ request[c] = "none" /\ request' = request
  BY DEF Again, vars, CallsAreOwed, SagaWell
<1>2. SagaInv' /\ OthersKeep(c) /\ saga'[c] = Fresh
  BY FreshIsSound, OneSagaChanges DEF Again, OthersKeep, SagaWell
<1> QED BY <1>1, <1>2, OwedKept DEF SagaWell

\* The steps that no saga notices: its calls go through the breaker.
LEMMA NothingForSagas ==
    ASSUME SagaWell, UNCHANGED <<saga, effects, unacknowledged>>,
           \A d \in Client : request'[d] # "none" => request[d] # "none" \/ AtAttempt(d)
    PROVE  SagaInv' /\ CallsAreOwed'
<1>1. SagaInv'
  BY SagasKept DEF SagaWell
<1> QED BY <1>1 DEF CallsAreOwed, SagaWell, AtAttempt, Running

\* What a step is, seen from the sagas.
SagaStep(c) == OthersKeep(c) /\ (Running(c) \/ saga'[c] = Fresh)

\* Every step keeps the invariant and is one saga's, or none's.
LEMMA SagaSteps ==
    ASSUME SagaWell, [SagaNext]_allVars
    PROVE  /\ SagaInv' /\ CallsAreOwed'
           /\ \/ UNCHANGED <<saga, effects, unacknowledged>>
              \/ \E c \in Client : SagaStep(c)
<1> USE ClientAssumption
<1>1. ASSUME NEW c \in Client, ContextEnded(c) \/ Rejected(c) \/ CallReturns(c) \/ CallPanics(c)
                               \/ Wake(c)
      PROVE  SagaInv' /\ CallsAreOwed' /\ SagaStep(c)
  <2>1. CASE ContextEnded(c) \/ Rejected(c) \/ CallFails(c)
    BY <2>1, GivesUpOrRetries DEF SagaStep
  <2>2. CASE CallSucceeds(c)
    BY <2>2, Succeeds DEF SagaStep
  <2>3. CASE CallPanics(c)
    BY <2>3, Panics DEF SagaStep
  <2>4. CASE Wake(c)
    BY <2>4, Wakes DEF SagaStep
  <2> QED BY <1>1, <2>1, <2>2, <2>3, <2>4 DEF CallReturns
<1>2. ASSUME NEW c \in Client, Again(c)
      PROVE  SagaInv' /\ CallsAreOwed' /\ SagaStep(c)
  BY <1>2, Restarts DEF SagaStep
<1>3. ASSUME NEW c \in Client, Attempt(c)
      PROVE  SagaInv' /\ CallsAreOwed' /\ UNCHANGED <<saga, effects, unacknowledged>>
  <2>1. \A d \in Client \ {c} : request'[d] = "none" <=> request[d] = "none"
    BY <1>3, CallBegins DEF Attempt, SagaWell
  <2> QED BY <1>3, <2>1, NothingForSagas DEF Attempt, sagaVars
<1>4. ASSUME NEW c \in Client, Cancel(c)
      PROVE  SagaInv' /\ CallsAreOwed' /\ UNCHANGED <<saga, effects, unacknowledged>>
  BY <1>4, NothingForSagas DEF Cancel, vars
<1>5. ASSUME NEW c \in Caller \ Client, Call(c), UNCHANGED sagaVars
      PROVE  SagaInv' /\ CallsAreOwed' /\ UNCHANGED <<saga, effects, unacknowledged>>
  <2>1. \A d \in Client : request'[d] = "none" <=> request[d] = "none"
    BY <1>5, CallBegins, CallEnds DEF Call, SagaWell
  <2> QED BY <1>5, <2>1, NothingForSagas DEF sagaVars
<1>6. ASSUME TimeoutPasses \/ Reset, UNCHANGED sagaVars
      PROVE  SagaInv' /\ CallsAreOwed' /\ UNCHANGED <<saga, effects, unacknowledged>>
  <2>1. \A d \in Client : request'[d] = "none" <=> request[d] = "none"
    BY <1>6, NoCallChanges DEF SagaWell
  <2> QED BY <1>6, <2>1, NothingForSagas DEF sagaVars
<1>7. ASSUME UNCHANGED allVars
      PROVE  SagaInv' /\ CallsAreOwed' /\ UNCHANGED <<saga, effects, unacknowledged>>
  BY <1>7, NothingForSagas DEF allVars, sagaVars, vars
<1> QED BY <1>1, <1>2, <1>3, <1>4, <1>5, <1>6, <1>7 DEF SagaNext, Proceed

-----------------------------------------------------------------------------

\* Sagas use the breaker as any callers do: what is proved of it holds under them.
THEOREM SagasAreCallers == SagaSpec => Spec
<1>1. SagaInit => Init
  BY DEF SagaInit
<1>2. [SagaNext]_allVars => [Next]_vars
  <2> SUFFICES ASSUME SagaNext PROVE Next \/ UNCHANGED vars
    BY DEF allVars
  <2> USE ClientAssumption
  <2>1. ASSUME NEW c \in Client, Proceed(c) \/ CallReturns(c) \/ CallPanics(c) \/ Cancel(c)
        PROVE  Next \/ UNCHANGED vars
    <3>1. CASE ContextEnded(c) \/ Rejected(c) \/ Wake(c) \/ Again(c) \/ Cancel(c)
      BY <3>1 DEF ContextEnded, Rejected, Wake, Again, Cancel
    <3>2. CASE Attempt(c) \/ CallReturns(c) \/ CallPanics(c)
      BY <3>2 DEF Attempt, CallReturns, CallSucceeds, CallFails, CallPanics, AfterRequest, Next
    <3> QED BY <2>1, <3>1, <3>2 DEF Proceed
  <2> QED BY <2>1 DEF SagaNext, Next, Call
<1> QED BY <1>1, <1>2, PTL DEF SagaSpec, Spec

\* It holds: the types of the breaker are those of its own proof.
LEMMA SagasAreWell == SagaSpec => []SagaWell
<1>1. SagaInit => SagaInv /\ CallsAreOwed
  <2> SUFFICES ASSUME SagaInit PROVE SagaInv /\ CallsAreOwed
    OBVIOUS
  <2>1. \A c \in Client : saga[c] = Fresh /\ effects[c] = {} /\ unacknowledged[c] = {}
                          /\ request[c] = "none"
    BY ClientAssumption DEF SagaInit, Init
  <2> QED BY <2>1, FreshIsSound DEF SagaInit, SagaInv, CallsAreOwed
<1>2. TypeOK /\ SagaInv /\ CallsAreOwed /\ [SagaNext]_allVars => (SagaInv /\ CallsAreOwed)'
  BY SagaSteps DEF SagaWell
<1>3. SagaSpec => []TypeOK
  BY SagasAreCallers, TypeCorrect, PTL
<1>4. TypeOK /\ SagaInv /\ CallsAreOwed => SagaWell
  BY DEF SagaWell
<1> QED BY <1>1, <1>2, <1>3, <1>4, PTL DEF SagaSpec

\* How a step of one saga looks to its caller.
Outcome(c) == IF Running(c) THEN "open" ELSE saga[c].phase
InForce(c) ==
    IF Running(c) THEN {}
    ELSE IF saga[c].phase = "failed" THEN effects[c] \ Excused(c) ELSE effects[c]
Outcomes == [c \in Client |-> Outcome(c)]
InForces == [c \in Client |-> InForce(c)]

\* What a saga that has ended shows to its caller, said of the state a step leads to.
LEMMA EndedThen ==
    ASSUME SagaInv', NEW c \in Client, ~Running(c)'
    PROVE  \/ Outcome(c)' = "succeeded" /\ InForce(c)' = Step
           \/ Outcome(c)' = "failed" /\ InForce(c)' = {}
           \/ Outcome(c)' \in {"torn", "aborted"} /\ InForce(c)' \subseteq Step
<1>1. SagaSound(saga'[c], effects'[c], unacknowledged'[c])
  BY DEF SagaInv
<1>2. saga'[c].phase \in Phase
  BY <1>1 DEF SagaSound
<1>3. CASE saga'[c].phase = "failed"
  <2>1. effects'[c] \subseteq Step /\ effects'[c] \intersect Compensable \subseteq unacknowledged'[c]
    BY <1>1, <1>3 DEF SagaSound
  <2>2. effects'[c] \ ((Step \ Compensable) \union unacknowledged'[c]) = {}
    BY <2>1
  <2> QED BY <1>3, <2>2 DEF Outcome, InForce, Excused
<1> QED BY <1>1, <1>2, <1>3 DEF SagaSound, Outcome, InForce, Running, Phase

\* A step of a saga is, seen from its outcome, a step of AtomicSaga or none.
LEMMA StepRefines ==
    ASSUME SagaInv, SagaInv', NEW c \in Client, SagaStep(c)
    PROVE  \/ UNCHANGED <<Outcomes, InForces>>
           \/ /\ Outcome(c) = "open"
              /\ \/ Outcomes'[c] = "succeeded" /\ InForces'[c] = Step
                 \/ Outcomes'[c] = "failed" /\ InForces'[c] = {}
                 \/ Outcomes'[c] \in {"torn", "aborted"} /\ InForces'[c] \subseteq Step
              /\ Outcomes' = [Outcomes EXCEPT ![c] = Outcomes'[c]]
              /\ InForces' = [InForces EXCEPT ![c] = InForces'[c]]
           \/ /\ Outcome(c) # "open"
              /\ Outcomes' = [Outcomes EXCEPT ![c] = "open"]
              /\ InForces' = [InForces EXCEPT ![c] = {}]
<1>1. \A d \in Client \ {c} : Outcome(d)' = Outcome(d) /\ InForce(d)' = InForce(d)
  BY DEF SagaStep, OthersKeep, Outcome, InForce, Running, Excused
<1>2. /\ Outcomes' = [Outcomes EXCEPT ![c] = Outcome(c)']
      /\ InForces' = [InForces EXCEPT ![c] = InForce(c)']
  BY <1>1 DEF Outcomes, InForces
<1>6. Outcomes'[c] = Outcome(c)' /\ InForces'[c] = InForce(c)'
  BY DEF Outcomes, InForces
<1>3. CASE Running(c) /\ Running(c)'
  <2>1. Outcome(c)' = Outcome(c) /\ InForce(c)' = InForce(c)
    BY <1>3 DEF Outcome, InForce
  <2> QED BY <1>1, <2>1 DEF Outcomes, InForces
<1>4. CASE Running(c) /\ ~Running(c)'
  <2>1. \/ Outcome(c)' = "succeeded" /\ InForce(c)' = Step
        \/ Outcome(c)' = "failed" /\ InForce(c)' = {}
        \/ Outcome(c)' \in {"torn", "aborted"} /\ InForce(c)' \subseteq Step
    BY <1>4, EndedThen
  <2>2. Outcome(c) = "open"
    BY <1>4 DEF Outcome
  <2> QED BY <1>2, <1>6, <2>1, <2>2
<1>5. CASE ~Running(c)
  <2>1. saga'[c] = Fresh
    BY <1>5 DEF SagaStep
  <2>2. Outcome(c)' = "open" /\ InForce(c)' = {}
    BY <2>1 DEF Outcome, InForce, Running, Fresh
  <2>3. Outcome(c) # "open"
    <3>1. saga[c].phase # "open"
      BY DEF SagaInv, SagaSound, Phase
    <3> QED BY <1>5, <3>1 DEF Outcome
  <2> QED BY <1>2, <1>6, <2>2, <2>3
<1> QED BY <1>3, <1>4, <1>5

\* However retries, lost replies, a breaker shared with other callers, panics and
\* the end of contexts interfere: a saga that reports success has all of its steps in
\* force, and one that reports failure and no failed compensation none but the excused.
THEOREM SagaIsAtomic == SagaSpec => Atomic!SafeSpec
<1>1. SagaInit => Atomic!Init
  <2> SUFFICES ASSUME SagaInit PROVE Atomic!Init
    OBVIOUS
  <2>1. \A c \in Client : Running(c)
    BY DEF SagaInit, Running, Fresh
  <2> QED BY <2>1 DEF Atomic!Init
<1>2. SagaWell /\ SagaWell' /\ [SagaNext]_allVars => [Atomic!Next]_(Atomic!vars)
  <2> SUFFICES ASSUME SagaWell, SagaWell', [SagaNext]_allVars
               PROVE  [Atomic!Next]_(Atomic!vars)
    OBVIOUS
  <2>1. CASE UNCHANGED <<saga, effects, unacknowledged>>
    BY <2>1 DEF Atomic!vars, Running, Excused
  <2>2. ASSUME NEW c \in Client, SagaStep(c)
        PROVE  [Atomic!Next]_(Atomic!vars)
    <3>1. CASE UNCHANGED <<Outcomes, InForces>>
      BY <3>1 DEF Atomic!vars, Outcomes, InForces, Outcome, InForce
    <3>2. CASE /\ Outcome(c) = "open"
               /\ \/ Outcomes'[c] = "succeeded" /\ InForces'[c] = Step
                  \/ Outcomes'[c] = "failed" /\ InForces'[c] = {}
                  \/ Outcomes'[c] \in {"torn", "aborted"} /\ InForces'[c] \subseteq Step
               /\ Outcomes' = [Outcomes EXCEPT ![c] = Outcomes'[c]]
               /\ InForces' = [InForces EXCEPT ![c] = InForces'[c]]
      <4>1. PICK o, left : o = Outcomes'[c] /\ left = InForces'[c]
        OBVIOUS
      <4>2. /\ Outcome(c) = "open"
            /\ Outcomes' = [Outcomes EXCEPT ![c] = o]
            /\ InForces' = [InForces EXCEPT ![c] = left]
        BY <3>2, <4>1
      <4>3. Atomic!End(c, o, left)
        BY <4>2 DEF Atomic!End, Outcomes, InForces, Outcome, InForce
      <4>4. CASE o = "succeeded" /\ left = Step
        BY <4>3, <4>4 DEF Atomic!Succeed, Atomic!Next
      <4>5. CASE o = "failed" /\ left = {}
        BY <4>3, <4>5 DEF Atomic!Fail, Atomic!Next
      <4>6. CASE o \in {"torn", "aborted"} /\ left \subseteq Step
        BY <4>3, <4>6 DEF Atomic!Tear, Atomic!Next
      <4> QED BY <3>2, <4>1, <4>4, <4>5, <4>6
    <3>3. CASE /\ Outcome(c) # "open"
               /\ Outcomes' = [Outcomes EXCEPT ![c] = "open"]
               /\ InForces' = [InForces EXCEPT ![c] = {}]
      <4>1. Atomic!Again(c)
        BY <3>3 DEF Atomic!Again, Outcomes, InForces, Outcome, InForce
      <4> QED BY <4>1 DEF Atomic!Next
    <3> QED BY <2>2, <3>1, <3>2, <3>3, StepRefines DEF SagaWell
  <2> QED BY <2>1, <2>2, SagaSteps
<1> QED BY <1>1, <1>2, SagasAreWell, PTL DEF SagaSpec, Atomic!SafeSpec

\* No operation is attempted more often than Retry is configured to.
AttemptsAreBounded == \A c \in Client : saga[c].attempt < MaxAttempts

PhasesLeft(s) == IF s.phase = "forward" THEN 2 ELSE IF s.phase = "compensate" THEN 1 ELSE 0
StepsLeft(s) == IF s.phase = "forward" THEN NumSteps - s.step ELSE s.step

\* From s to t a saga comes closer to its end: it has fewer phases left, or fewer
\* steps in its phase, or fewer attempts at its step, or has slept.
Closer(s, t) ==
    \/ PhasesLeft(t) < PhasesLeft(s)
    \/ t.phase = s.phase /\ StepsLeft(t) < StepsLeft(s)
    \/ t.phase = s.phase /\ t.step = s.step /\ t.attempt > s.attempt
    \/ /\ t.phase = s.phase /\ t.step = s.step /\ t.attempt = s.attempt
       /\ s.waiting /\ ~t.waiting

\* Whatever happens to a running saga brings it closer to its end.
SagasAdvance ==
    [][\A c \in Client : Running(c) /\ saga'[c] # saga[c] => Closer(saga[c], saga'[c])]_allVars

\* A saga at a step of its own, at one of its attempts.
IsUnderWay(s) ==
    /\ s \in [phase : Phase, step : Step, attempt : Nat, waiting : BOOLEAN, failing : BOOLEAN]
    /\ s.phase \in {"forward", "compensate"} /\ s.attempt < MaxAttempts

\* The next turn of the compensation is at an earlier step.
LEMMA CompensatingIsCloser ==
    ASSUME NEW s, IsUnderWay(s), NEW failing \in BOOLEAN
    PROVE  LET t == Compensating(s, s.step, failing)
           IN  Closer(s, t) /\ t.attempt < MaxAttempts
<1> DEFINE todo == {i \in Compensable : i < s.step}
<1>1. todo \subseteq 1..NumSteps /\ s.step \in Nat /\ NumSteps \in Nat /\ MaxAttempts \in Nat \ {0}
  <2>1. s.step \in Nat /\ NumSteps \in Nat /\ Compensable \subseteq 1..NumSteps
    BY StepsAssumption DEF Step, IsUnderWay
  <2> QED BY <2>1, AttemptsAssumption
<1>2. CASE todo = {}
  <2> DEFINE q == [s EXCEPT !.phase = IF failing THEN "torn" ELSE "failed"]
  <2>1. Compensating(s, s.step, failing) = q
    BY <1>2 DEF Compensating
  <2>2. q.phase = (IF failing THEN "torn" ELSE "failed") /\ q.attempt = s.attempt
    BY DEF IsUnderWay
  <2> HIDE DEF q
  <2>3. PhasesLeft(q) = 0 /\ PhasesLeft(s) > 0
    BY <2>2 DEF PhasesLeft, IsUnderWay
  <2> QED BY <2>1, <2>2, <2>3 DEF Closer, IsUnderWay
<1>3. CASE todo # {}
  <2> DEFINE last == CHOOSE i \in todo : \A j \in todo : j <= i
             q == [Fresh EXCEPT !.phase = "compensate", !.failing = failing, !.step = last]
  <2>1. Compensating(s, s.step, failing) = q
    BY <1>3 DEF Compensating
  <2>2. last \in todo
    <3> HIDE DEF todo
    <3>1. \E i \in todo : \A j \in todo : j <= i
      BY <1>1, <1>3, LastOne
    <3> QED BY <3>1
  <2> HIDE DEF last
  <2>3. q.phase = "compensate" /\ q.step = last /\ q.attempt = 0
    BY DEF Fresh
  <2> HIDE DEF q
  <2>4. CASE s.phase = "forward"
    BY <1>1, <2>1, <2>3, <2>4 DEF Closer, PhasesLeft
  <2>5. CASE s.phase = "compensate"
    <3>1. StepsLeft(q) = last /\ StepsLeft(s) = s.step /\ last < s.step
      BY <2>2, <2>3, <2>5 DEF StepsLeft
    <3> QED BY <1>1, <2>1, <2>3, <2>5, <3>1 DEF Closer
  <2> QED BY <2>4, <2>5 DEF IsUnderWay
<1> QED BY <1>2, <1>3

\* A failed attempt: another one is left, or the operation is given up.
LEMMA RetryIsCloser ==
    ASSUME NEW s, IsUnderWay(s), NEW err
    PROVE  Closer(s, Retry(s, err)) /\ Retry(s, err).attempt < MaxAttempts
<1>1. CASE IsRetryable(err) /\ s.attempt + 1 < MaxAttempts
  <2> DEFINE q == [s EXCEPT !.waiting = TRUE]
             r == [q EXCEPT !.attempt = s.attempt + 1]
  <2>1. Retry(s, err) = r
    BY <1>1 DEF Retry
  <2>2. /\ q \in [phase : Phase, step : Step, attempt : Nat, waiting : BOOLEAN, failing : BOOLEAN]
        /\ q.phase = s.phase /\ q.step = s.step
    BY DEF IsUnderWay
  <2> HIDE DEF q
  <2>3. r.phase = s.phase /\ r.step = s.step /\ r.attempt = s.attempt + 1
    BY <2>2
  <2> HIDE DEF r
  <2>4. s.attempt \in Nat
    BY DEF IsUnderWay
  <2> QED BY <1>1, <2>1, <2>3, <2>4 DEF Closer
<1>2. CASE ~(IsRetryable(err) /\ s.attempt + 1 < MaxAttempts)
  <2> DEFINE failing == s.phase = "compensate"
  <2>1. Retry(s, err) = Compensating(s, s.step, failing) /\ failing \in BOOLEAN
    BY <1>2 DEF Retry, AfterError
  <2> HIDE DEF failing
  <2> QED BY <2>1, CompensatingIsCloser
<1> QED BY <1>1, <1>2

\* A call that succeeds.
LEMMA SuccessIsCloser ==
    ASSUME NEW s, IsUnderWay(s)
    PROVE  Closer(s, AfterSuccess(s)) /\ AfterSuccess(s).attempt < MaxAttempts
<1>1. s.step \in 1..NumSteps /\ NumSteps \in Nat /\ MaxAttempts \in Nat \ {0}
  BY StepsAssumption, AttemptsAssumption DEF Step, IsUnderWay
<1>2. CASE s.phase = "compensate"
  <2>1. AfterSuccess(s) = Compensating(s, s.step, s.failing) /\ s.failing \in BOOLEAN
    BY <1>2 DEF AfterSuccess, IsUnderWay
  <2> QED BY <2>1, CompensatingIsCloser
<1>3. CASE s.phase = "forward" /\ s.step < NumSteps
  <2> DEFINE q == [Fresh EXCEPT !.step = s.step + 1]
  <2>1. AfterSuccess(s) = q
    BY <1>3 DEF AfterSuccess
  <2>2. q.phase = "forward" /\ q.step = s.step + 1 /\ q.attempt = 0
    BY DEF Fresh
  <2> HIDE DEF q
  <2>3. StepsLeft(q) < StepsLeft(s)
    BY <1>1, <1>3, <2>2 DEF StepsLeft
  <2> QED BY <1>1, <1>3, <2>1, <2>2, <2>3 DEF Closer
<1>4. CASE s.phase = "forward" /\ ~(s.step < NumSteps)
  <2> DEFINE q == [s EXCEPT !.phase = "succeeded"]
  <2>1. AfterSuccess(s) = q
    BY <1>4 DEF AfterSuccess
  <2>2. q.phase = "succeeded" /\ q.attempt = s.attempt
    BY DEF IsUnderWay
  <2> HIDE DEF q
  <2> QED BY <1>4, <2>1, <2>2 DEF Closer, PhasesLeft, IsUnderWay
<1> QED BY <1>2, <1>3, <1>4 DEF IsUnderWay

\* What one step does to one saga: nothing, or it comes closer, or begins anew.
LEMMA OneSagaAdvances ==
    ASSUME SagaWell, AttemptsAreBounded, NEW c \in Client,
           \/ ContextEnded(c) \/ Rejected(c) \/ CallReturns(c) \/ CallPanics(c) \/ Wake(c)
    PROVE  \E t : /\ Closer(saga[c], t) /\ t.attempt < MaxAttempts
                  /\ saga' = [saga EXCEPT ![c] = t]
<1> USE ClientAssumption
<1> DEFINE s == saga[c]
<1>1. Running(c)
  <2>1. CASE ContextEnded(c) \/ Rejected(c) \/ Wake(c)
    BY <2>1 DEF ContextEnded, Rejected, Wake, AtAttempt
  <2>2. CASE CallReturns(c) \/ CallPanics(c)
    <3>1. request[c] # "none"
      BY <2>2, CallEnds DEF CallReturns, CallSucceeds, CallFails, CallPanics, AfterRequest, SagaWell
    <3> QED BY <3>1 DEF SagaWell, CallsAreOwed
  <2> QED BY <2>1, <2>2
<1>2. IsUnderWay(s)
  BY <1>1 DEF IsUnderWay, SagaWell, SagaInv, SagaSound, AttemptsAreBounded, Running
<1>3. CASE ContextEnded(c) \/ Rejected(c) \/ CallFails(c)
  <2>1. PICK err : saga' = [saga EXCEPT ![c] = Retry(s, err)]
    BY <1>3 DEF ContextEnded, Rejected, CallFails, Fails
  <2> QED BY <1>2, <2>1, RetryIsCloser
<1>4. CASE CallSucceeds(c)
  <2>1. saga' = [saga EXCEPT ![c] = AfterSuccess(s)]
    BY <1>4 DEF CallSucceeds
  <2> QED BY <1>2, <2>1, SuccessIsCloser
<1>5. CASE CallPanics(c)
  <2> DEFINE t == [s EXCEPT !.phase = "aborted"]
  <2>1. saga' = [saga EXCEPT ![c] = t]
    BY <1>5 DEF CallPanics
  <2>2. t.phase = "aborted" /\ t.attempt = s.attempt
    BY <1>2 DEF IsUnderWay
  <2> HIDE DEF t
  <2>3. Closer(s, t)
    BY <1>2, <2>2 DEF Closer, PhasesLeft, IsUnderWay
  <2> QED BY <1>2, <2>1, <2>2, <2>3 DEF IsUnderWay
<1>6. CASE Wake(c)
  <2> DEFINE t == [s EXCEPT !.waiting = FALSE]
  <2>1. saga' = [saga EXCEPT ![c] = t] /\ s.waiting
    BY <1>6 DEF Wake
  <2>2. ~t.waiting /\ t.phase = s.phase /\ t.step = s.step /\ t.attempt = s.attempt
    BY <1>2 DEF IsUnderWay
  <2> HIDE DEF t
  <2>3. Closer(s, t)
    BY <2>1, <2>2 DEF Closer
  <2> QED BY <1>2, <2>1, <2>2, <2>3 DEF IsUnderWay
<1> QED BY <1>3, <1>4, <1>5, <1>6 DEF CallReturns

\* A step changes no saga, brings one closer to its end, or begins one.
LEMMA StepAdvances ==
    ASSUME SagaWell, AttemptsAreBounded, [SagaNext]_allVars
    PROVE  \/ saga' = saga
           \/ \E c \in Client :
                 \/ \E t : /\ Closer(saga[c], t) /\ t.attempt < MaxAttempts
                           /\ saga' = [saga EXCEPT ![c] = t]
                 \/ ~Running(c) /\ saga' = [saga EXCEPT ![c] = Fresh]
<1>1. ASSUME NEW c \in Client, Again(c)
      PROVE  ~Running(c) /\ saga' = [saga EXCEPT ![c] = Fresh]
  BY <1>1 DEF Again
<1>2. ASSUME NEW c \in Client, Attempt(c) \/ Cancel(c) PROVE saga' = saga
  BY <1>2 DEF Attempt, Cancel, sagaVars
<1>3. UNCHANGED sagaVars \/ UNCHANGED allVars => saga' = saga
  BY DEF sagaVars, allVars
<1> QED BY <1>1, <1>2, <1>3, OneSagaAdvances DEF SagaNext, Proceed

\* An operation is attempted at most MaxAttempts times, and every step of a saga
\* brings it closer to its end, in an order that has no endless descent: no
\* interleaving of retries, rejections by the breaker and compensations goes round
\* in circles.
THEOREM SagasGetOn == SagaSpec => []AttemptsAreBounded /\ SagasAdvance
<1>1. SagaInit => AttemptsAreBounded
  BY AttemptsAssumption DEF SagaInit, AttemptsAreBounded, Fresh
<1>2. ASSUME SagaWell, AttemptsAreBounded, [SagaNext]_allVars PROVE AttemptsAreBounded'
  <2>1. saga = [c \in Client |-> saga[c]]
    BY <1>2 DEF SagaWell, SagaInv
  <2>2. Fresh.attempt < MaxAttempts
    BY AttemptsAssumption DEF Fresh
  <2> QED BY <1>2, <2>1, <2>2, StepAdvances DEF AttemptsAreBounded
<1>3. ASSUME SagaWell, AttemptsAreBounded, [SagaNext]_allVars,
             NEW c \in Client, Running(c), saga'[c] # saga[c]
      PROVE  Closer(saga[c], saga'[c])
  <2>1. saga = [d \in Client |-> saga[d]]
    BY <1>3 DEF SagaWell, SagaInv
  <2> QED BY <1>3, <2>1, StepAdvances
<1>4. SagaWell /\ AttemptsAreBounded /\ [SagaNext]_allVars
        => [\A c \in Client : Running(c) /\ saga'[c] # saga[c] => Closer(saga[c], saga'[c])]_allVars
  BY <1>3
<1> QED BY <1>1, <1>2, <1>4, SagasAreWell, PTL DEF SagaSpec, SagasAdvance

-----------------------------------------------------------------------------
(* Feature flags.                                                          *)

\* What the manager and the tables always are.
FlagsKnown ==
    /\ \A f \in DOMAIN flags : flags[f].percentage \in Int
    /\ \A o \in Operator : held[o] # NoCopy => held[o].flag.percentage \in Int
    /\ stored = [t \in Tables |-> stored[t]]

\* A flag that is stored has an integer for its percentage.
LEMMA StoreKnown ==
    ASSUME FlagsKnown, NEW f, NEW enabled, NEW percentage \in Int, NEW rules,
           Store(f, enabled, percentage, rules)
    PROVE  \A g \in DOMAIN flags' : flags'[g].percentage \in Int
BY DEF FlagsKnown, Store, With

\* So have all, at any time.
LEMMA FlagsStayKnown == FlagSpec => []FlagsKnown
<1>1. FlagInit => FlagsKnown
  BY DEF FlagInit, FlagsKnown
<1>2. ASSUME FlagsKnown, [FlagNext]_flagVars PROVE FlagsKnown'
  <2>1. ASSUME NEW f \in FlagName, NEW enabled \in BOOLEAN, RegisterFlag(f, enabled)
        PROVE  FlagsKnown'
    BY <1>2, <2>1, StoreKnown DEF RegisterFlag, FlagsKnown
  <2>2. ASSUME NEW f \in FlagName, NEW enabled \in BOOLEAN, SQLSetFlag(f, enabled)
        PROVE  FlagsKnown'
    BY <1>2, <2>2 DEF SQLSetFlag, FlagsKnown
  <2>3. ASSUME NEW f \in FlagName, NEW enabled \in BOOLEAN, NEW p \in Percentages,
               NEW list \in RuleLists, SetNewFlag(f, enabled, p, list)
        PROVE  FlagsKnown'
    BY <1>2, <2>3, StoreKnown, PercentagesAssumption DEF SetNewFlag, FlagsKnown
  <2>4. ASSUME NEW o \in Operator, NEW f \in FlagName, GetFlag(o, f)
        PROVE  FlagsKnown'
    BY <1>2, <2>4 DEF GetFlag, FlagsKnown, NoCopy
  <2>5. ASSUME NEW o \in Operator, NEW enabled \in BOOLEAN, NEW p \in Percentages,
               SetHeldFlag(o, enabled, p)
        PROVE  FlagsKnown'
    BY <1>2, <2>5, StoreKnown, PercentagesAssumption DEF SetHeldFlag, FlagsKnown
  <2>6. ASSUME NEW o \in Operator, NEW rule, ChangeRule(o, rule)
        PROVE  FlagsKnown'
    BY <1>2, <2>6 DEF ChangeRule, FlagsKnown
  <2>7. CASE UNCHANGED flagVars
    BY <1>2, <2>7 DEF flagVars, FlagsKnown
  <2> QED BY <1>2, <2>1, <2>2, <2>3, <2>4, <2>5, <2>6, <2>7 DEF FlagNext
<1> QED BY <1>1, <1>2, PTL DEF FlagSpec

\* A rollout that grows from at least one per cent keeps its users.
LEMMA RolloutsGrow ==
    ASSUME NEW ctx \in Contexts, NEW p \in Int, NEW q \in Int, p \in 1..q, InRollout(ctx.user, p)
    PROVE  InRollout(ctx.user, q)
<1>1. HashToBucket(ctx.user) \in 0..99
  BY BucketAssumption, ContextsAssumption DEF HashToBucket
<1> QED BY <1>1 DEF InRollout

\* A context that a flag is on for is in its rollout, and its rules say so.
LEMMA Verdicts ==
    ASSUME NEW f, NEW ctx, IsEnabledFor(f, ctx) = "on"
    PROVE  IsEnabled(f) /\ InRollout(ctx.user, flags[f].percentage)
           /\ EvaluateRules(Rules(flags[f].rules), ctx) = "on"
BY DEF IsEnabledFor

\* A rollout that only grows loses nobody.
LEMMA GrowingKeeps ==
    ASSUME FlagsKnown, FlagsKnown', NEW f \in FlagName, Widens(f),
           NEW ctx \in Contexts, IsEnabledFor(f, ctx) = "on"
    PROVE  IsEnabledFor(f, ctx)' = "on"
<1>1. /\ f \in DOMAIN flags /\ f \in DOMAIN flags' /\ flags'[f].enabled
      /\ Rules(flags[f].rules)' = Rules(flags[f].rules)
      /\ flags[f].percentage \in 1..flags'[f].percentage
  BY DEF Widens
<1>2. InRollout(ctx.user, flags'[f].percentage)
  BY <1>1, Verdicts, RolloutsGrow DEF FlagsKnown
<1>3. PICK rules : rules = Rules(flags[f].rules)
  OBVIOUS
<1>4. EvaluateRules(rules, ctx) = "on"
  BY <1>3, Verdicts
<1>5. rules = Rules(flags[f].rules)'
  BY <1>1, <1>3
<1>6. EvaluateRules(Rules(flags[f].rules)', ctx) = "on"
  BY <1>4, <1>5
<1> QED BY <1>1, <1>2, <1>6 DEF IsEnabledFor, IsEnabled

\* Who sets one flag of the database leaves the rest of the row's table and the other
\* tables alone.
LEMMA OneRowIsSet ==
    ASSUME FlagsKnown, NEW h \in FlagName, NEW enabled \in BOOLEAN, SQLSetFlag(h, enabled),
           NEW ctx, NEW g, g # h \/ TableOf(ctx) # System
    PROVE  SQLIsEnabledFor(stored', g, ctx) <=> SQLIsEnabledFor(stored, g, ctx)
<1> DEFINE v == IF enabled THEN "true" ELSE "false"
<1>1. System \in Tables /\ stored' = [stored EXCEPT ![System] = With(stored[System], h, v)]
  BY DEF SQLSetFlag
<1> HIDE DEF v
<1>2. stored = [t \in Tables |-> stored[t]]
  BY DEF FlagsKnown
<1>3. DOMAIN stored' = Tables /\ DOMAIN stored = Tables
  BY <1>1, <1>2
<1>4. CASE TableOf(ctx) # System
  <2>1. TableOf(ctx) \in Tables => stored'[TableOf(ctx)] = stored[TableOf(ctx)]
    BY <1>1, <1>2, <1>4
  <2> QED BY <1>3, <2>1 DEF SQLIsEnabledFor
<1>5. CASE TableOf(ctx) = System /\ g # h
  <2>1. stored'[System] = With(stored[System], h, v)
    BY <1>1, <1>2
  <2>2. g \in DOMAIN stored'[System] <=> g \in DOMAIN stored[System]
    BY <1>5, <2>1 DEF With
  <2>3. g \in DOMAIN stored[System] => stored'[System][g] = stored[System][g]
    BY <1>5, <2>1 DEF With
  <2> QED BY <1>1, <1>3, <1>5, <2>2, <2>3 DEF SQLIsEnabledFor
<1> QED BY <1>4, <1>5

\* However operators register, copy, change and set flags: a user keeps a feature whose
\* rollout grows, and setting one flag in the database takes away no other.
THEOREM NobodyLosesAFeature == FlagSpec => NobodyFallsOut
<1>1. ASSUME FlagsKnown, FlagsKnown', [FlagNext]_flagVars,
             NEW f \in FlagName, NEW ctx \in Contexts,
             SQLIsEnabledFor(stored, f, ctx), ~SQLIsEnabledFor(stored', f, ctx)
      PROVE  /\ TableOf(ctx) = System
             /\ \A g \in FlagName \ {f} :
                   SQLIsEnabledFor(stored', g, ctx) <=> SQLIsEnabledFor(stored, g, ctx)
  <2>1. stored' # stored
    BY <1>1
  <2>2. PICK h \in FlagName, enabled \in BOOLEAN : SQLSetFlag(h, enabled)
    BY <1>1, <2>1 DEF FlagNext, flagVars, RegisterFlag, SetNewFlag, GetFlag, SetHeldFlag, ChangeRule
  <2>3. h = f /\ TableOf(ctx) = System
    BY <1>1, <2>2, OneRowIsSet
  <2> QED BY <1>1, <2>2, <2>3, OneRowIsSet
<1>2. FlagsKnown /\ FlagsKnown' /\ [FlagNext]_flagVars =>
        [/\ \A f \in FlagName : Widens(f) =>
               \A ctx \in Contexts : IsEnabledFor(f, ctx) = "on" => IsEnabledFor(f, ctx)' = "on"
         /\ \A f \in FlagName, ctx \in Contexts :
               SQLIsEnabledFor(stored, f, ctx) /\ ~SQLIsEnabledFor(stored', f, ctx)
                 => /\ TableOf(ctx) = System
                    /\ \A g \in FlagName \ {f} :
                          SQLIsEnabledFor(stored', g, ctx) <=> SQLIsEnabledFor(stored, g, ctx)
        ]_flagVars
  BY <1>1, GrowingKeeps
<1> QED BY <1>2, FlagsStayKnown, PTL DEF FlagSpec, NobodyFallsOut

-----------------------------------------------------------------------------
(* The passes of Load.                                                     *)

\* What every pass takes and returns.
IsConfig(c) ==
    c = [value |-> [s \in Setting |-> c.value[s]], source |-> [s \in Setting |-> c.source[s]]]

\* A pass over the environment, setting by setting.
LEMMA FromVariablesIs ==
    ASSUME NEW in, NEW c, NEW set, NEW marked, NEW layer,
           NEW d, d = FromVariables(in, c, set, marked, layer)
    PROVE  /\ IsConfig(d)
           /\ \A s \in Setting :
                /\ d.value[s] = IF s \in set THEN FromEnv(in, s) ELSE c.value[s]
                /\ d.source[s] = IF s \in marked THEN layer ELSE c.source[s]
BY DEF IsConfig, FromVariables

\* A provider that gets its client id is enabled.
LEMMA EnableIs ==
    ASSUME NEW c, IsConfig(c), NEW d, d = Enable(c)
    PROVE  /\ IsConfig(d) /\ d.source = c.source
           /\ \A s \in Setting : d.value[s] = IF s = "GOOGLE_ENABLED" THEN "on" ELSE c.value[s]
BY DEF IsConfig, Enable

\* A pass over a file, setting by setting.
LEMMA FromFileIs ==
    ASSUME NEW file, NEW layer, NEW c, NEW set, NEW marked,
           NEW d, d = FromFile(file, layer, c, set, marked)
    PROVE  /\ IsConfig(d)
           /\ \A s \in Setting :
                /\ d.value[s] = IF s \in set THEN Value(layer, Entry(file, s)) ELSE c.value[s]
                /\ d.source[s] = IF s \in marked THEN "yaml" ELSE c.source[s]
BY DEF IsConfig, FromFile

\* The Valkey database is taken from the file even where that is silent.
LEMMA WithValkeyDBIs ==
    ASSUME NEW file, NEW c, IsConfig(c), NEW d, d = WithValkeyDB(file, c)
    PROVE  /\ IsConfig(d)
           /\ \A s \in Setting :
                /\ d.value[s] = IF s = "VALKEY_DB" /\ ~Stated(file, s) THEN "zero" ELSE c.value[s]
                /\ d.source[s] = IF s = "VALKEY_DB" THEN "yaml" ELSE c.source[s]
<1>1. d = [value |-> [c.value EXCEPT !["VALKEY_DB"] =
                        IF Stated(file, "VALKEY_DB") THEN c.value["VALKEY_DB"] ELSE "zero"],
           source |-> [c.source EXCEPT !["VALKEY_DB"] = "yaml"]]
  BY DEF WithValkeyDB
<1>2. c.value = [s \in Setting |-> c.value[s]] /\ c.source = [s \in Setting |-> c.source[s]]
  BY DEF IsConfig
<1> HIDE DEF IsConfig
<1>3. /\ d.value = [s \in Setting |-> IF s = "VALKEY_DB" /\ ~Stated(file, s) THEN "zero" ELSE c.value[s]]
      /\ d.source = [s \in Setting |-> IF s = "VALKEY_DB" THEN "yaml" ELSE c.source[s]]
  BY <1>1, <1>2
<1> QED BY <1>1, <1>3 DEF IsConfig

\* PORT has the last word on the HTTP port.
LEMMA ApplyPortIs ==
    ASSUME NEW in, NEW c, IsConfig(c), NEW d, d = applyPort(in, c)
    PROVE  \A s \in Setting :
                /\ d.value[s] = IF s = "HTTP_PORT" /\ in.port THEN "PORT" ELSE c.value[s]
                /\ d.source[s] = IF s = "HTTP_PORT" /\ in.port THEN "PORT" ELSE c.source[s]
BY DEF IsConfig, applyPort

\* What the settings of one kind have in common.
LEMMA Kinds ==
    /\ Provider \subseteq OAuth /\ OAuth \subseteq Setting /\ Captured \subseteq Setting
    /\ Number \subseteq Setting /\ Flag \subseteq Setting
    /\ "GOOGLE_CLIENT_ID" \in Provider /\ "GOOGLE_ENABLED" \in Provider
    /\ "VALKEY_DB" \in Number /\ "VALKEY_DB" \notin OAuth
    /\ "SEEDS" \in Setting /\ "SEEDS" \notin OAuth /\ "ENV" \in Setting /\ "ENV" \notin OAuth
    /\ Number \intersect Flag = {} /\ Number \intersect OAuth = {} /\ Flag \intersect Provider = {}
    /\ Captured \intersect (Flag \union Number \union List \union OAuth \union {"SEEDS"}) = {}
    /\ "HTTP_PORT" \in Setting /\ "HTTP_PORT" \notin OAuth
BY DEF Setting, Text, Number, Flag, List, Provider, OAuth, Captured

\* The pass over the variables.
LEMMA OverrideWithEnvIs ==
    ASSUME NEW in, NEW d, d = OverrideWithEnv(in, Defaults)
    PROVE  /\ IsConfig(d)
           /\ \A s \in Setting :
                /\ d.value[s] = IF s = "GOOGLE_ENABLED" /\ Usable(in, "GOOGLE_CLIENT_ID") THEN "on"
                                ELSE IF Usable(in, s) THEN FromEnv(in, s) ELSE Default(s)
                /\ d.source[s] = IF Usable(in, s) THEN "system" ELSE "default"
<1> DEFINE set == {s \in Setting \ OAuth : Usable(in, s)}
           oauth == {s \in OAuth : Usable(in, s)}
           a == FromVariables(in, Defaults, set, set, "system")
           b == FromVariables(in, a, oauth, oauth, "system")
<1>1. /\ \A s \in Setting : /\ a.value[s] = IF s \in set THEN FromEnv(in, s) ELSE Default(s)
                            /\ a.source[s] = IF s \in set THEN "system" ELSE "default"
  <2>1. \A s \in Setting : Defaults.value[s] = Default(s) /\ Defaults.source[s] = "default"
    BY DEF Defaults
  <2> HIDE DEF set
  <2> QED BY <2>1, FromVariablesIs
<1>2. /\ IsConfig(b)
      /\ \A s \in Setting : /\ b.value[s] = IF s \in oauth THEN FromEnv(in, s) ELSE a.value[s]
                            /\ b.source[s] = IF s \in oauth THEN "system" ELSE a.source[s]
  <2> HIDE DEF a, oauth
  <2> QED BY FromVariablesIs
<1>3. d = IF "GOOGLE_CLIENT_ID" \in oauth THEN Enable(b) ELSE b
  BY DEF OverrideWithEnv, overrideOAuthEnv
<1> HIDE DEF a, b
<1>4. \A s \in Setting : /\ b.value[s] = IF Usable(in, s) THEN FromEnv(in, s) ELSE Default(s)
                         /\ b.source[s] = IF Usable(in, s) THEN "system" ELSE "default"
  BY <1>1, <1>2
<1>5. "GOOGLE_CLIENT_ID" \in oauth <=> Usable(in, "GOOGLE_CLIENT_ID")
  BY Kinds
<1> HIDE DEF set, oauth
<1> QED BY <1>2, <1>3, <1>4, <1>5, EnableIs

\* Is s among the captured variables, and set?
IsCaptured(in, s) == s \in Captured /\ Entry(in.system, s) # "empty"

\* The second pass over them.
LEMMA FromDotenvIs ==
    ASSUME NEW in, NEW c, NEW d, d = OverrideWithEnvFromDotenv(in, c)
    PROVE  /\ IsConfig(d)
           /\ \A s \in Setting :
                /\ d.value[s] = IF s = "GOOGLE_ENABLED" /\ Getenv(in, "GOOGLE_CLIENT_ID") # "empty" THEN "on"
                                ELSE IF Getenv(in, s) \notin {"empty", "bad"} THEN FromEnv(in, s)
                                ELSE c.value[s]
                /\ d.source[s] = IF Getenv(in, s) # "empty" /\ ~IsCaptured(in, s) THEN "dotenv"
                                 ELSE c.source[s]
<1> DEFINE Given(S) == {s \in S : Getenv(in, s) # "empty"}
           captured == {s \in Captured : Entry(in.system, s) # "empty"}
           over(e, S) == FromVariables(in, e, {s \in Given(S) : Getenv(in, s) # "bad"},
                                       Given(S) \ captured, "dotenv")
           a == over(c, Setting \ OAuth)
           b == over(a, OAuth)
<1>1. \A S, e : overrideEnvVar(in, e, S) = over(e, S)
  BY DEF overrideEnvVar
<1>2. \A S, e : /\ IsConfig(over(e, S))
                /\ \A s \in Setting :
                     /\ over(e, S).value[s] = IF s \in S /\ Getenv(in, s) \notin {"empty", "bad"}
                                              THEN FromEnv(in, s) ELSE e.value[s]
                     /\ over(e, S).source[s] = IF s \in S /\ Getenv(in, s) # "empty" /\ ~IsCaptured(in, s)
                                               THEN "dotenv" ELSE e.source[s]
  <2> SUFFICES ASSUME NEW S, NEW e
               PROVE  /\ IsConfig(over(e, S))
                      /\ \A s \in Setting :
                           /\ over(e, S).value[s] = IF s \in S /\ Getenv(in, s) \notin {"empty", "bad"}
                                                    THEN FromEnv(in, s) ELSE e.value[s]
                           /\ over(e, S).source[s] = IF s \in S /\ Getenv(in, s) # "empty" /\ ~IsCaptured(in, s)
                                                     THEN "dotenv" ELSE e.source[s]
    OBVIOUS
  <2> DEFINE set == {s \in Given(S) : Getenv(in, s) # "bad"}
             marked == Given(S) \ captured
             f == FromVariables(in, e, set, marked, "dotenv")
  <2>1. /\ IsConfig(f)
        /\ \A s \in Setting : /\ f.value[s] = IF s \in set THEN FromEnv(in, s) ELSE e.value[s]
                              /\ f.source[s] = IF s \in marked THEN "dotenv" ELSE e.source[s]
    <3> HIDE DEF set, marked
    <3> QED BY FromVariablesIs
  <2>2. over(e, S) = f
    OBVIOUS
  <2>3. \A s : /\ s \in set <=> s \in S /\ Getenv(in, s) \notin {"empty", "bad"}
               /\ s \in marked <=> s \in S /\ Getenv(in, s) # "empty" /\ ~IsCaptured(in, s)
    BY DEF IsCaptured
  <2> HIDE DEF set, marked, f, over
  <2> QED BY <2>1, <2>2, <2>3
<1> HIDE DEF over
<1>3. d = IF Getenv(in, "GOOGLE_CLIENT_ID") # "empty" THEN Enable(b) ELSE b
  BY <1>1 DEF OverrideWithEnvFromDotenv, overrideOAuthEnvFromDotenv
<1>4. /\ IsConfig(b)
      /\ \A s \in Setting :
            /\ b.value[s] = IF Getenv(in, s) \notin {"empty", "bad"} THEN FromEnv(in, s) ELSE c.value[s]
            /\ b.source[s] = IF Getenv(in, s) # "empty" /\ ~IsCaptured(in, s) THEN "dotenv" ELSE c.source[s]
  <2>1. \A s \in Setting :
            /\ a.value[s] = IF s \in Setting \ OAuth /\ Getenv(in, s) \notin {"empty", "bad"}
                            THEN FromEnv(in, s) ELSE c.value[s]
            /\ a.source[s] = IF s \in Setting \ OAuth /\ Getenv(in, s) # "empty" /\ ~IsCaptured(in, s)
                             THEN "dotenv" ELSE c.source[s]
    BY <1>2
  <2> HIDE DEF a
  <2>2. /\ IsConfig(b)
        /\ \A s \in Setting :
            /\ b.value[s] = IF s \in OAuth /\ Getenv(in, s) \notin {"empty", "bad"}
                            THEN FromEnv(in, s) ELSE a.value[s]
            /\ b.source[s] = IF s \in OAuth /\ Getenv(in, s) # "empty" /\ ~IsCaptured(in, s)
                             THEN "dotenv" ELSE a.source[s]
    BY <1>2
  <2> QED BY <2>1, <2>2
<1> HIDE DEF a, b
<1> QED BY <1>3, <1>4, EnableIs

\* What a file that is applied makes of a value.
FileKey(s) == IF s \in Provider THEN "GOOGLE_CLIENT_ID" ELSE s

\* One file's pass as a whole: a provider comes whole or not at all.
LEMMA ApplyYAMLConfigIs ==
    ASSUME NEW file, NEW layer, NEW c, NEW d, d = applyYAMLConfig(file, layer, c)
    PROVE  /\ IsConfig(d)
           /\ \A s \in Setting :
                /\ d.value[s] = IF Stated(file, FileKey(s)) THEN Value(layer, Entry(file, s))
                                ELSE IF s = "VALKEY_DB" THEN "zero" ELSE c.value[s]
                /\ s \notin {"GOOGLE_CLIENT_SECRET", "GOOGLE_ENABLED"} =>
                      d.source[s] = IF s = "VALKEY_DB" \/ Stated(file, FileKey(s)) THEN "yaml" ELSE c.source[s]
<1> DEFINE set == {s \in Setting \ OAuth : Stated(file, s)}
           oauth == {s \in OAuth \ Provider : Stated(file, s)}
           a == FromFile(file, layer, c, set, set)
           v == WithValkeyDB(file, a)
           o == FromFile(file, layer, v, oauth, oauth)
           g == FromFile(file, layer, o, Provider, {"GOOGLE_CLIENT_ID"})
<1>1. d = IF Stated(file, "GOOGLE_CLIENT_ID") THEN g ELSE o
  BY DEF applyYAMLConfig, applyYAMLOAuthConfig, applyYAMLOAuthProviders
<1>2. /\ IsConfig(a)
      /\ \A s \in Setting : /\ a.value[s] = IF s \in set THEN Value(layer, Entry(file, s)) ELSE c.value[s]
                            /\ a.source[s] = IF s \in set THEN "yaml" ELSE c.source[s]
  <2> HIDE DEF set
  <2> QED BY FromFileIs
<1>3. /\ IsConfig(v)
      /\ \A s \in Setting :
            /\ v.value[s] = IF s = "VALKEY_DB" /\ ~Stated(file, s) THEN "zero" ELSE a.value[s]
            /\ v.source[s] = IF s = "VALKEY_DB" THEN "yaml" ELSE a.source[s]
  <2> HIDE DEF a
  <2> QED BY <1>2, WithValkeyDBIs
<1>4. /\ IsConfig(o)
      /\ \A s \in Setting : /\ o.value[s] = IF s \in oauth THEN Value(layer, Entry(file, s)) ELSE v.value[s]
                            /\ o.source[s] = IF s \in oauth THEN "yaml" ELSE v.source[s]
  <2> HIDE DEF oauth, v
  <2> QED BY FromFileIs
<1>5. /\ IsConfig(g)
      /\ \A s \in Setting : /\ g.value[s] = IF s \in Provider THEN Value(layer, Entry(file, s)) ELSE o.value[s]
                            /\ g.source[s] = IF s = "GOOGLE_CLIENT_ID" THEN "yaml" ELSE o.source[s]
  <2> HIDE DEF o
  <2> QED BY FromFileIs
<1> HIDE DEF a, v, o, g
<1>6. \A s \in Setting : (s \in set <=> s \notin OAuth /\ Stated(file, s))
                         /\ (s \in oauth <=> s \in OAuth /\ s \notin Provider /\ Stated(file, s))
  OBVIOUS
<1> HIDE DEF set, oauth
<1>7. CASE Stated(file, "GOOGLE_CLIENT_ID")
  <2> SUFFICES ASSUME NEW s \in Setting
               PROVE  /\ d.value[s] = IF Stated(file, FileKey(s)) THEN Value(layer, Entry(file, s))
                                      ELSE IF s = "VALKEY_DB" THEN "zero" ELSE c.value[s]
                      /\ s \notin {"GOOGLE_CLIENT_SECRET", "GOOGLE_ENABLED"} =>
                            d.source[s] = IF s = "VALKEY_DB" \/ Stated(file, FileKey(s)) THEN "yaml" ELSE c.source[s]
    BY <1>1, <1>5, <1>7
  <2>1. CASE s \in Provider
    <3>1. s = "GOOGLE_CLIENT_ID" \/ s \in {"GOOGLE_CLIENT_SECRET", "GOOGLE_ENABLED"}
      BY <2>1 DEF Provider
    <3> QED BY <1>1, <1>5, <1>7, <2>1, <3>1 DEF FileKey
  <2>2. CASE s \notin Provider
    <3>1. FileKey(s) = s /\ d = g /\ s # "GOOGLE_CLIENT_ID"
      BY <1>1, <1>7, <2>2, Kinds DEF FileKey
    <3> QED BY <1>2, <1>3, <1>4, <1>5, <1>6, <2>2, <3>1, Kinds
  <2> QED BY <2>1, <2>2
<1>8. CASE ~Stated(file, "GOOGLE_CLIENT_ID")
  <2> SUFFICES ASSUME NEW s \in Setting
               PROVE  /\ d.value[s] = IF Stated(file, FileKey(s)) THEN Value(layer, Entry(file, s))
                                      ELSE IF s = "VALKEY_DB" THEN "zero" ELSE c.value[s]
                      /\ d.source[s] = IF s = "VALKEY_DB" \/ Stated(file, FileKey(s)) THEN "yaml" ELSE c.source[s]
    BY <1>1, <1>4, <1>8
  <2>1. CASE s \in Provider
    <3>1. FileKey(s) = "GOOGLE_CLIENT_ID" /\ d = o /\ s # "VALKEY_DB" /\ s \in OAuth
      BY <1>1, <1>8, <2>1, Kinds DEF FileKey
    <3> QED BY <1>2, <1>3, <1>4, <1>6, <1>8, <2>1, <3>1
  <2>2. CASE s \notin Provider
    <3>1. FileKey(s) = s /\ d = o
      BY <1>1, <1>8, <2>2 DEF FileKey
    <3> QED BY <1>2, <1>3, <1>4, <1>6, <2>2, <3>1, Kinds
  <2> QED BY <2>1, <2>2
<1> QED BY <1>7, <1>8

\* What a process can find in its environment and its files.
LEMMA EnvironmentIs ==
    ASSUME NEW in, IsInput(in), NEW s \in Setting
    PROVE  /\ GivenBy(in, s) \in {"system", "dotenv"}
           /\ Getenv(in, s) = Entry(in[GivenBy(in, s)], s)
           /\ Getenv(in, s) \in Possible(s)
           /\ s \in {"GOOGLE_ENABLED", "SEEDS"} => Getenv(in, s) = "empty"
           /\ Entry(in.system, s) # "empty" =>
                 GivenBy(in, s) = "system" /\ Getenv(in, s) = Entry(in.system, s)
<1>1. \A layer : Says(layer, Setting \ {"GOOGLE_ENABLED", "SEEDS"}, {}) =>
          /\ Entry(layer, s) \in Possible(s)
          /\ s \in {"GOOGLE_ENABLED", "SEEDS"} => Entry(layer, s) = "empty"
  BY DEF Says, Entry, Possible
<1>2. /\ Says(in.system, Setting \ {"GOOGLE_ENABLED", "SEEDS"}, {})
      /\ Says(in.dotenv, Setting \ {"GOOGLE_ENABLED", "SEEDS"}, {})
  BY DEF IsInput
<1>3. GivenBy(in, s) = IF s \in DOMAIN in.system THEN "system" ELSE "dotenv"
  BY DEF GivenBy
<1>4. CASE s \in DOMAIN in.system
  <2>1. GivenBy(in, s) = "system" /\ Getenv(in, s) = Entry(in.system, s)
    BY <1>3, <1>4 DEF Getenv
  <2> QED BY <1>1, <1>2, <2>1
<1>5. CASE s \notin DOMAIN in.system
  <2>1. GivenBy(in, s) = "dotenv" /\ Getenv(in, s) = Entry(in.dotenv, s) /\ Entry(in.system, s) = "empty"
    BY <1>3, <1>5 DEF Getenv, Entry
  <2> QED BY <1>1, <1>2, <2>1
<1> QED BY <1>4, <1>5

\* What a file that could be read holds of a setting.
LEMMA FilesAre ==
    ASSUME NEW file, Says(file, Setting, {"bad"}), NEW s \in Setting
    PROVE  /\ Entry(file, s) \in Possible(s) \ {"bad"}
           /\ s # "GOOGLE_ENABLED" => (Stated(file, s) <=> Entry(file, s) \notin {"empty", "off", "zero"})
<1>1. Entry(file, s) \in Possible(s) \ {"bad"}
  BY DEF Says, Entry, Possible
<1> QED BY <1>1, Kinds DEF Stated, Possible

\* The values and their origins after the environment, before the files.
EnvironmentValue(in, s) ==
    IF s = "GOOGLE_ENABLED" THEN IF Getenv(in, "GOOGLE_CLIENT_ID") # "empty" THEN "on" ELSE "off"
    ELSE IF Getenv(in, s) \in {"empty", "bad"} THEN Default(s) ELSE FromEnv(in, s)

EnvironmentSource(in, s) ==
    IF Getenv(in, s) = "empty" THEN "default"
    ELSE IF IsCaptured(in, s) THEN "system" ELSE "dotenv"

\* The system's pass and then .env's, as one.
LEMMA EnvironmentPasses ==
    ASSUME NEW in, IsInput(in),
           NEW d, d = OverrideWithEnvFromDotenv(in, OverrideWithEnv(in, Defaults))
    PROVE  /\ IsConfig(d)
           /\ \A s \in Setting : d.value[s] = EnvironmentValue(in, s) /\ d.source[s] = EnvironmentSource(in, s)
<1> DEFINE c == OverrideWithEnv(in, Defaults)
<1>1. \A s \in Setting :
        /\ c.value[s] = IF s = "GOOGLE_ENABLED" /\ Usable(in, "GOOGLE_CLIENT_ID") THEN "on"
                        ELSE IF Usable(in, s) THEN FromEnv(in, s) ELSE Default(s)
        /\ c.source[s] = IF Usable(in, s) THEN "system" ELSE "default"
  BY OverrideWithEnvIs
<1> HIDE DEF c
<1>2. /\ IsConfig(d)
      /\ \A s \in Setting :
           /\ d.value[s] = IF s = "GOOGLE_ENABLED" /\ Getenv(in, "GOOGLE_CLIENT_ID") # "empty" THEN "on"
                           ELSE IF Getenv(in, s) \notin {"empty", "bad"} THEN FromEnv(in, s)
                           ELSE c.value[s]
           /\ d.source[s] = IF Getenv(in, s) # "empty" /\ ~IsCaptured(in, s) THEN "dotenv"
                            ELSE c.source[s]
  BY FromDotenvIs DEF c
<1> SUFFICES ASSUME NEW s \in Setting
             PROVE  d.value[s] = EnvironmentValue(in, s) /\ d.source[s] = EnvironmentSource(in, s)
  BY <1>2
<1>3. /\ Getenv(in, s) \in Possible(s) /\ (s = "GOOGLE_ENABLED" => Getenv(in, s) = "empty")
      /\ Entry(in.system, s) # "empty" => Getenv(in, s) = Entry(in.system, s)
  BY EnvironmentIs
<1>4. Usable(in, "GOOGLE_CLIENT_ID") <=> Getenv(in, "GOOGLE_CLIENT_ID") # "empty"
  <2>1. "GOOGLE_CLIENT_ID" \in Setting /\ "GOOGLE_CLIENT_ID" \notin Flag
        /\ Possible("GOOGLE_CLIENT_ID") = {"empty", "given"}
    BY DEF Setting, Provider, Flag, Number, List, Possible
  <2>2. Getenv(in, "GOOGLE_CLIENT_ID") \in {"empty", "given"}
    BY <2>1, EnvironmentIs
  <2> QED BY <2>1, <2>2 DEF Usable
<1>5. Getenv(in, s) = "empty" => ~Usable(in, s) /\ ~IsCaptured(in, s)
  <2>1. Getenv(in, s) = "empty" => ~Usable(in, s)
    BY DEF Usable
  <2> QED BY <1>3, <2>1 DEF IsCaptured
<1>6. Getenv(in, s) = "bad" => ~Usable(in, s)
  BY DEF Usable
<1>7. IsCaptured(in, s) => Usable(in, s) /\ Getenv(in, s) # "empty"
  <2> SUFFICES ASSUME IsCaptured(in, s) PROVE Usable(in, s) /\ Getenv(in, s) # "empty"
    OBVIOUS
  <2>1. s \notin Flag /\ s \notin Number /\ s \notin List /\ s # "GOOGLE_ENABLED" /\ Getenv(in, s) # "empty"
    BY <1>3, Kinds DEF IsCaptured
  <2>2. Getenv(in, s) # "bad"
    BY <1>3, <2>1 DEF Possible
  <2> QED BY <2>1, <2>2 DEF Usable
<1>8. d.source[s] = EnvironmentSource(in, s)
  BY <1>1, <1>2, <1>5, <1>7 DEF EnvironmentSource
<1>9. d.value[s] = EnvironmentValue(in, s)
  <2>1. CASE s = "GOOGLE_ENABLED"
    <3>1. Default(s) = "off"
      BY <2>1 DEF Default
    <3> QED BY <1>1, <1>2, <1>3, <1>4, <1>5, <2>1, <3>1 DEF EnvironmentValue
  <2>2. CASE s # "GOOGLE_ENABLED"
    BY <1>1, <1>2, <1>5, <1>6, <2>2 DEF EnvironmentValue
  <2> QED BY <2>1, <2>2
<1> QED BY <1>8, <1>9

\* Does a file that is read state s?
FileStates(in, layer, s) == layer \in FilesRead(in) /\ Stated(in[layer], FileKey(s))

\* The files that are read are those that FilesRead names.
LEMMA ReadAre ==
    ASSUME NEW in, IsInput(in)
    PROVE  /\ FilesRead(in) \subseteq {"yaml", "seeds"}
           /\ "yaml" \in FilesRead(in) <=> "yaml" \in in.files
           /\ "seeds" \in FilesRead(in) <=> SeedsAreRead(in, BeforeSeeds(in))
<1> DEFINE c == OverrideWithEnvFromDotenv(in, OverrideWithEnv(in, Defaults))
           b == BeforeSeeds(in)
           y == applyYAMLConfig(in["yaml"], "yaml", c)
           env == IF "yaml" \in in.files /\ Entry(in.yaml, "ENV") # "empty" THEN in.yaml["ENV"]
                  ELSE IF Getenv(in, "ENV") # "empty" THEN Getenv(in, "ENV") ELSE "dev"
<1>1. "ENV" \in Setting /\ FileKey("ENV") = "ENV" /\ Possible("ENV") = {"empty", "dev", "prod", "test"}
      /\ "ENV" \notin Number /\ "ENV" \notin Flag /\ Default("ENV") = "dev"
  BY DEF Setting, Text, FileKey, Provider, Possible, Number, Flag, List, Default
<1>2. c.value["ENV"] = IF Getenv(in, "ENV") # "empty" THEN Getenv(in, "ENV") ELSE "dev"
  <2>1. c.value["ENV"] = EnvironmentValue(in, "ENV")
    BY <1>1, EnvironmentPasses
  <2>2. Getenv(in, "ENV") \in {"empty", "dev", "prod", "test"}
    BY <1>1, EnvironmentIs
  <2> QED BY <1>1, <2>1, <2>2 DEF EnvironmentValue, FromEnv, Value
<1>3. b = IF "yaml" \in in.files THEN y ELSE c
  BY DEF BeforeSeeds, loadYAMLConfig
<1>4. y.value["ENV"] = IF Stated(in["yaml"], "ENV") THEN Value("yaml", Entry(in["yaml"], "ENV")) ELSE c.value["ENV"]
  <2> HIDE DEF c
  <2> QED BY <1>1, ApplyYAMLConfigIs
<1>5. /\ in["yaml"] = in.yaml /\ Says(in.yaml, Setting, {"bad"})
      /\ Entry(in.yaml, "ENV") \in {"empty", "dev", "prod", "test"}
      /\ Entry(in.yaml, "ENV") # "empty" => Entry(in.yaml, "ENV") = in.yaml["ENV"]
  BY <1>1, FilesAre DEF IsInput, Entry
<1>6. Stated(in["yaml"], "ENV") <=> Entry(in.yaml, "ENV") # "empty"
  BY <1>1, <1>5 DEF Stated
<1> HIDE DEF c, y
<1>7. b.value["ENV"] = env
  BY <1>2, <1>3, <1>4, <1>5, <1>6 DEF Value
<1>8. SeedsAreRead(in, b) <=> env = "dev" /\ "seeds" \in in.files
  BY <1>7 DEF SeedsAreRead
<1>9. "yaml" \in in.files <=> {"yaml"} \intersect in.files # {}
  OBVIOUS
<1>10. FilesRead(in) = ({"yaml"} \intersect in.files) \union
                       IF env = "dev" THEN {"seeds"} \intersect in.files ELSE {}
  BY <1>9 DEF FilesRead
<1> HIDE DEF env, b
<1>11. FilesRead(in) \subseteq {"yaml", "seeds"} /\ ("yaml" \in FilesRead(in) <=> "yaml" \in in.files)
       /\ ("seeds" \in FilesRead(in) <=> env = "dev" /\ "seeds" \in in.files)
  BY <1>10
<1> QED BY <1>8, <1>11 DEF b

\* The configuration, setting by setting.
LEMMA ConfigIs ==
    ASSUME NEW in, IsInput(in), NEW s \in Setting, NEW d, d = Config(in)
    PROVE  /\ d.value[s] =
                IF s = "HTTP_PORT" /\ in.port THEN "PORT"
                ELSE IF FileStates(in, "seeds", s) THEN Value("seeds", Entry(in.seeds, s))
                ELSE IF s = "VALKEY_DB" /\ "seeds" \in FilesRead(in) THEN "zero"
                ELSE IF FileStates(in, "yaml", s) THEN Value("yaml", Entry(in.yaml, s))
                ELSE IF s = "VALKEY_DB" /\ "yaml" \in FilesRead(in) THEN "zero"
                ELSE EnvironmentValue(in, s)
           /\ s \notin {"GOOGLE_CLIENT_SECRET", "GOOGLE_ENABLED"} =>
                d.source[s] =
                  IF s = "HTTP_PORT" /\ in.port THEN "PORT"
                  ELSE IF \/ FileStates(in, "seeds", s) \/ FileStates(in, "yaml", s)
                          \/ s = "VALKEY_DB" /\ FilesRead(in) # {}
                  THEN "yaml" ELSE EnvironmentSource(in, s)
<1> DEFINE c == OverrideWithEnvFromDotenv(in, OverrideWithEnv(in, Defaults))
           b == BeforeSeeds(in)
           e == loadSeeds(in, b)
           ofFile(layer, x) == applyYAMLConfig(in[layer], layer, x)
<1>1. IsConfig(c) /\ c.value[s] = EnvironmentValue(in, s) /\ c.source[s] = EnvironmentSource(in, s)
  BY EnvironmentPasses
<1>2. b = IF "yaml" \in FilesRead(in) THEN ofFile("yaml", c) ELSE c
  BY ReadAre DEF BeforeSeeds, loadYAMLConfig
<1>3. e = IF "seeds" \in FilesRead(in) THEN ofFile("seeds", b) ELSE b
  BY ReadAre DEF loadSeeds, loadYAMLConfig, SeedsAreRead
<1>4. \A layer, x : /\ IsConfig(ofFile(layer, x))
                    /\ ofFile(layer, x).value[s] =
                         IF Stated(in[layer], FileKey(s)) THEN Value(layer, Entry(in[layer], s))
                         ELSE IF s = "VALKEY_DB" THEN "zero" ELSE x.value[s]
                    /\ s \notin {"GOOGLE_CLIENT_SECRET", "GOOGLE_ENABLED"} =>
                         ofFile(layer, x).source[s] =
                           IF s = "VALKEY_DB" \/ Stated(in[layer], FileKey(s)) THEN "yaml" ELSE x.source[s]
  BY ApplyYAMLConfigIs
<1>5. d = applyPort(in, e)
  BY DEF Config
<1> HIDE DEF c, b, e, ofFile
<1>6. IsConfig(b) /\ IsConfig(e)
  BY <1>1, <1>2, <1>3, <1>4
<1>7. /\ d.value[s] = IF s = "HTTP_PORT" /\ in.port THEN "PORT" ELSE e.value[s]
      /\ d.source[s] = IF s = "HTTP_PORT" /\ in.port THEN "PORT" ELSE e.source[s]
  BY <1>5, <1>6, ApplyPortIs
<1>8. in["yaml"] = in.yaml /\ in["seeds"] = in.seeds
  OBVIOUS
<1>9. FilesRead(in) # {} <=> "seeds" \in FilesRead(in) \/ "yaml" \in FilesRead(in)
  BY ReadAre
<1>10. /\ b.value[s] = IF FileStates(in, "yaml", s) THEN Value("yaml", Entry(in.yaml, s))
                       ELSE IF s = "VALKEY_DB" /\ "yaml" \in FilesRead(in) THEN "zero"
                       ELSE EnvironmentValue(in, s)
       /\ s \notin {"GOOGLE_CLIENT_SECRET", "GOOGLE_ENABLED"} =>
            b.source[s] = IF FileStates(in, "yaml", s) \/ (s = "VALKEY_DB" /\ "yaml" \in FilesRead(in))
                          THEN "yaml" ELSE EnvironmentSource(in, s)
  BY <1>1, <1>2, <1>4, <1>8 DEF FileStates
<1>11. /\ e.value[s] = IF FileStates(in, "seeds", s) THEN Value("seeds", Entry(in.seeds, s))
                       ELSE IF s = "VALKEY_DB" /\ "seeds" \in FilesRead(in) THEN "zero"
                       ELSE b.value[s]
       /\ s \notin {"GOOGLE_CLIENT_SECRET", "GOOGLE_ENABLED"} =>
            e.source[s] = IF FileStates(in, "seeds", s) \/ (s = "VALKEY_DB" /\ "seeds" \in FilesRead(in))
                          THEN "yaml" ELSE b.source[s]
  BY <1>3, <1>4, <1>8 DEF FileStates
<1> QED BY <1>7, <1>9, <1>10, <1>11

\* The order of the layers.
LEMMA LayersAre ==
    /\ Layer = {"PORT", "seeds", "yaml", "dotenv", "system", "default"}
    /\ \A l \in Layer : Mark[l] = IF l = "seeds" THEN "yaml" ELSE l
    /\ \A l \in Layer : ~(Priority[l] > Priority["PORT"])
    /\ \A l \in Layer : Priority[l] > Priority["seeds"] => l = "PORT"
    /\ \A l \in Layer : Priority[l] > Priority["yaml"] => l \in {"PORT", "seeds"}
    /\ \A l \in Layer : Priority[l] > Priority["dotenv"] => l \in {"PORT", "seeds", "yaml"}
    /\ \A l \in Layer : Priority[l] > Priority["system"] => l \in {"PORT", "seeds", "yaml", "dotenv"}
    /\ \A l \in Layer : Priority[l] > Priority["default"] => l # "default"
<1>1. Layer = {"PORT", "seeds", "yaml", "dotenv", "system", "default"}
  BY DEF Layer, Priority
<1>2. /\ Priority["PORT"] = 5 /\ Priority["seeds"] = 4 /\ Priority["yaml"] = 3
      /\ Priority["dotenv"] = 2 /\ Priority["system"] = 1 /\ Priority["default"] = 0
  BY DEF Priority
<1>3. \A l \in Layer : Mark[l] = IF l = "seeds" THEN "yaml" ELSE l
  BY DEF Mark
<1> QED BY <1>1, <1>2, <1>3

\* What the layers say.
LEMMA WordIs ==
    ASSUME NEW in, NEW s \in Setting
    PROVE  /\ Word(in, "default", s) = Default(s)
           /\ Word(in, "PORT", s) = IF s = "HTTP_PORT" /\ in.port THEN "PORT" ELSE "empty"
           /\ \A layer \in {"system", "dotenv"} :
                 Word(in, layer, s) =
                   IF s = "GOOGLE_ENABLED"
                   THEN IF Entry(in[layer], "GOOGLE_CLIENT_ID") = "given" THEN "on" ELSE "empty"
                   ELSE Value(layer, Entry(in[layer], s))
           /\ \A layer \in {"seeds", "yaml"} : Word(in, layer, s) = Value(layer, Entry(in[layer], s))
<1>1. Word(in, "default", s) = Default(s)
  BY DEF Word
<1>2. Word(in, "PORT", s) = IF s = "HTTP_PORT" /\ in.port THEN "PORT" ELSE "empty"
  BY DEF Word
<1>3. ASSUME NEW layer \in {"system", "dotenv"}
      PROVE  Word(in, layer, s) =
               IF s = "GOOGLE_ENABLED"
               THEN IF Entry(in[layer], "GOOGLE_CLIENT_ID") = "given" THEN "on" ELSE "empty"
               ELSE Value(layer, Entry(in[layer], s))
  BY <1>3 DEF Word
<1>4. ASSUME NEW layer \in {"seeds", "yaml"}
      PROVE  Word(in, layer, s) = Value(layer, Entry(in[layer], s))
  BY <1>4 DEF Word
<1> QED BY <1>1, <1>2, <1>3, <1>4

\* A file that states a setting may decide it, and no other file gives it without
\* being passed over.
LEMMA FileGives ==
    ASSUME NEW in, IsInput(in), NEW s \in Setting, NEW layer \in {"seeds", "yaml"}
    PROVE  /\ FileStates(in, layer, s) =>
                 /\ Gives(in, layer, s) \/ Erased(in, layer, s)
                 /\ Decided(in, layer, s) = Value(layer, Entry(in[layer], s))
           /\ ~FileStates(in, layer, s) /\ Gives(in, layer, s) => PassedOver(in, layer, s)
           /\ ~FileStates(in, layer, s) /\ s = "VALKEY_DB" /\ layer \in FilesRead(in) =>
                 /\ Gives(in, layer, s) \/ Erased(in, layer, s)
                 /\ Decided(in, layer, s) = "zero"
<1> DEFINE word == Word(in, layer, s)
           entry == Entry(in[layer], s)
           id == Entry(in[layer], "GOOGLE_CLIENT_ID")
<1>1. Says(in[layer], Setting, {"bad"})
  BY DEF IsInput
<1>2. word = Value(layer, entry)
  BY WordIs
<1>3. entry \in Possible(s) \ {"bad"} /\ (s # "GOOGLE_ENABLED" => (Stated(in[layer], s) <=> entry \notin {"empty", "off", "zero"}))
  BY <1>1, FilesAre
<1>4. "GOOGLE_CLIENT_ID" \in Setting /\ Possible("GOOGLE_CLIENT_ID") = {"empty", "given"}
      /\ "GOOGLE_CLIENT_ID" # "GOOGLE_ENABLED"
  BY DEF Setting, Possible, Provider, Number, Flag, List
<1>5. id \in {"empty", "given"} /\ (Stated(in[layer], "GOOGLE_CLIENT_ID") <=> id # "empty")
  BY <1>1, <1>4, FilesAre
<1>6. Gives(in, layer, s) <=> layer \in FilesRead(in) /\ word \notin {"empty", "bad"}
  BY DEF Gives, IsRead
<1>7. Erased(in, layer, s) <=>
        layer \in FilesRead(in) /\ word = "empty" /\ (s = "VALKEY_DB" \/ (s \in Provider /\ id # "empty"))
  BY DEF Erased
<1>8. FileStates(in, layer, s) <=> layer \in FilesRead(in) /\ Stated(in[layer], FileKey(s))
  BY DEF FileStates
<1>9. FileKey(s) = IF s \in Provider THEN "GOOGLE_CLIENT_ID" ELSE s
  BY DEF FileKey
<1>10. Decided(in, layer, s) = IF s = "VALKEY_DB" /\ Erased(in, layer, s) THEN "zero" ELSE word
  BY DEF Decided
<1>11. word = IF entry = "given" THEN layer ELSE entry
  BY <1>2 DEF Value
<1>12. /\ "VALKEY_DB" \notin Provider /\ "GOOGLE_ENABLED" \in Provider
       /\ s = "VALKEY_DB" => Possible(s) = {"empty", "given", "bad", "zero"}
  BY DEF Provider, Possible, Number, Flag, List
<1>13. (entry = "off" => s \in Flag \union {"GOOGLE_ENABLED"}) /\ (entry = "zero" => s \in Number)
  BY <1>3 DEF Possible
<1>14. PassedOver(in, layer, s) <=>
         \/ (s \in Flag /\ word = "off") \/ (s \in Number /\ word = "zero")
         \/ s \in Provider /\ id = "empty"
  BY DEF PassedOver, Hidden, Unheard, Bundled
<1> HIDE DEF word, entry, id
<1>15. CASE s \in Provider
  BY <1>2, <1>3, <1>5, <1>6, <1>7, <1>8, <1>9, <1>10, <1>11, <1>12, <1>14, <1>15 DEF word, entry
<1>16. CASE s \notin Provider
  BY <1>2, <1>3, <1>6, <1>7, <1>8, <1>9, <1>10, <1>11, <1>12, <1>13, <1>14, <1>16 DEF word, entry
<1> QED BY <1>15, <1>16

\* Where no file speaks, a variable may decide a setting, and the default where
\* no variable does.
LEMMA VariableGives ==
    ASSUME NEW in, IsInput(in), NEW s \in Setting
    PROVE  LET key == IF s = "GOOGLE_ENABLED" THEN "GOOGLE_CLIENT_ID" ELSE s
               layer == IF Getenv(in, key) \in {"empty", "bad"} THEN "default" ELSE GivenBy(in, key)
           IN  /\ layer \in {"dotenv", "system", "default"}
               /\ Gives(in, layer, s)
               /\ Decided(in, layer, s) = EnvironmentValue(in, s)
               /\ layer # "dotenv" /\ Gives(in, "dotenv", s) => PassedOver(in, "dotenv", s)
               /\ layer = "default" => ~Gives(in, "system", s)
               /\ s # "GOOGLE_ENABLED" =>
                     \/ EnvironmentSource(in, s) = layer
                     \/ EnvironmentSource(in, s) = "dotenv" /\ Mistaken(in, layer, s)
<1> DEFINE key == IF s = "GOOGLE_ENABLED" THEN "GOOGLE_CLIENT_ID" ELSE s
           layer == IF Getenv(in, key) \in {"empty", "bad"} THEN "default" ELSE GivenBy(in, key)
           word(l) == Word(in, l, s)
<1>1. key \in Setting /\ key # "GOOGLE_ENABLED" /\ (s = "GOOGLE_ENABLED" => Possible(key) = {"empty", "given"})
  BY DEF Setting, Possible, Provider, Number, Flag, List
<1>2. /\ GivenBy(in, key) = IF key \in DOMAIN in.system THEN "system" ELSE "dotenv"
      /\ Getenv(in, key) = Entry(in[GivenBy(in, key)], key)
      /\ Getenv(in, key) \in Possible(key)
      /\ key \notin DOMAIN in.system => Entry(in.system, key) = "empty"
  BY <1>1, EnvironmentIs DEF GivenBy, Entry
<1>3. \A l \in {"system", "dotenv"} :
        /\ word(l) = IF s = "GOOGLE_ENABLED" THEN IF Entry(in[l], key) = "given" THEN "on" ELSE "empty"
                     ELSE Value(l, Entry(in[l], key))
        /\ Gives(in, l, s) <=> word(l) \notin {"empty", "bad"}
  BY WordIs DEF Gives, IsRead
<1>4. in["system"] = in.system /\ in["dotenv"] = in.dotenv
  OBVIOUS
<1>5. \A l \in {"dotenv", "system", "default"} : Decided(in, l, s) = word(l)
  <2>1. FilesRead(in) \subseteq {"yaml", "seeds"}
    BY ReadAre
  <2> QED BY <2>1 DEF Decided, Erased
<1>6. PassedOver(in, "dotenv", s) <=> key \in DOMAIN in.system
  BY DEF PassedOver, Hidden, Unheard, Bundled
<1>7. Gives(in, "default", s) /\ word("default") = Default(s)
  BY WordIs DEF Gives, IsRead
<1>8. EnvironmentValue(in, s) =
        IF s = "GOOGLE_ENABLED" THEN IF Getenv(in, key) # "empty" THEN "on" ELSE "off"
        ELSE IF Getenv(in, key) \in {"empty", "bad"} THEN Default(s)
        ELSE Value(GivenBy(in, key), Getenv(in, key))
  BY DEF EnvironmentValue, FromEnv
<1>9. s = "GOOGLE_ENABLED" => Default(s) = "off"
  BY DEF Default
<1>10. \A l, e : Value(l, e) = IF e = "given" THEN l ELSE e
  BY DEF Value
<1>11. Mistaken(in, layer, s) <=> layer \in {"system", "default"} /\ s \notin Captured /\ Getenv(in, s) # "empty"
  BY DEF Mistaken
<1>12. /\ EnvironmentSource(in, s) = IF Getenv(in, s) = "empty" THEN "default"
                                    ELSE IF IsCaptured(in, s) THEN "system" ELSE "dotenv"
       /\ IsCaptured(in, s) <=> s \in Captured /\ Entry(in.system, s) # "empty"
  BY DEF EnvironmentSource, IsCaptured
<1>13. s \in Captured => "bad" \notin Possible(s)
  BY Kinds DEF Possible
<1>14. s # "GOOGLE_ENABLED" => key = s
  OBVIOUS
<1> HIDE DEF key, word, layer
<1>15. layer = IF Getenv(in, key) \in {"empty", "bad"} THEN "default" ELSE GivenBy(in, key)
  BY DEF layer
<1>16. /\ layer \in {"dotenv", "system", "default"}
       /\ layer = "default" => ~Gives(in, "system", s)
       /\ layer # "dotenv" /\ Gives(in, "dotenv", s) => PassedOver(in, "dotenv", s)
  BY <1>2, <1>3, <1>4, <1>6, <1>10, <1>15
<1>17. Gives(in, layer, s) /\ Decided(in, layer, s) = EnvironmentValue(in, s)
  <2>1. CASE layer = "default"
    BY <1>1, <1>2, <1>5, <1>7, <1>8, <1>9, <1>15, <2>1
  <2>2. CASE layer # "default"
    <3>1. layer = GivenBy(in, key) /\ layer \in {"system", "dotenv"} /\ Getenv(in, key) \notin {"empty", "bad"}
      BY <1>2, <1>15, <2>2
    <3>2. Getenv(in, key) = Entry(in[layer], key)
      BY <1>2, <3>1
    <3>3. s = "GOOGLE_ENABLED" => Entry(in[layer], key) = "given"
      BY <1>1, <1>2, <3>1, <3>2
    <3> QED BY <1>3, <1>5, <1>8, <1>10, <3>1, <3>2, <3>3
  <2> QED BY <2>1, <2>2
<1>18. s # "GOOGLE_ENABLED" =>
         \/ EnvironmentSource(in, s) = layer
         \/ EnvironmentSource(in, s) = "dotenv" /\ Mistaken(in, layer, s)
  BY <1>2, <1>4, <1>11, <1>12, <1>13, <1>14, <1>15
<1> QED BY <1>16, <1>17, <1>18 DEF layer, key

\* What Load ends with is in the documented order, its departures aside.
LEMMA ConfigExplained ==
    ASSUME NEW in, IsInput(in), NEW s \in Setting
    PROVE  Explained(in, Config(in), s)
<1> DEFINE c == Config(in)
           named == s \notin {"GOOGLE_CLIENT_SECRET", "GOOGLE_ENABLED"}
<1>1. /\ c.value[s] =
           IF s = "HTTP_PORT" /\ in.port THEN "PORT"
           ELSE IF FileStates(in, "seeds", s) THEN Value("seeds", Entry(in.seeds, s))
           ELSE IF s = "VALKEY_DB" /\ "seeds" \in FilesRead(in) THEN "zero"
           ELSE IF FileStates(in, "yaml", s) THEN Value("yaml", Entry(in.yaml, s))
           ELSE IF s = "VALKEY_DB" /\ "yaml" \in FilesRead(in) THEN "zero"
           ELSE EnvironmentValue(in, s)
      /\ named => c.source[s] =
           IF s = "HTTP_PORT" /\ in.port THEN "PORT"
           ELSE IF \/ FileStates(in, "seeds", s) \/ FileStates(in, "yaml", s)
                   \/ s = "VALKEY_DB" /\ FilesRead(in) # {}
           THEN "yaml" ELSE EnvironmentSource(in, s)
  BY ConfigIs
<1> DEFINE fromFile(l) == FileStates(in, l, s) \/ (s = "VALKEY_DB" /\ l \in FilesRead(in))
<1>2. \A l \in Layer :
        MayDecide(in, l, s) <=>
          /\ Gives(in, l, s) \/ Erased(in, l, s)
          /\ \A m \in Layer : Priority[m] > Priority[l] /\ Gives(in, m, s) => PassedOver(in, m, s)
  BY DEF MayDecide
<1>3. SUFFICES \E l \in Layer :
          /\ MayDecide(in, l, s) /\ c.value[s] = Decided(in, l, s)
          /\ named => \/ c.source[s] = Mark[l]
                      \/ c.source[s] = "dotenv" /\ Mistaken(in, l, s)
  BY DEF Explained
<1>4. ~(s = "HTTP_PORT" /\ in.port) => ~Gives(in, "PORT", s)
  BY WordIs DEF Gives
<1>5. \A l \in {"seeds", "yaml"} :
        /\ ~FileStates(in, l, s) /\ Gives(in, l, s) => PassedOver(in, l, s)
        /\ FileStates(in, l, s) => /\ Gives(in, l, s) \/ Erased(in, l, s)
                                   /\ Decided(in, l, s) = Value(l, Entry(in[l], s))
        /\ ~FileStates(in, l, s) /\ s = "VALKEY_DB" /\ l \in FilesRead(in) =>
              /\ Gives(in, l, s) \/ Erased(in, l, s)
              /\ Decided(in, l, s) = "zero"
  BY FileGives
<1>6. in["yaml"] = in.yaml /\ in["seeds"] = in.seeds
  OBVIOUS
<1>7. /\ FileStates(in, "seeds", s) => "seeds" \in FilesRead(in)
      /\ FileStates(in, "yaml", s) => "yaml" \in FilesRead(in)
      /\ FilesRead(in) \subseteq {"yaml", "seeds"}
  BY ReadAre DEF FileStates
<1> HIDE DEF c, named
<1>8. CASE s = "HTTP_PORT" /\ in.port
  <2>1. Gives(in, "PORT", s) /\ Decided(in, "PORT", s) = "PORT"
    BY <1>8, WordIs DEF Gives, IsRead, Decided
  <2>2. "PORT" \in Layer /\ Mark["PORT"] = "PORT" /\ MayDecide(in, "PORT", s)
    BY <1>2, <2>1, LayersAre
  <2>3. c.value[s] = "PORT" /\ (named => c.source[s] = "PORT")
    BY <1>1, <1>8
  <2> QED BY <2>1, <2>2, <2>3
<1>9. CASE ~(s = "HTTP_PORT" /\ in.port) /\ fromFile("seeds")
  <2>1. /\ Gives(in, "seeds", s) \/ Erased(in, "seeds", s)
        /\ c.value[s] = Decided(in, "seeds", s) /\ (named => c.source[s] = "yaml")
    <3>1. CASE FileStates(in, "seeds", s)
      BY <1>1, <1>5, <1>6, <1>9, <3>1
    <3>2. CASE ~FileStates(in, "seeds", s)
      BY <1>1, <1>5, <1>9, <3>2
    <3> QED BY <3>1, <3>2
  <2>2. "seeds" \in Layer /\ Mark["seeds"] = "yaml" /\ MayDecide(in, "seeds", s)
    BY <1>2, <1>4, <1>9, <2>1, LayersAre
  <2> QED BY <2>1, <2>2
<1>10. CASE ~(s = "HTTP_PORT" /\ in.port) /\ ~fromFile("seeds") /\ fromFile("yaml")
  <2>1. /\ Gives(in, "yaml", s) \/ Erased(in, "yaml", s)
        /\ c.value[s] = Decided(in, "yaml", s) /\ (named => c.source[s] = "yaml")
    <3>1. CASE FileStates(in, "yaml", s)
      BY <1>1, <1>5, <1>6, <1>10, <3>1
    <3>2. CASE ~FileStates(in, "yaml", s)
      BY <1>1, <1>5, <1>10, <3>2
    <3> QED BY <3>1, <3>2
  <2>2. "yaml" \in Layer /\ Mark["yaml"] = "yaml" /\ MayDecide(in, "yaml", s)
    BY <1>2, <1>4, <1>5, <1>10, <2>1, LayersAre
  <2> QED BY <2>1, <2>2
<1>11. CASE ~(s = "HTTP_PORT" /\ in.port) /\ ~fromFile("seeds") /\ ~fromFile("yaml")
  <2> DEFINE key == IF s = "GOOGLE_ENABLED" THEN "GOOGLE_CLIENT_ID" ELSE s
             l == IF Getenv(in, key) \in {"empty", "bad"} THEN "default" ELSE GivenBy(in, key)
  <2>1. /\ l \in {"dotenv", "system", "default"}
        /\ Gives(in, l, s) /\ Decided(in, l, s) = EnvironmentValue(in, s)
        /\ l # "dotenv" /\ Gives(in, "dotenv", s) => PassedOver(in, "dotenv", s)
        /\ l = "default" => ~Gives(in, "system", s)
        /\ s # "GOOGLE_ENABLED" =>
              \/ EnvironmentSource(in, s) = l
              \/ EnvironmentSource(in, s) = "dotenv" /\ Mistaken(in, l, s)
    BY VariableGives
  <2> HIDE DEF l, key
  <2>2. c.value[s] = EnvironmentValue(in, s)
    BY <1>1, <1>11
  <2>3. named => c.source[s] = EnvironmentSource(in, s) /\ s # "GOOGLE_ENABLED"
    BY <1>1, <1>7, <1>11 DEF named
  <2>4. l \in Layer /\ Mark[l] = l
    BY <2>1, LayersAre
  <2>5. ASSUME NEW m \in Layer, Priority[m] > Priority[l], Gives(in, m, s)
        PROVE  PassedOver(in, m, s)
    <3>1. m \in {"PORT", "seeds", "yaml", "dotenv", "system"} /\ m # l
          /\ (l = "dotenv" => m \in {"PORT", "seeds", "yaml"}) /\ (l = "system" => m # "system")
      BY <2>1, <2>5, LayersAre
    <3> QED BY <1>4, <1>5, <1>11, <2>1, <2>5, <3>1
  <2>6. MayDecide(in, l, s)
    BY <1>2, <2>1, <2>4, <2>5
  <2> QED BY <2>1, <2>2, <2>3, <2>4, <2>6
<1> QED BY <1>8, <1>9, <1>10, <1>11

\* What a process seeds is one of the lists of the files.
LEMMA SeedsConfigured ==
    ASSUME NEW in, IsInput(in)
    PROVE  Config(in).value["SEEDS"] \in {"empty", "yaml", "seeds"}
<1>1. /\ "SEEDS" \in Setting /\ Possible("SEEDS") = {"empty", "given"} /\ Default("SEEDS") = "empty"
      /\ FileKey("SEEDS") = "SEEDS"
  BY DEF Setting, Possible, Default, Number, Flag, List, FileKey, Provider
<1>2. EnvironmentValue(in, "SEEDS") = "empty"
  BY <1>1, EnvironmentIs DEF EnvironmentValue
<1>3. Entry(in.yaml, "SEEDS") \in {"empty", "given"} /\ Entry(in.seeds, "SEEDS") \in {"empty", "given"}
  BY <1>1, FilesAre DEF IsInput
<1>4. /\ Value("seeds", Entry(in.seeds, "SEEDS")) \in {"empty", "seeds"}
      /\ Value("yaml", Entry(in.yaml, "SEEDS")) \in {"empty", "yaml"}
  BY <1>3 DEF Value
<1> QED BY <1>1, <1>2, <1>4, ConfigIs

-----------------------------------------------------------------------------
(* Seeders: where they are, and the roles they give.                       *)

\* The state is what it is a function of.
SeedShapes ==
    /\ place = [p \in Process |-> place[p]] /\ index = [p \in Process |-> index[p]]
    /\ config = [p \in Process |-> config[p]]
    /\ roles = [u \in User |-> roles[u]] /\ asked = [u \in User |-> asked[u]]

\* A seeder past the lookup of a user deals with one that exists.
UserPlace == {"profile", "role", "clear", "assign"}

UsersExist ==
    /\ \A p \in Process : place[p] \in UserPlace => Seeded(p) \in users
    /\ \A u \in User : asked[u] # {} => u \in users

\* The roles of a user some seeder has asked for are among those asked for, and there
\* is one unless a seeder is about to insert it or died there.
RolesAreAsked ==
    \A u \in User :
        /\ (\E p \in Process : place[p] = "assign" /\ Seeded(p) = u) => roles[u] \subseteq asked[u]
        /\ asked[u] # {} => roles[u] \subseteq asked[u]
        /\ \/ asked[u] = {} \/ u \in torn \/ roles[u] # {}
           \/ \E p \in Process : place[p] = "assign" /\ Seeded(p) = u

SeedInv == SeedShapes /\ UsersExist /\ RolesAreAsked

\* What the end of a statement of one process changes.
LEMMA MoveIs ==
    ASSUME SeedShapes, NEW p \in Process, NEW where, NEW i, GoTo(p, where, i)
    PROVE  /\ place'[p] = where /\ index'[p] = i /\ config' = config
           /\ \A q \in Process \ {p} : place'[q] = place[q] /\ index'[q] = index[q]
           /\ place' = [q \in Process |-> place'[q]] /\ index' = [q \in Process |-> index'[q]]
           /\ Users(p)' = Users(p)
           /\ \A q \in Process \ {p} : Seeded(q)' = Seeded(q)
           /\ i = index[p] => Seeded(p)' = Seeded(p)
BY DEF SeedShapes, GoTo, Users, Seeded

\* A step that changes no role and takes no process to or from the insertion of one.
LEMMA NothingAssigned ==
    ASSUME SeedInv, NEW p \in Process, NEW where, NEW i, GoTo(p, where, i),
           place[p] # "assign", where # "assign",
           where \in UserPlace => i = index[p] /\ Seeded(p) \in users',
           users \subseteq users', roles' = roles, asked' = asked, torn' = torn
    PROVE  SeedInv'
<1>1. SeedShapes'
  BY MoveIs DEF SeedInv, SeedShapes
<1>2. UsersExist'
  BY MoveIs DEF SeedInv, UsersExist
<1>3. \A q \in Process : \A u : place'[q] = "assign" /\ Seeded(q)' = u <=> place[q] = "assign" /\ Seeded(q) = u
  BY MoveIs DEF SeedInv
<1>4. RolesAreAsked'
  <2> SUFFICES ASSUME NEW u \in User
               PROVE /\ (\E q \in Process : place'[q] = "assign" /\ Seeded(q)' = u) => roles[u] \subseteq asked[u]
                     /\ asked[u] # {} => roles[u] \subseteq asked[u]
                     /\ \/ asked[u] = {} \/ u \in torn \/ roles[u] # {}
                        \/ \E q \in Process : place'[q] = "assign" /\ Seeded(q)' = u
    BY DEF RolesAreAsked
  <2> QED BY <1>3 DEF SeedInv, RolesAreAsked
<1> QED BY <1>1, <1>2, <1>4 DEF SeedInv

\* The DELETE: from here to the INSERT the user may be without a role.
LEMMA ClearKeeps ==
    ASSUME SeedInv, NEW p \in Process, ClearRoles(p)
    PROVE  SeedInv'
<1> DEFINE u == Seeded(p)
<1>1. /\ place[p] = "clear" /\ GoTo(p, "assign", index[p])
      /\ roles' = [roles EXCEPT ![u] = {}]
      /\ users' = users /\ asked' = asked /\ torn' = torn
  BY DEF ClearRoles, At, history
<1>2. place'[p] = "assign" /\ Seeded(p)' = u
  BY <1>1, MoveIs DEF SeedInv
<1>3. \A q \in Process \ {p} : place'[q] = place[q] /\ Seeded(q)' = Seeded(q)
  BY <1>1, MoveIs DEF SeedInv
<1> HIDE DEF u
<1>4. SeedShapes'
  BY <1>1, MoveIs DEF SeedInv, SeedShapes
<1>5. UsersExist'
  BY <1>1, <1>2, <1>3 DEF SeedInv, UsersExist, UserPlace, u
<1>6. \A v \in User : roles'[v] = IF v = u THEN {} ELSE roles[v]
  BY <1>1 DEF SeedInv, SeedShapes
<1>7. RolesAreAsked'
  <2> SUFFICES ASSUME NEW v \in User
               PROVE /\ (\E q \in Process : place'[q] = "assign" /\ Seeded(q)' = v) => roles'[v] \subseteq asked[v]
                     /\ asked[v] # {} => roles'[v] \subseteq asked[v]
                     /\ \/ asked[v] = {} \/ v \in torn \/ roles'[v] # {}
                        \/ \E q \in Process : place'[q] = "assign" /\ Seeded(q)' = v
    BY <1>1 DEF RolesAreAsked
  <2>1. CASE v = u
    BY <1>2, <1>6, <2>1
  <2>2. CASE v # u
    <3>1. roles'[v] = roles[v]
      BY <1>6, <2>2
    <3>2. \A q \in Process : place'[q] = "assign" /\ Seeded(q)' = v <=> place[q] = "assign" /\ Seeded(q) = v
      BY <1>1, <1>2, <1>3, <2>2
    <3> QED BY <3>1, <3>2 DEF SeedInv, RolesAreAsked
  <2> QED BY <2>1, <2>2
<1> QED BY <1>4, <1>5, <1>7 DEF SeedInv

\* The INSERT: the user has at least this role, and it was asked for.
LEMMA AssignKeeps ==
    ASSUME SeedInv, NEW p \in Process, AssignRole(p)
    PROVE  SeedInv'
<1> DEFINE u == Seeded(p)
           r == RoleOf(p)
<1>1. /\ place[p] = "assign"
      /\ roles' = [roles EXCEPT ![u] = roles[u] \union {r}]
      /\ asked' = [asked EXCEPT ![u] = asked[u] \union {r}]
      /\ torn' = torn \ {u} /\ users' = users
  BY DEF AssignRole, At
<1>2. PICK where \in {"lookup", "done"} : \E i : GoTo(p, where, i)
  BY DEF AssignRole, NextOf
<1>3. place'[p] = where
  BY <1>2, MoveIs DEF SeedInv
<1>4. \A q \in Process \ {p} : place'[q] = place[q] /\ Seeded(q)' = Seeded(q)
  BY <1>2, MoveIs DEF SeedInv
<1>5. u \in users
  BY <1>1 DEF SeedInv, UsersExist, UserPlace
<1> HIDE DEF u, r
<1>6. SeedShapes'
  BY <1>1, <1>2, MoveIs DEF SeedInv, SeedShapes
<1>7. \A v \in User : /\ roles'[v] = IF v = u THEN roles[v] \union {r} ELSE roles[v]
                      /\ asked'[v] = IF v = u THEN asked[v] \union {r} ELSE asked[v]
  BY <1>1 DEF SeedInv, SeedShapes
<1>8. UsersExist'
  <2>1. \A q \in Process : place'[q] \in UserPlace => Seeded(q)' \in users
    BY <1>3, <1>4 DEF SeedInv, UsersExist, UserPlace
  <2>2. \A v \in User : asked'[v] # {} => v \in users
    BY <1>5, <1>7 DEF SeedInv, UsersExist
  <2> QED BY <1>1, <2>1, <2>2 DEF UsersExist
<1>9. RolesAreAsked'
  <2> SUFFICES ASSUME NEW v \in User
               PROVE /\ (\E q \in Process : place'[q] = "assign" /\ Seeded(q)' = v) => roles'[v] \subseteq asked'[v]
                     /\ asked'[v] # {} => roles'[v] \subseteq asked'[v]
                     /\ \/ asked'[v] = {} \/ v \in torn' \/ roles'[v] # {}
                        \/ \E q \in Process : place'[q] = "assign" /\ Seeded(q)' = v
    BY DEF RolesAreAsked
  <2>1. CASE v = u
    <3>1. roles[v] \subseteq asked[v]
      BY <1>1, <2>1 DEF SeedInv, RolesAreAsked, u
    <3> QED BY <1>7, <2>1, <3>1
  <2>2. CASE v # u
    <3>1. roles'[v] = roles[v] /\ asked'[v] = asked[v] /\ (v \in torn' <=> v \in torn)
      BY <1>1, <1>7, <2>2
    <3>2. \A q \in Process : place'[q] = "assign" /\ Seeded(q)' = v <=> place[q] = "assign" /\ Seeded(q) = v
      BY <1>1, <1>3, <1>4, <2>2 DEF u
    <3> QED BY <3>1, <3>2 DEF SeedInv, RolesAreAsked
  <2> QED BY <2>1, <2>2
<1> QED BY <1>6, <1>8, <1>9 DEF SeedInv

\* A seeder that dies; between DELETE and INSERT it leaves its user torn.
LEMMA InterruptKeeps ==
    ASSUME SeedInv, NEW p \in Process, Interrupt(p)
    PROVE  SeedInv'
<1>1. /\ GoTo(p, "interrupted", 1)
      /\ torn' = IF place[p] = "assign" THEN torn \union {Seeded(p)} ELSE torn
      /\ users' = users /\ roles' = roles /\ asked' = asked
  BY DEF Interrupt, At, accounts
<1>2. place'[p] = "interrupted"
  BY <1>1, MoveIs DEF SeedInv
<1>3. \A q \in Process \ {p} : place'[q] = place[q] /\ Seeded(q)' = Seeded(q)
  BY <1>1, MoveIs DEF SeedInv
<1>4. SeedShapes'
  BY <1>1, MoveIs DEF SeedInv, SeedShapes
<1>5. UsersExist'
  BY <1>1, <1>2, <1>3 DEF SeedInv, UsersExist, UserPlace
<1>6. RolesAreAsked'
  <2> SUFFICES ASSUME NEW v \in User
               PROVE /\ (\E q \in Process : place'[q] = "assign" /\ Seeded(q)' = v) => roles[v] \subseteq asked[v]
                     /\ asked[v] # {} => roles[v] \subseteq asked[v]
                     /\ \/ asked[v] = {} \/ v \in torn' \/ roles[v] # {}
                        \/ \E q \in Process : place'[q] = "assign" /\ Seeded(q)' = v
    BY <1>1 DEF RolesAreAsked
  <2>1. \A q \in Process : place'[q] = "assign" => q # p
    BY <1>2
  <2>2. (\E q \in Process : place'[q] = "assign" /\ Seeded(q)' = v)
          => \E q \in Process : place[q] = "assign" /\ Seeded(q) = v
    BY <1>3, <2>1
  <2>3. (\E q \in Process : place[q] = "assign" /\ Seeded(q) = v)
          => v \in torn' \/ \E q \in Process : place'[q] = "assign" /\ Seeded(q)' = v
    BY <1>1, <1>3
  <2>4. v \in torn => v \in torn'
    BY <1>1
  <2> QED BY <2>2, <2>3, <2>4 DEF SeedInv, RolesAreAsked
<1> QED BY <1>4, <1>5, <1>6 DEF SeedInv

\* A step that leaves places, indexes and configurations of seeders at work alone.
LEMMA LaunchKeeps ==
    ASSUME SeedInv, NEW p \in Process, Launch(p)
    PROVE  SeedInv'
<1>1. /\ place[p] \in Ended
      /\ users' = users /\ roles' = roles /\ asked' = asked /\ torn' = torn
  BY DEF Launch, Active, accounts
<1>2. /\ place'[p] \in {"failed", "sql", "serving"}
      /\ \A q \in Process \ {p} : place'[q] = place[q] /\ index'[q] = index[q] /\ config'[q] = config[q]
      /\ place' = [q \in Process |-> place'[q]] /\ index' = [q \in Process |-> index'[q]]
      /\ config' = [q \in Process |-> config'[q]]
  BY DEF Launch, SeedInv, SeedShapes
<1>3. SeedShapes'
  BY <1>1, <1>2 DEF SeedInv, SeedShapes
<1>4. \A q \in Process \ {p} : Seeded(q)' = Seeded(q)
  BY <1>2 DEF Seeded, Users
<1>5. UsersExist'
  BY <1>1, <1>2, <1>4 DEF SeedInv, UsersExist, UserPlace
<1>6. \A q \in Process : \A u : place'[q] = "assign" /\ Seeded(q)' = u <=> place[q] = "assign" /\ Seeded(q) = u
  BY <1>1, <1>2, <1>4 DEF Ended
<1>7. RolesAreAsked'
  <2> SUFFICES ASSUME NEW u \in User
               PROVE /\ (\E q \in Process : place'[q] = "assign" /\ Seeded(q)' = u) => roles[u] \subseteq asked[u]
                     /\ asked[u] # {} => roles[u] \subseteq asked[u]
                     /\ \/ asked[u] = {} \/ u \in torn \/ roles[u] # {}
                        \/ \E q \in Process : place'[q] = "assign" /\ Seeded(q)' = u
    BY <1>1 DEF RolesAreAsked
  <2> QED BY <1>6 DEF SeedInv, RolesAreAsked
<1> QED BY <1>3, <1>5, <1>7 DEF SeedInv

\* Who registers is no user yet, so no seeder has given it a role.
LEMMA RegisterKeeps ==
    ASSUME SeedInv, NEW u \in User, Register(u)
    PROVE  SeedInv'
<1>1. /\ u \notin users /\ users' = users \union {u} /\ roles' = [roles EXCEPT ![u] = {"user"}]
      /\ place' = place /\ index' = index /\ config' = config /\ asked' = asked /\ torn' = torn
  BY DEF Register, process, history
<1>2. \A q \in Process : Seeded(q)' = Seeded(q)
  BY <1>1 DEF Seeded, Users
<1>3. SeedShapes'
  BY <1>1 DEF SeedInv, SeedShapes
<1>4. UsersExist'
  BY <1>1, <1>2 DEF SeedInv, UsersExist
<1>5. RolesAreAsked'
  <2> SUFFICES ASSUME NEW v \in User
               PROVE /\ (\E q \in Process : place[q] = "assign" /\ Seeded(q)' = v) => roles'[v] \subseteq asked[v]
                     /\ asked[v] # {} => roles'[v] \subseteq asked[v]
                     /\ \/ asked[v] = {} \/ v \in torn \/ roles'[v] # {}
                        \/ \E q \in Process : place[q] = "assign" /\ Seeded(q)' = v
    BY <1>1 DEF RolesAreAsked
  <2>1. CASE v = u
    BY <1>1, <1>2, <2>1 DEF SeedInv, UsersExist, UserPlace
  <2>2. CASE v # u
    <3>1. roles'[v] = roles[v]
      BY <1>1, <2>2 DEF SeedInv, SeedShapes
    <3> QED BY <1>2, <3>1 DEF SeedInv, RolesAreAsked
  <2> QED BY <2>1, <2>2
<1> QED BY <1>3, <1>4, <1>5 DEF SeedInv

\* All statements of a seeder.
LEMMA SeedKeeps ==
    ASSUME SeedInv, NEW p \in Process, Seed(p)
    PROVE  SeedInv'
<1>1. CASE RunSQLSeeds(p)
  BY <1>1, NothingAssigned DEF RunSQLSeeds, At, UserPlace, accounts, history
<1>2. CASE FindRow(p)
  BY <1>2, NothingAssigned DEF FindRow, NextOf, At, UserPlace, accounts, history
<1>3. CASE InsertRow(p)
  BY <1>3, NothingAssigned DEF InsertRow, NextOf, GiveUp, At, UserPlace, accounts, history
<1>4. CASE GrantPermission(p)
  BY <1>4, NothingAssigned DEF GrantPermission, NextOf, At, UserPlace, accounts, history
<1>5. CASE GetUserByEmail(p)
  BY <1>5, NothingAssigned DEF GetUserByEmail, At, UserPlace, accounts, history
<1>6. CASE CreateUser(p)
  BY <1>6, NothingAssigned DEF CreateUser, GiveUp, At, UserPlace, accounts, history
<1>7. CASE UpdateUserProfile(p)
  BY <1>7, NothingAssigned DEF UpdateUserProfile, At, UserPlace, history, SeedInv, UsersExist
<1>8. CASE FindRole(p)
  BY <1>8, NothingAssigned DEF FindRole, GiveUp, At, UserPlace, accounts, history, SeedInv, UsersExist
<1> QED BY <1>1, <1>2, <1>3, <1>4, <1>5, <1>6, <1>7, <1>8, ClearKeeps, AssignKeeps DEF Seed

\* The inductive invariant of the roles.
LEMMA SeedInvHolds == SeedSpec => []SeedInv
<1>1. SeedInit => SeedInv
  BY DEF SeedInit, SeedInv, SeedShapes, UsersExist, RolesAreAsked, UserPlace
<1>2. ASSUME SeedInv, [SeedNext]_seedVars PROVE SeedInv'
  <2>1. CASE UNCHANGED seedVars
    <3>1. /\ place' = place /\ index' = index /\ config' = config /\ users' = users
          /\ roles' = roles /\ asked' = asked /\ torn' = torn
      BY <2>1 DEF seedVars, process, accounts, history
    <3>2. \A q \in Process : Seeded(q)' = Seeded(q)
      BY <3>1 DEF Seeded, Users
    <3> QED BY <1>2, <3>1, <3>2 DEF SeedInv, SeedShapes, UsersExist, RolesAreAsked
  <2> QED BY <1>2, <2>1, LaunchKeeps, SeedKeeps, InterruptKeeps, RegisterKeeps DEF SeedNext
<1> QED BY <1>1, <1>2, PTL DEF SeedSpec

\* With any number of seeders that overlap, disagree, fail or die, and registrations in
\* between: a user some seeder has given a role has one, and none that none has.
THEOREM SeededRolesHold == SeedSpec => []RolesAreSeeded
<1>1. SeedInv => RolesAreSeeded
  BY DEF SeedInv, RolesAreAsked, RolesAreSeeded, At
<1> QED BY <1>1, SeedInvHolds, PTL

-----------------------------------------------------------------------------
(* Seeders: what they have loaded, and what they leave.                    *)

\* A process that has loaded its configuration has what Load makes of its input.
ConfigsLoaded ==
    /\ plan \in Plans
    /\ \A p \in Process : place[p] \notin {"ready", "failed"} =>
          p \in DOMAIN plan /\ config[p] = Config(plan[p].input)

\* A process keeps the configuration that it was started with.
LEMMA LoadedKept ==
    ASSUME SeedShapes, ConfigsLoaded, NEW p \in Process, NEW where, NEW i, GoTo(p, where, i),
           place[p] \notin {"ready", "failed"}
    PROVE  ConfigsLoaded'
<1>1. plan' = plan /\ config' = config /\ \A q \in Process \ {p} : place'[q] = place[q]
  BY MoveIs DEF GoTo
<1> QED BY <1>1 DEF ConfigsLoaded

\* What a process runs with is what its Load returned.
LEMMA ConfigsStayLoaded == SeedSpec => []ConfigsLoaded
<1>1. SeedInit => ConfigsLoaded
  BY DEF SeedInit, ConfigsLoaded
<1>2. ASSUME SeedInv, ConfigsLoaded, [SeedNext]_seedVars PROVE ConfigsLoaded'
  <2>1. ASSUME NEW p \in Process, Launch(p) PROVE ConfigsLoaded'
    <3>1. /\ p \in DOMAIN plan /\ plan' = plan
          /\ config'[p] = Config(plan[p].input)
          /\ \A q \in Process \ {p} : place'[q] = place[q] /\ config'[q] = config[q]
      BY <1>2, <2>1 DEF Launch, SeedInv, SeedShapes
    <3> QED BY <1>2, <3>1 DEF ConfigsLoaded
  <2>2. ASSUME NEW p \in Process, Seed(p) \/ Interrupt(p) PROVE ConfigsLoaded'
    <3>1. place[p] \notin {"ready", "failed"}
      BY <2>2 DEF Seed, RunSQLSeeds, FindRow, InsertRow, GrantPermission, GetUserByEmail, CreateUser,
                  UpdateUserProfile, FindRole, ClearRoles, AssignRole, At, Interrupt, Active, Ended
    <3>2. \E where, i : GoTo(p, where, i)
      BY <2>2 DEF Seed, RunSQLSeeds, FindRow, InsertRow, GrantPermission, GetUserByEmail, CreateUser,
                  UpdateUserProfile, FindRole, ClearRoles, AssignRole, NextOf, GiveUp, Interrupt
    <3> QED BY <1>2, <3>1, <3>2, LoadedKept DEF SeedInv
  <2>3. ASSUME NEW u \in User, Register(u) PROVE ConfigsLoaded'
    BY <1>2, <2>3 DEF Register, process, ConfigsLoaded
  <2>4. CASE UNCHANGED seedVars
    BY <1>2, <2>4 DEF seedVars, process, ConfigsLoaded
  <2> QED BY <1>2, <2>1, <2>2, <2>3, <2>4 DEF SeedNext
<1> QED BY <1>1, <1>2, SeedInvHolds, PTL DEF SeedSpec

\* Whatever variables and files there are: a process whose Load succeeded runs with
\* values in the documented order and logs where they came from, but for the
\* departures that LoadIsExplained names.
THEOREM LoadFollowsLayers == SeedSpec => []LoadIsExplained
<1>1. ASSUME ConfigsLoaded PROVE LoadIsExplained
  <2> SUFFICES ASSUME NEW p \in Process, place[p] \notin {"ready", "failed"}, NEW s \in Setting
               PROVE  Explained(plan[p].input, config[p], s)
    BY DEF LoadIsExplained
  <2>1. config[p] = Config(plan[p].input) /\ IsInput(plan[p].input)
    BY <1>1, PlansAssumption DEF ConfigsLoaded
  <2> QED BY <2>1, ConfigExplained
<1> QED BY <1>1, ConfigsStayLoaded, PTL

-----------------------------------------------------------------------------

\* The lists a seeder goes through.
LEMMA CatalogLists ==
    /\ Len(Rows) \in Nat \ {0} /\ DOMAIN Rows = 1..Len(Rows)
    /\ Len(Assignments) \in Nat \ {0} /\ DOMAIN Assignments = 1..Len(Assignments)
<1>1. ASSUME NEW S, NEW s \in Seq(S), s # <<>> PROVE Len(s) \in Nat \ {0} /\ DOMAIN s = 1..Len(s)
  BY <1>1
<1> QED BY <1>1, CatalogAssumption

UserList(us) ==
    /\ Len(us) \in Nat /\ DOMAIN us = 1..Len(us)
    /\ \A i \in 1..Len(us) : us[i].user \in User
    /\ us # <<>> => Len(us) # 0

\* The users of a process are those of a file, or none.
LEMMA UsersAreLists ==
    ASSUME ConfigsLoaded, NEW p \in Process, place[p] \notin {"ready", "failed"}
    PROVE  UserList(Users(p)) /\ (Users(p) = <<>> \/ Users(p) = SeedUsers["yaml"] \/ Users(p) = SeedUsers["seeds"])
<1>1. config[p].value["SEEDS"] \in {"empty", "yaml", "seeds"}
  BY PlansAssumption, SeedsConfigured DEF ConfigsLoaded
<1>2. Users(p) = <<>> \/ Users(p) = SeedUsers["yaml"] \/ Users(p) = SeedUsers["seeds"]
  BY <1>1 DEF Users
<1>3. ASSUME NEW S, NEW s \in Seq(S)
      PROVE Len(s) \in Nat /\ DOMAIN s = 1..Len(s) /\ (s # <<>> => Len(s) # 0)
  BY <1>3
<1>4. UserList(<<>>)
  BY DEF UserList
<1>5. ASSUME NEW file \in {"yaml", "seeds"} PROVE UserList(SeedUsers[file])
  <2>1. SeedUsers[file] \in Seq({SeedUsers[file][i] : i \in DOMAIN SeedUsers[file]})
    BY SeedUsersAssumption
  <2> QED BY <1>3, <2>1, SeedUsersAssumption DEF UserList
<1> QED BY <1>2, <1>4, <1>5

\* Where a seeder is in its loops.
Listed == UserPlace \union {"lookup", "create"}

InRange(where, i, us) ==
    /\ where \in {"find", "insert"} => i \in 1..Len(Rows)
    /\ where = "grant" => i \in 1..Len(Assignments)
    /\ where \in Listed => i \in 1..Len(us)

\* What is in the catalog by then.
CatalogDone(where, i, found, granted) ==
    /\ where \in {"find", "insert"} => \A j \in 1..(i - 1) : Rows[j] \in found
    /\ where \in {"grant", "done"} \union Listed => \A j \in 1..Len(Rows) : Rows[j] \in found
    /\ where = "grant" => \A j \in 1..(i - 1) : Assignments[j] \in granted
    /\ where \in {"done"} \union Listed => \A j \in 1..Len(Assignments) : Assignments[j] \in granted

\* What users a seeder that is alone has seeded by then.
UsersDone(where, i, us, exist, given) ==
    where \in Listed =>
        /\ \A j \in 1..(i - 1) :
              /\ us[j].user \in exist
              /\ given[us[j].user] = {us[j].role} \/ (where = "assign" /\ us[j].user = us[i].user)
        /\ where = "assign" => given[us[i].user] = {}

\* A seeder that did not overlap is alone.
Alone ==
    \A p, q \in Process :
        place[p] \notin Ended /\ p \notin overlapped /\ q # p => place[q] \in Ended

HealInv ==
    /\ rows \subseteq {Rows[i] : i \in DOMAIN Rows}
    /\ grants \subseteq {Assignments[i] : i \in DOMAIN Assignments}
    /\ Alone
    /\ \A p \in Process :
          /\ InRange(place[p], index[p], Users(p))
          /\ CatalogDone(place[p], index[p], rows, grants)
          /\ p \notin overlapped => UsersDone(place[p], index[p], Users(p), users, roles)

SeedWell == SeedInv /\ ConfigsLoaded /\ HealInv

\* The invariant after a statement of one process.
LEMMA HealMove ==
    ASSUME SeedWell, NEW p \in Process, NEW where, NEW i, GoTo(p, where, i),
           place[p] \notin Ended, where = "done" \/ where = "failed" \/ where = "interrupted" \/ where \notin Ended,
           rows \subseteq rows', rows' \subseteq {Rows[j] : j \in DOMAIN Rows},
           grants \subseteq grants', grants' \subseteq {Assignments[j] : j \in DOMAIN Assignments},
           overlapped' = overlapped,
           InRange(where, i, Users(p)), CatalogDone(where, i, rows', grants'),
           p \notin overlapped => UsersDone(where, i, Users(p), users', roles')
    PROVE  HealInv'
<1>1. /\ place'[p] = where /\ index'[p] = i /\ Users(p)' = Users(p) /\ config' = config
      /\ \A q \in Process \ {p} : place'[q] = place[q] /\ index'[q] = index[q]
  BY MoveIs DEF SeedWell, SeedInv
<1>2. Alone'
  BY <1>1 DEF SeedWell, HealInv, Alone
<1>3. ASSUME NEW q \in Process
      PROVE  /\ InRange(place'[q], index'[q], Users(q)')
             /\ CatalogDone(place'[q], index'[q], rows', grants')
             /\ q \notin overlapped' => UsersDone(place'[q], index'[q], Users(q)', users', roles')
  <2>1. CASE q = p
    BY <1>1, <2>1
  <2>2. CASE q # p
    <3>1. place'[q] = place[q] /\ index'[q] = index[q] /\ Users(q)' = Users(q)
      BY <1>1, <2>2 DEF Users
    <3>2. InRange(place[q], index[q], Users(q)) /\ CatalogDone(place[q], index[q], rows, grants)
      BY DEF SeedWell, HealInv
    <3>3. CatalogDone(place[q], index[q], rows', grants')
      BY <3>2 DEF CatalogDone
    <3>4. q \notin overlapped => place[q] \in Ended
      BY <2>2 DEF SeedWell, HealInv, Alone
    <3>5. place[q] \in Ended => UsersDone(place[q], index[q], Users(q), users', roles')
      BY DEF Ended, UsersDone, Listed, UserPlace
    <3> QED BY <3>1, <3>2, <3>3, <3>4, <3>5
  <2> QED BY <2>1, <2>2
<1> QED BY <1>2, <1>3 DEF HealInv

\* The invariant, read for the one process that moves.
LEMMA PlacesAt ==
    ASSUME SeedWell, NEW p \in Process, place[p] \notin Ended
    PROVE  /\ UserList(Users(p))
           /\ InRange(place[p], index[p], Users(p))
           /\ CatalogDone(place[p], index[p], rows, grants)
           /\ p \notin overlapped => UsersDone(place[p], index[p], Users(p), users, roles)
           /\ rows \subseteq {Rows[i] : i \in DOMAIN Rows}
           /\ grants \subseteq {Assignments[i] : i \in DOMAIN Assignments}
BY UsersAreLists DEF SeedWell, HealInv, Ended

\* From the SQL files to the rows.
LEMMA SQLHeals ==
    ASSUME SeedWell, NEW p \in Process, RunSQLSeeds(p)
    PROVE  HealInv'
<1>1. /\ place[p] = "sql" /\ GoTo(p, "find", 1)
      /\ rows' = rows /\ grants' = grants /\ overlapped' = overlapped
  BY DEF RunSQLSeeds, At, catalog, history
<1>2. place[p] \notin Ended /\ "find" \notin Ended
  BY <1>1 DEF Ended
<1>3. InRange("find", 1, Users(p)) /\ CatalogDone("find", 1, rows, grants)
      /\ UsersDone("find", 1, Users(p), users', roles')
  BY CatalogLists DEF InRange, CatalogDone, UsersDone, Listed, UserPlace
<1> QED BY <1>1, <1>2, <1>3, PlacesAt, HealMove

\* A step over a row that is there.
LEMMA RowStep ==
    ASSUME SeedWell, NEW p \in Process, place[p] \in {"find", "insert"},
           rows' = rows \union {Rows[index[p]]}, NextOf(p, Len(Rows), "find", "grant"),
           UNCHANGED <<grants, overlapped>>
    PROVE  HealInv'
<1>1. place[p] \notin Ended
  BY DEF Ended
<1>2. index[p] \in 1..Len(Rows) /\ \A j \in 1..(index[p] - 1) : Rows[j] \in rows
  BY <1>1, PlacesAt DEF InRange, CatalogDone
<1>3. \A j \in 1..index[p] : Rows[j] \in rows'
  BY <1>2, CatalogLists
<1>4. rows \subseteq rows' /\ rows' \subseteq {Rows[j] : j \in DOMAIN Rows}
  BY <1>1, <1>2, PlacesAt, CatalogLists
<1>5. CASE index[p] < Len(Rows)
  <2>1. GoTo(p, "find", index[p] + 1) /\ "find" \notin Ended
    BY <1>5 DEF NextOf, Ended
  <2>2. InRange("find", index[p] + 1, Users(p)) /\ CatalogDone("find", index[p] + 1, rows', grants')
        /\ UsersDone("find", index[p] + 1, Users(p), users', roles')
    BY <1>2, <1>3, <1>5, CatalogLists DEF InRange, CatalogDone, UsersDone, Listed, UserPlace
  <2> QED BY <1>1, <1>4, <2>1, <2>2, PlacesAt, HealMove
<1>6. CASE ~(index[p] < Len(Rows))
  <2>1. GoTo(p, "grant", 1) /\ "grant" \notin Ended
    BY <1>6 DEF NextOf, Ended
  <2>2. index[p] = Len(Rows)
    BY <1>2, <1>6, CatalogLists
  <2>3. InRange("grant", 1, Users(p)) /\ CatalogDone("grant", 1, rows', grants')
        /\ UsersDone("grant", 1, Users(p), users', roles')
    BY <1>3, <2>2, CatalogLists DEF InRange, CatalogDone, UsersDone, Listed, UserPlace
  <2> QED BY <1>1, <1>4, <2>1, <2>3, PlacesAt, HealMove
<1> QED BY <1>5, <1>6

\* A seeder that fails or dies promises nothing.
LEMMA GiveUpHeals ==
    ASSUME SeedWell, NEW p \in Process, place[p] \notin Ended,
           NEW where \in {"failed", "interrupted"}, GoTo(p, where, 1),
           UNCHANGED <<rows, grants, overlapped>>
    PROVE  HealInv'
<1>1. InRange(where, 1, Users(p)) /\ CatalogDone(where, 1, rows', grants')
      /\ UsersDone(where, 1, Users(p), users', roles')
  BY DEF InRange, CatalogDone, UsersDone, Listed, UserPlace
<1> QED BY <1>1, PlacesAt, HealMove

\* A row that is there needs no insert.
LEMMA FindHeals ==
    ASSUME SeedWell, NEW p \in Process, FindRow(p)
    PROVE  HealInv'
<1>1. place[p] = "find" /\ place[p] \notin Ended /\ UNCHANGED <<rows, grants, overlapped>>
  BY DEF FindRow, At, catalog, history, Ended
<1>2. CASE Rows[index[p]] \in rows
  <2>1. rows' = rows \union {Rows[index[p]]}
    BY <1>1, <1>2
  <2> QED BY <1>1, <1>2, <2>1, RowStep DEF FindRow
<1>3. CASE Rows[index[p]] \notin rows
  <2>1. GoTo(p, "insert", index[p]) /\ "insert" \notin Ended
    BY <1>3 DEF FindRow, Ended
  <2>2. InRange("insert", index[p], Users(p)) /\ CatalogDone("insert", index[p], rows', grants')
        /\ UsersDone("insert", index[p], Users(p), users', roles')
    BY <1>1, PlacesAt DEF InRange, CatalogDone, UsersDone, Listed, UserPlace
  <2> QED BY <1>1, <2>1, <2>2, PlacesAt, HealMove
<1> QED BY <1>2, <1>3

\* One that is not is inserted, or the seeder fails.
LEMMA InsertHeals ==
    ASSUME SeedWell, NEW p \in Process, InsertRow(p)
    PROVE  HealInv'
<1>1. place[p] = "insert" /\ place[p] \notin Ended /\ UNCHANGED <<grants, overlapped>>
  BY DEF InsertRow, At, history, Ended
<1>2. CASE Rows[index[p]] \in rows
  BY <1>1, <1>2, GiveUpHeals DEF InsertRow, GiveUp
<1>3. CASE Rows[index[p]] \notin rows
  BY <1>1, <1>3, RowStep DEF InsertRow
<1> QED BY <1>2, <1>3

\* The assignments; without users they are the last statement.
LEMMA GrantHeals ==
    ASSUME SeedWell, NEW p \in Process, GrantPermission(p)
    PROVE  /\ HealInv'
           /\ place'[p] = "done" =>
                /\ Users(p) = <<>>
                /\ \A j \in 1..Len(Rows) : Rows[j] \in rows'
                /\ \A j \in 1..Len(Assignments) : Assignments[j] \in grants'
<1>1. /\ place[p] = "grant" /\ place[p] \notin Ended /\ UNCHANGED <<rows, overlapped>>
      /\ grants' = grants \union {Assignments[index[p]]}
      /\ NextOf(p, Len(Assignments), "grant", IF Users(p) = <<>> THEN "done" ELSE "lookup")
  BY DEF GrantPermission, At, history, Ended
<1>2. /\ index[p] \in 1..Len(Assignments)
      /\ \A j \in 1..(index[p] - 1) : Assignments[j] \in grants
      /\ \A j \in 1..Len(Rows) : Rows[j] \in rows
      /\ UserList(Users(p))
  BY <1>1, PlacesAt DEF InRange, CatalogDone
<1>3. \A j \in 1..index[p] : Assignments[j] \in grants'
  BY <1>1, <1>2, CatalogLists
<1>4. grants \subseteq grants' /\ grants' \subseteq {Assignments[j] : j \in DOMAIN Assignments}
  BY <1>1, <1>2, PlacesAt, CatalogLists
<1>5. CASE index[p] < Len(Assignments)
  <2>1. GoTo(p, "grant", index[p] + 1) /\ "grant" \notin Ended
    BY <1>1, <1>5 DEF NextOf, Ended
  <2>2. InRange("grant", index[p] + 1, Users(p)) /\ CatalogDone("grant", index[p] + 1, rows', grants')
        /\ UsersDone("grant", index[p] + 1, Users(p), users', roles')
    BY <1>1, <1>2, <1>3, <1>5, CatalogLists DEF InRange, CatalogDone, UsersDone, Listed, UserPlace
  <2>3. place'[p] = "grant"
    BY <2>1, MoveIs DEF SeedWell, SeedInv
  <2> QED BY <1>1, <1>4, <2>1, <2>2, <2>3, PlacesAt, HealMove
<1>6. CASE ~(index[p] < Len(Assignments))
  <2> DEFINE where == IF Users(p) = <<>> THEN "done" ELSE "lookup"
  <2>1. GoTo(p, where, 1) /\ (where = "done" \/ where \notin Ended)
    BY <1>1, <1>6 DEF NextOf, Ended
  <2>2. index[p] = Len(Assignments)
    BY <1>2, <1>6, CatalogLists
  <2>3. where = "lookup" => 1 \in 1..Len(Users(p))
    BY <1>2 DEF UserList
  <2>4. place'[p] = where
    BY <2>1, MoveIs DEF SeedWell, SeedInv
  <2>5. where \in {"done", "lookup"} /\ (where = "done" => Users(p) = <<>>)
    OBVIOUS
  <2> HIDE DEF where
  <2>6. InRange(where, 1, Users(p)) /\ CatalogDone(where, 1, rows', grants')
    BY <1>1, <1>2, <1>3, <2>2, <2>3, <2>5 DEF InRange, CatalogDone, Listed, UserPlace
  <2>7. UsersDone(where, 1, Users(p), users', roles')
    BY <2>5 DEF UsersDone
  <2> QED BY <1>1, <1>2, <1>3, <1>4, <2>1, <2>2, <2>4, <2>5, <2>6, <2>7, PlacesAt, HealMove
<1> QED BY <1>5, <1>6

\* A statement on a user that takes no role.
LEMMA UserStep ==
    ASSUME SeedWell, NEW p \in Process, place[p] \in Listed \ {"assign"},
           NEW where \in Listed \ {"assign"}, GoTo(p, where, index[p]),
           users \subseteq users', UNCHANGED <<rows, grants, overlapped, roles>>
    PROVE  HealInv'
<1>1. place[p] \notin Ended /\ where \notin Ended
  BY DEF Listed, UserPlace, Ended
<1>2. InRange(where, index[p], Users(p)) /\ CatalogDone(where, index[p], rows', grants')
  BY <1>1, PlacesAt DEF InRange, CatalogDone, Listed, UserPlace
<1>3. p \notin overlapped => UsersDone(where, index[p], Users(p), users', roles')
  BY <1>1, PlacesAt DEF UsersDone
<1> QED BY <1>1, <1>2, <1>3, PlacesAt, HealMove

\* The DELETE takes the role of this user alone.
LEMMA ClearHeals ==
    ASSUME SeedWell, NEW p \in Process, ClearRoles(p)
    PROVE  HealInv'
<1> DEFINE us == Users(p)
           i == index[p]
<1>1. /\ place[p] = "clear" /\ place[p] \notin Ended /\ "assign" \notin Ended
      /\ GoTo(p, "assign", i)
      /\ roles' = [roles EXCEPT ![us[i].user] = {}]
      /\ UNCHANGED <<rows, grants, users, overlapped>>
  BY DEF ClearRoles, At, catalog, history, Ended, Seeded
<1>2. InRange("clear", i, us) /\ CatalogDone("clear", i, rows, grants) /\ UserList(us)
      /\ (p \notin overlapped => UsersDone("clear", i, us, users, roles))
  BY <1>1, PlacesAt
<1>3. i \in 1..Len(us) /\ us[i].user \in User /\ Len(us) \in Nat
      /\ \A j \in 1..Len(us) : us[j].user \in User
  BY <1>2 DEF InRange, UserList, Listed, UserPlace
<1>4. InRange("assign", i, us) /\ CatalogDone("assign", i, rows', grants')
  BY <1>1, <1>2 DEF InRange, CatalogDone, Listed, UserPlace
<1>5. roles = [u \in User |-> roles[u]]
  BY DEF SeedWell, SeedInv, SeedShapes
<1> HIDE DEF us, i
<1>6. \A u \in User : roles'[u] = IF u = us[i].user THEN {} ELSE roles[u]
  BY <1>1, <1>5
<1>7. ASSUME p \notin overlapped PROVE UsersDone("assign", i, us, users', roles')
  <2>1. \A j \in 1..(i - 1) : us[j].user \in users /\ roles[us[j].user] = {us[j].role}
    BY <1>2, <1>7 DEF UsersDone, Listed, UserPlace
  <2>2. \A j \in 1..(i - 1) : us[j].user \in User
    BY <1>3
  <2> QED BY <1>1, <1>3, <1>6, <2>1, <2>2 DEF UsersDone
<1> QED BY <1>1, <1>4, <1>7, PlacesAt, HealMove DEF us

\* A file may list a user twice, but with one role.
OneRoleEach ==
    \A file \in DOMAIN SeedUsers : \A i, j \in DOMAIN SeedUsers[file] :
        SeedUsers[file][i].user = SeedUsers[file][j].user
          => SeedUsers[file][i].role = SeedUsers[file][j].role

\* The INSERT leaves this user with its one role; the last ends the seeder.
LEMMA AssignHeals ==
    ASSUME OneRoleEach, SeedWell, NEW p \in Process, AssignRole(p)
    PROVE  /\ HealInv'
           /\ place'[p] = "done" /\ p \notin overlapped =>
                \A j \in 1..Len(Users(p)) :
                    /\ Users(p)[j].user \in users'
                    /\ roles'[Users(p)[j].user] = {Users(p)[j].role}
           /\ \A j \in 1..Len(Rows) : Rows[j] \in rows'
           /\ \A j \in 1..Len(Assignments) : Assignments[j] \in grants'
<1> DEFINE us == Users(p)
           i == index[p]
<1>1. /\ place[p] = "assign" /\ place[p] \notin Ended
      /\ NextOf(p, Len(us), "lookup", "done")
      /\ roles' = [roles EXCEPT ![us[i].user] = roles[us[i].user] \union {us[i].role}]
      /\ UNCHANGED <<rows, grants, users, overlapped>>
  BY DEF AssignRole, At, catalog, Ended, Seeded, RoleOf
<1>2. InRange("assign", i, us) /\ CatalogDone("assign", i, rows, grants) /\ UserList(us)
      /\ (p \notin overlapped => UsersDone("assign", i, us, users, roles))
      /\ us[i].user \in users
  BY <1>1, PlacesAt DEF SeedWell, SeedInv, UsersExist, UserPlace, Seeded
<1>3. i \in 1..Len(us) /\ Len(us) \in Nat /\ \A j \in 1..Len(us) : us[j].user \in User
  BY <1>2 DEF InRange, UserList, Listed, UserPlace
<1>4. \A j, k \in 1..Len(us) : us[j].user = us[k].user => us[j].role = us[k].role
  <2>1. us = <<>> \/ us = SeedUsers["yaml"] \/ us = SeedUsers["seeds"]
    BY <1>1, UsersAreLists DEF SeedWell, Ended
  <2>2. DOMAIN us = 1..Len(us)
    BY <1>2 DEF UserList
  <2>3. us # <<>>
    <3>1. us = <<>> => Len(us) = 0
      OBVIOUS
    <3> QED BY <1>3, <3>1
  <2>4. PICK file \in {"yaml", "seeds"} : us = SeedUsers[file]
    BY <2>1, <2>3
  <2>5. \A j, k \in DOMAIN SeedUsers[file] :
           SeedUsers[file][j].user = SeedUsers[file][k].user
             => SeedUsers[file][j].role = SeedUsers[file][k].role
    BY SeedUsersAssumption DEF OneRoleEach
  <2> HIDE DEF us
  <2> QED BY <2>2, <2>4, <2>5
<1>5. roles = [u \in User |-> roles[u]]
  BY DEF SeedWell, SeedInv, SeedShapes
<1>6. /\ \A j \in 1..Len(Rows) : Rows[j] \in rows
      /\ \A j \in 1..Len(Assignments) : Assignments[j] \in grants
  BY <1>2 DEF CatalogDone, Listed, UserPlace
<1> HIDE DEF us, i
<1>7. \A u \in User : roles'[u] = IF u = us[i].user THEN roles[u] \union {us[i].role} ELSE roles[u]
  BY <1>1, <1>5
<1>8. ASSUME p \notin overlapped
      PROVE  \A j \in 1..i : us[j].user \in users /\ roles'[us[j].user] = {us[j].role}
  <2>1. /\ \A j \in 1..(i - 1) : us[j].user \in users
              /\ (roles[us[j].user] = {us[j].role} \/ us[j].user = us[i].user)
        /\ roles[us[i].user] = {}
    BY <1>2, <1>8 DEF UsersDone, Listed, UserPlace
  <2> SUFFICES ASSUME NEW j \in 1..i
               PROVE  us[j].user \in users /\ roles'[us[j].user] = {us[j].role}
    OBVIOUS
  <2>2. j \in 1..Len(us) /\ us[j].user \in User /\ (j = i \/ j \in 1..(i - 1))
    BY <1>3
  <2>3. CASE us[j].user = us[i].user
    <3>1. us[j].role = us[i].role
      BY <1>3, <1>4, <2>2, <2>3
    <3> QED BY <1>2, <1>7, <2>1, <2>2, <2>3, <3>1
  <2>4. CASE us[j].user # us[i].user
    BY <1>7, <2>1, <2>2, <2>4
  <2> QED BY <2>3, <2>4
<1>9. CASE i < Len(us)
  <2>1. GoTo(p, "lookup", i + 1) /\ "lookup" \notin Ended
    BY <1>1, <1>9 DEF NextOf, Ended, i
  <2>2. InRange("lookup", i + 1, us)
    BY <1>3, <1>9 DEF InRange, Listed, UserPlace
  <2>3. CatalogDone("lookup", i + 1, rows', grants')
    BY <1>1, <1>6 DEF CatalogDone, Listed, UserPlace
  <2>4. p \notin overlapped => UsersDone("lookup", i + 1, us, users', roles')
    BY <1>1, <1>3, <1>8 DEF UsersDone
  <2>5. place'[p] = "lookup"
    BY <2>1, MoveIs DEF SeedWell, SeedInv
  <2> QED BY <1>1, <1>6, <2>1, <2>2, <2>3, <2>4, <2>5, PlacesAt, HealMove DEF us
<1>10. CASE ~(i < Len(us))
  <2>1. GoTo(p, "done", 1)
    BY <1>1, <1>10 DEF NextOf, i
  <2>2. i = Len(us)
    BY <1>3, <1>10
  <2>3. InRange("done", 1, us) /\ UsersDone("done", 1, us, users', roles')
    BY DEF InRange, UsersDone, Listed, UserPlace
  <2>4. CatalogDone("done", 1, rows', grants')
    BY <1>1, <1>6 DEF CatalogDone
  <2>5. HealInv'
    BY <1>1, <2>1, <2>3, <2>4, PlacesAt, HealMove DEF us
  <2> QED BY <1>1, <1>6, <1>8, <2>2, <2>5 DEF us
<1> QED BY <1>9, <1>10

\* A launch beside running seeders takes their promise, and its own.
LEMMA LaunchHeals ==
    ASSUME SeedWell, NEW p \in Process, Launch(p)
    PROVE  HealInv'
<1>1. /\ place[p] \in Ended
      /\ UNCHANGED <<rows, grants, users, roles>>
      /\ overlapped' = IF Active = {} THEN overlapped \ {p} ELSE overlapped \union Active \union {p}
  BY DEF Launch, Active, catalog, accounts
<1>2. /\ place'[p] \in {"failed", "sql", "serving"}
      /\ \A q \in Process \ {p} : place'[q] = place[q] /\ index'[q] = index[q] /\ config'[q] = config[q]
  BY DEF Launch, SeedWell, SeedInv, SeedShapes
<1>3. Alone'
  <2> SUFFICES ASSUME NEW q \in Process, NEW r \in Process, place'[q] \notin Ended, q \notin overlapped', r # q
               PROVE  place'[r] \in Ended
    BY DEF Alone
  <2>1. Active = {}
    <3> SUFFICES ASSUME Active # {} PROVE FALSE
      OBVIOUS
    <3>1. q \notin Active /\ q # p
      BY <1>1
    <3>2. place[q] \notin Ended
      BY <1>2, <3>1
    <3> QED BY <3>1, <3>2 DEF Active
  <2>2. \A x \in Process : place[x] \in Ended
    BY <2>1 DEF Active
  <2>3. q = p
    BY <1>2, <2>2
  <2> QED BY <1>2, <2>2, <2>3
<1>4. ASSUME NEW q \in Process
      PROVE  /\ InRange(place'[q], index'[q], Users(q)')
             /\ CatalogDone(place'[q], index'[q], rows', grants')
             /\ q \notin overlapped' => UsersDone(place'[q], index'[q], Users(q)', users', roles')
  <2>1. CASE q = p
    BY <1>2, <2>1 DEF InRange, CatalogDone, UsersDone, Listed, UserPlace
  <2>2. CASE q # p
    <3>1. place'[q] = place[q] /\ index'[q] = index[q] /\ Users(q)' = Users(q)
      BY <1>2, <2>2 DEF Users
    <3>2. q \notin overlapped' => q \notin overlapped
      BY <1>1, <2>2
    <3> QED BY <1>1, <3>1, <3>2 DEF SeedWell, HealInv
  <2> QED BY <2>1, <2>2
<1> QED BY <1>1, <1>3, <1>4 DEF SeedWell, HealInv

\* Who registers is not among the users that a lone seeder has done.
LEMMA RegisterHeals ==
    ASSUME SeedWell, NEW u \in User, Register(u)
    PROVE  HealInv'
<1>1. /\ u \notin users /\ users' = users \union {u} /\ roles' = [roles EXCEPT ![u] = {"user"}]
      /\ UNCHANGED <<place, index, config, rows, grants, overlapped>>
  BY DEF Register, process, catalog, history
<1>2. roles = [v \in User |-> roles[v]]
  BY DEF SeedWell, SeedInv, SeedShapes
<1>3. \A v \in users : roles'[v] = roles[v]
  BY <1>1, <1>2
<1>4. ASSUME NEW q \in Process
      PROVE  /\ Users(q)' = Users(q)
             /\ q \notin overlapped => UsersDone(place[q], index[q], Users(q), users', roles')
  <2>1. Users(q)' = Users(q)
    BY <1>1 DEF Users
  <2>2. place[q] = "assign" => Users(q)[index[q]].user \in users
    BY DEF SeedWell, SeedInv, UsersExist, UserPlace, Seeded
  <2>3. q \notin overlapped => UsersDone(place[q], index[q], Users(q), users, roles)
    BY DEF SeedWell, HealInv
  <2> QED BY <1>1, <1>3, <2>1, <2>2, <2>3 DEF UsersDone
<1>5. Alone'
  BY <1>1 DEF SeedWell, HealInv, Alone
<1> QED BY <1>1, <1>4, <1>5 DEF SeedWell, HealInv

\* All statements of a seeder, and its death.
LEMMA SeedHeals ==
    ASSUME OneRoleEach, SeedWell, NEW p \in Process, Seed(p) \/ Interrupt(p)
    PROVE  HealInv'
<1>1. CASE GetUserByEmail(p)
  <2>1. PICK where \in {"role", "create"} : GoTo(p, where, index[p])
    BY <1>1 DEF GetUserByEmail
  <2>2. place[p] = "lookup" /\ UNCHANGED <<rows, grants, overlapped, roles, users>>
    BY <1>1 DEF GetUserByEmail, At, catalog, history, accounts
  <2> QED BY <2>1, <2>2, UserStep DEF Listed, UserPlace
<1>2. CASE CreateUser(p)
  <2>1. place[p] = "create" /\ place[p] \notin Ended /\ UNCHANGED <<rows, grants, overlapped, roles>>
    BY <1>2 DEF CreateUser, At, catalog, history, Ended
  <2>2. CASE GoTo(p, "failed", 1)
    BY <2>1, <2>2, GiveUpHeals
  <2>3. CASE GoTo(p, "profile", index[p]) /\ users \subseteq users'
    BY <2>1, <2>3, UserStep DEF Listed, UserPlace
  <2> QED BY <1>2, <2>2, <2>3 DEF CreateUser, GiveUp
<1>3. CASE UpdateUserProfile(p)
  BY <1>3, UserStep DEF UpdateUserProfile, At, catalog, history, Listed, UserPlace
<1>4. CASE FindRole(p)
  <2>1. place[p] = "role" /\ place[p] \notin Ended /\ UNCHANGED <<rows, grants, overlapped, roles, users>>
    BY <1>4 DEF FindRole, At, catalog, history, accounts, Ended
  <2>2. CASE GoTo(p, "failed", 1)
    BY <2>1, <2>2, GiveUpHeals
  <2>3. CASE GoTo(p, "clear", index[p])
    BY <2>1, <2>3, UserStep DEF Listed, UserPlace
  <2> QED BY <1>4, <2>2, <2>3 DEF FindRole, GiveUp
<1>5. CASE Interrupt(p)
  <2>1. place[p] \notin Ended /\ UNCHANGED <<rows, grants, overlapped>> /\ GoTo(p, "interrupted", 1)
    BY <1>5 DEF Interrupt, Active, catalog
  <2> QED BY <2>1, GiveUpHeals
<1> QED BY <1>1, <1>2, <1>3, <1>4, <1>5, SQLHeals, FindHeals, InsertHeals, GrantHeals, ClearHeals,
           AssignHeals DEF Seed

\* The inductive invariant of healing.
LEMMA SeedersStayWell ==
    ASSUME OneRoleEach
    PROVE  SeedSpec => []SeedWell
<1>1. SeedInit => HealInv
  BY DEF SeedInit, HealInv, Alone, Ended, InRange, CatalogDone, UsersDone, Listed, UserPlace
<1>2. SeedInv /\ ConfigsLoaded /\ HealInv /\ [SeedNext]_seedVars => HealInv'
  <2> SUFFICES ASSUME SeedWell, [SeedNext]_seedVars PROVE HealInv'
    BY DEF SeedWell
  <2>1. CASE UNCHANGED seedVars
    <3>1. UNCHANGED <<place, index, config, rows, grants, users, roles, overlapped>>
      BY <2>1 DEF seedVars, process, catalog, accounts, history
    <3>2. \A q \in Process : Users(q)' = Users(q)
      BY <3>1 DEF Users
    <3>3. Alone'
      BY <3>1 DEF SeedWell, HealInv, Alone
    <3> QED BY <3>1, <3>2, <3>3 DEF SeedWell, HealInv
  <2> QED BY <2>1, LaunchHeals, RegisterHeals, SeedHeals DEF SeedNext
<1>3. SeedInv /\ ConfigsLoaded /\ HealInv => SeedWell
  BY DEF SeedWell
<1> QED BY <1>1, <1>2, <1>3, SeedInvHolds, ConfigsStayLoaded, PTL DEF SeedSpec

\* The step that finishes a seeder that was alone.
LEMMA FinishedIsHealed ==
    ASSUME OneRoleEach, SeedWell, SeedWell', [SeedNext]_seedVars,
           NEW p \in Process, Finishes(p), p \notin overlapped
    PROVE  /\ rows' = {Rows[i] : i \in DOMAIN Rows}
           /\ grants' = {Assignments[i] : i \in DOMAIN Assignments}
           /\ \A i \in DOMAIN Users(p) :
                 /\ Users(p)[i].user \in users'
                 /\ roles'[Users(p)[i].user] = {Users(p)[i].role}
<1>1. place'[p] = "done" /\ place[p] # "done"
  BY DEF Finishes
<1>2. \A q \in Process : \A where, i : GoTo(q, where, i) => (q = p /\ where = "done")
  BY <1>1, MoveIs DEF SeedWell, SeedInv
<1>3. GrantPermission(p) \/ AssignRole(p)
  <2>1. ~UNCHANGED seedVars
    BY <1>1 DEF seedVars, process
  <2>2. ASSUME NEW q \in Process, Launch(q) PROVE FALSE
    BY <1>1, <2>2 DEF Launch, SeedWell, SeedInv, SeedShapes
  <2>3. ASSUME NEW u \in User, Register(u) PROVE FALSE
    BY <1>1, <2>3 DEF Register, process
  <2>4. ASSUME NEW q \in Process, Seed(q) \/ Interrupt(q) PROVE GrantPermission(p) \/ AssignRole(p)
    <3>1. ~RunSQLSeeds(q) /\ ~FindRow(q) /\ ~InsertRow(q) /\ ~Interrupt(q)
      BY <1>2 DEF RunSQLSeeds, FindRow, InsertRow, NextOf, GiveUp, Interrupt
    <3>2. ~GetUserByEmail(q) /\ ~CreateUser(q) /\ ~UpdateUserProfile(q)
      BY <1>2 DEF GetUserByEmail, CreateUser, UpdateUserProfile, GiveUp
    <3>3. ~FindRole(q) /\ ~ClearRoles(q)
      BY <1>2 DEF FindRole, ClearRoles, GiveUp
    <3>4. GrantPermission(q) \/ AssignRole(q)
      BY <2>4, <3>1, <3>2, <3>3 DEF Seed
    <3>5. q = p
      BY <1>2, <3>4 DEF GrantPermission, AssignRole, NextOf
    <3> QED BY <3>4, <3>5
  <2> QED BY <2>1, <2>2, <2>3, <2>4 DEF SeedNext
<1>4. /\ \A j \in 1..Len(Rows) : Rows[j] \in rows'
      /\ \A j \in 1..Len(Assignments) : Assignments[j] \in grants'
  BY <1>1, <1>3, GrantHeals, AssignHeals
<1>5. rows' \subseteq {Rows[i] : i \in DOMAIN Rows} /\ grants' \subseteq {Assignments[i] : i \in DOMAIN Assignments}
  BY DEF SeedWell, HealInv
<1>6. rows' = {Rows[i] : i \in DOMAIN Rows} /\ grants' = {Assignments[i] : i \in DOMAIN Assignments}
  BY <1>4, <1>5, CatalogLists
<1>7. \A i \in DOMAIN Users(p) :
         Users(p)[i].user \in users' /\ roles'[Users(p)[i].user] = {Users(p)[i].role}
  <2>1. CASE GrantPermission(p)
    <3>1. Users(p) = <<>>
      BY <1>1, <2>1, GrantHeals
    <3>2. DOMAIN Users(p) = {}
      BY <3>1
    <3> QED BY <3>2
  <2>2. CASE AssignRole(p)
    <3>1. place[p] = "assign"
      BY <2>2 DEF AssignRole, At
    <3>2. DOMAIN Users(p) = 1..Len(Users(p))
      BY <3>1, UsersAreLists DEF SeedWell, UserList
    <3> QED BY <1>1, <2>2, <3>2, AssignHeals
  <2> QED BY <1>3, <2>1, <2>2
<1> QED BY <1>6, <1>7

\* Where no file gives one user two roles: a seeder that was alone and succeeds leaves
\* the database as configured, whatever other seeders have left there before.
THEOREM SeedersHeal ==
    ASSUME OneRoleEach
    PROVE  SeedSpec => SeedingHeals
<1>1. SeedWell /\ SeedWell' /\ [SeedNext]_seedVars =>
        [\A p \in Process : Finishes(p) /\ p \notin overlapped =>
            /\ rows' = {Rows[i] : i \in DOMAIN Rows}
            /\ grants' = {Assignments[i] : i \in DOMAIN Assignments}
            /\ \A i \in DOMAIN Users(p) :
                  /\ Users(p)[i].user \in users'
                  /\ roles'[Users(p)[i].user] = {Users(p)[i].role}]_seedVars
  BY FinishedIsHealed
<1> QED BY <1>1, SeedersStayWell, PTL DEF SeedSpec, SeedingHeals
=============================================================================
