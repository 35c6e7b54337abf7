------------------------ MODULE OutboxPipelineProofs ------------------------
(***************************************************************************)
(* Proofs about OutboxPipeline, for any number of instances and events and *)
(* any batch size, queue capacity and number of faults.                    *)
(***************************************************************************)
EXTENDS OutboxPipeline, FiniteSetTheorems, TLAPS

\* The queue holds a new task at its end, and the rest after its head is taken.
LEMMA AppendTask ==
    ASSUME NEW q \in Seq(Task), NEW t \in Task
    PROVE  ToTasks(Append(q, t)) = ToTasks(q) \union {t}
<1>1. ToTasks(Append(q, t)) \subseteq ToTasks(q) \union {t}
  BY DEF ToTasks
<1>2. \A i \in DOMAIN q : i \in DOMAIN Append(q, t) /\ Append(q, t)[i] = q[i]
  OBVIOUS
<1>3. Len(q) + 1 \in DOMAIN Append(q, t) /\ Append(q, t)[Len(q) + 1] = t
  OBVIOUS
<1>4. QED
  BY <1>1, <1>2, <1>3 DEF ToTasks

LEMMA TailTasks ==
    ASSUME NEW q \in Seq(Task), q # <<>>
    PROVE  /\ Head(q) \in Task
           /\ ToTasks(q) = {Head(q)} \union ToTasks(Tail(q))
           /\ ToTasks(q) \subseteq Task
<1>1. 1 \in DOMAIN q /\ Head(q) = q[1]
  OBVIOUS
<1>2. \A i \in DOMAIN Tail(q) : i + 1 \in DOMAIN q /\ Tail(q)[i] = q[i + 1]
  OBVIOUS
<1>3. \A i \in DOMAIN q : i = 1 \/ (i - 1 \in DOMAIN Tail(q) /\ Tail(q)[i - 1] = q[i])
  OBVIOUS
<1>4. ToTasks(q) \subseteq {Head(q)} \union ToTasks(Tail(q))
  BY <1>1, <1>3 DEF ToTasks
<1>5. {Head(q)} \union ToTasks(Tail(q)) \subseteq ToTasks(q)
  BY <1>1, <1>2 DEF ToTasks
<1>6. ToTasks(q) \subseteq Task
  BY DEF ToTasks
<1>7. QED
  BY <1>1, <1>4, <1>5, <1>6

LEMMA NoTasks == ToTasks(<<>>) = {}
BY DEF ToTasks

-----------------------------------------------------------------------------
(* Type correctness.                                                       *)

LEMMA BeginTyped ==
    ASSUME TypeOK, NEW e \in Event, Begin(e)
    PROVE  TypeOK'
<1>1. IsFiniteSet({f \in Event : row[f] # "none"})
  BY EventAssumption, FS_Subset
<1>2. 1 + Cardinality({f \in Event : row[f] # "none"}) \in Nat
  BY <1>1, FS_CardinalityType
<1>3. QED
  BY <1>2 DEF TypeOK, Begin, Row, publisherVars, queueVars, outcomeVars

\* Every reachable state is well typed.
THEOREM TypeCorrect == Spec => []TypeOK
<1>1. Init => TypeOK
  BY DEF Init, TypeOK, Row, Reason
<1>2. TypeOK /\ [Next]_vars => TypeOK'
  <2> SUFFICES ASSUME TypeOK, [Next]_vars
               PROVE  TypeOK'
    OBVIOUS
  <2> USE DEF TypeOK, dbVars, publisherVars, queueVars, outcomeVars
  <2>1. ASSUME NEW e \in Event, Begin(e) PROVE TypeOK'
    BY <2>1, BeginTyped
  <2>2. ASSUME NEW e \in Event, Commit(e) PROVE TypeOK'
    BY <2>2 DEF Commit, Row
  <2>3. ASSUME NEW e \in Event, Abort(e) PROVE TypeOK'
    BY <2>3 DEF Abort, Row
  <2>4. ASSUME NEW s \in Server, Poll(s) PROVE TypeOK'
    BY <2>4 DEF Poll, GetUnpublished, Unpublished
  <2>5. ASSUME NEW s \in Server, NEW e \in Event, SkipMalformed(s, e) PROVE TypeOK'
    BY <2>5 DEF SkipMalformed
  <2>6. ASSUME NEW s \in Server, NEW e \in Event, Publish(s, e) PROVE TypeOK'
    <3>1. attempts[s][e] \in Nat
      OBVIOUS
    <3>2. [event |-> e, copy |-> attempts[s][e]] \in Task
      BY <3>1 DEF Task
    <3> DEFINE q == Append(taskChan[s], [event |-> e, copy |-> attempts[s][e]])
               D == dropped[e] \union {"full"}
    <3>a. q \in Seq(Task) /\ D \in SUBSET Reason
      BY <3>2 DEF Reason
    <3>b. /\ taskChan' = [taskChan EXCEPT ![s] = q] \/ taskChan' = taskChan
          /\ dropped' = [dropped EXCEPT ![e] = D] \/ dropped' = dropped
      BY <2>6 DEF Publish
    <3> HIDE DEF q, D
    <3>3. taskChan' \in [Server -> Seq(Task)]
      BY <3>a, <3>b
    <3>4. attempts' \in [Server -> [Event -> Nat]]
      BY <3>1, <2>6 DEF Publish
    <3>5. dropped' \in [Event -> SUBSET Reason]
      BY <3>a, <3>b
    <3>6. QED
      BY <3>3, <3>4, <3>5, <2>6 DEF Publish
  <2>7. ASSUME NEW s \in Server, MarkPublished(s) PROVE TypeOK'
    BY <2>7 DEF MarkPublished, Row
  <2>8. ASSUME NEW s \in Server, MarkFails(s) PROVE TypeOK'
    BY <2>8 DEF MarkFails
  <2>9. ASSUME NEW s \in Server, Dequeue(s) PROVE TypeOK'
    <3>1. Head(taskChan[s]) \in Task /\ Tail(taskChan[s]) \in Seq(Task)
      BY <2>9, TailTasks DEF Dequeue
    <3>2. taskChan' \in [Server -> Seq(Task)]
      BY <3>1, <2>9 DEF Dequeue
    <3> DEFINE t == Head(taskChan[s])
               R == running[s] \union {t}
               D == dropped[t.event] \union {"unrouted"}
    <3>a. t.event \in Event /\ R \in SUBSET Task /\ D \in SUBSET Reason
      BY <3>1 DEF Task, Reason
    <3>b. /\ running' = [running EXCEPT ![s] = R] \/ running' = running
          /\ dropped' = [dropped EXCEPT ![t.event] = D] \/ dropped' = dropped
      BY <2>9 DEF Dequeue
    <3> HIDE DEF t, R, D
    <3>3. running' \in [Server -> SUBSET Task]
      BY <3>a, <3>b
    <3>4. dropped' \in [Event -> SUBSET Reason]
      BY <3>a, <3>b
    <3>5. QED
      BY <3>2, <3>3, <3>4, <2>9 DEF Dequeue
  <2>10. ASSUME NEW s \in Server, Relay(s) PROVE TypeOK'
    BY <2>10 DEF Relay
  <2>11. ASSUME NEW s \in Server, Handle(s) PROVE TypeOK'
    <3>1. PICK t \in spawned[s] :
             /\ spawned' = [spawned EXCEPT ![s] = @ \ {t}]
             /\ \/ /\ delivered' = delivered \union {t.event}
                   /\ UNCHANGED <<dropped, faults>>
                \/ /\ faults' = faults + 1
                   /\ dropped' = [dropped EXCEPT ![t.event] = @ \union {"handler"}]
                   /\ UNCHANGED delivered
             /\ UNCHANGED <<dbVars, phase, publisherVars, taskChan, loop, running>>
      BY <2>11 DEF Handle
    <3>2. t.event \in Event
      BY DEF Task
    <3>3. dropped[t.event] \union {"handler"} \in SUBSET Reason
      BY <3>2 DEF Reason
    <3>4. spawned' \in [Server -> SUBSET Task]
      BY <3>1
    <3>5. delivered' \in SUBSET Event /\ faults' \in Nat
      BY <3>1, <3>2
    <3>6. dropped' \in [Event -> SUBSET Reason]
      BY <3>1, <3>2, <3>3
    <3>7. QED
      BY <3>1, <3>4, <3>5, <3>6
  <2>12. ASSUME NEW s \in Server, Boot(s) PROVE TypeOK'
    BY <2>12 DEF Boot
  <2>13. ASSUME NEW s \in Server, BeginShutdown(s) PROVE TypeOK'
    BY <2>13 DEF BeginShutdown
  <2>14. ASSUME NEW s \in Server, LoopStops(s) PROVE TypeOK'
    BY <2>14 DEF LoopStops
  <2>15. ASSUME NEW s \in Server, Exit(s) \/ Crash(s) PROVE TypeOK'
    <3>1. Die(s) /\ faults' \in Nat
      BY <2>15 DEF Exit, Crash
    <3>2. taskChan' \in [Server -> Seq(Task)]
      BY <3>1 DEF Die
    <3>3. \A e \in Event : dropped[e] \union {"restart"} \in SUBSET Reason
      BY DEF Reason
    <3>4. dropped' \in [Event -> SUBSET Reason]
      BY <3>1, <3>3 DEF Die
    <3>5. /\ batch' \in [Server -> SUBSET Event]
          /\ publishedIDs' \in [Server -> SUBSET Event]
          /\ running' \in [Server -> SUBSET Task]
          /\ spawned' \in [Server -> SUBSET Task]
      BY <3>1 DEF Die
    <3>6. /\ phase' \in [Server -> {"down", "up", "stopping"}]
          /\ loop' \in [Server -> BOOLEAN]
          /\ interrupted' \in [Server -> Nat]
      BY <3>1 DEF Die
    <3>7. UNCHANGED <<row, createdAt, attempts, delivered>>
      BY <3>1 DEF Die
    <3>8. QED
      BY <3>1, <3>2, <3>4, <3>5, <3>6, <3>7
  <2>16. CASE UNCHANGED vars
    BY <2>16 DEF vars
  <2>17. QED
    BY <2>1, <2>2, <2>3, <2>4, <2>5, <2>6, <2>7, <2>8, <2>9, <2>10, <2>11,
       <2>12, <2>13, <2>14, <2>15, <2>16 DEF Next, Transaction, Process
<1>3. QED
  BY <1>1, <1>2, PTL DEF Spec

-----------------------------------------------------------------------------
(* Where tasks come from and where they go.                                *)

\* A task that is new in memory was just published; one that left memory was
\* handled or dropped; what was handled or dropped stays so.
Conserves ==
    /\ \A z \in Server : \A t \in InMemory(z)' :
          t \in InMemory(z) \/ t.event \in batch[z] \ Malformed
    /\ \A z \in Server : \A t \in InMemory(z) :
          t \in InMemory(z)' \/ t.event \in delivered' \/ dropped'[t.event] # {}
    /\ delivered \subseteq delivered'
    /\ \A e \in delivered' \ delivered : InFlight(e)
    /\ \A e \in Event :
          /\ dropped[e] \subseteq dropped'[e]
          /\ dropped'[e] # dropped[e] => InFlight(e) \/ \E z \in Server : e \in batch[z] \ Malformed

LEMMA MemoryTyped ==
    ASSUME TypeOK, NEW z \in Server
    PROVE  InMemory(z) \subseteq Task /\ \A t \in InMemory(z) : t.event \in Event
<1>1. ToTasks(taskChan[z]) \subseteq Task
  BY DEF TypeOK, ToTasks
<1>2. QED
  BY <1>1 DEF InMemory, TypeOK, Task

LEMMA QuietConserves ==
    ASSUME TypeOK, UNCHANGED <<taskChan, running, spawned, delivered, dropped>>
    PROVE  Conserves
BY DEF Conserves, InMemory

LEMMA PublishConserves ==
    ASSUME TypeOK, NEW s \in Server, NEW e \in Event, Publish(s, e)
    PROVE  Conserves
<1> DEFINE t == [event |-> e, copy |-> attempts[s][e]]
<1>1. t \in Task /\ e \in batch[s] \ Malformed
  BY DEF Publish, IsNext, Task, TypeOK
<1>2. /\ running' = running /\ spawned' = spawned /\ delivered' = delivered
      /\ \/ taskChan' = [taskChan EXCEPT ![s] = Append(@, t)] /\ dropped' = dropped
         \/ taskChan' = taskChan /\ dropped' = [dropped EXCEPT ![e] = @ \union {"full"}]
  BY DEF Publish
<1>3. CASE taskChan' = [taskChan EXCEPT ![s] = Append(@, t)] /\ dropped' = dropped
  <2>1. ToTasks(taskChan'[s]) = ToTasks(taskChan[s]) \union {t}
    BY <1>1, <1>3, AppendTask DEF TypeOK
  <2>2. \A z \in Server \ {s} : taskChan'[z] = taskChan[z]
    BY <1>3 DEF TypeOK
  <2>3. InMemory(s)' = InMemory(s) \union {t}
    BY <2>1, <1>2 DEF InMemory
  <2>4. \A z \in Server \ {s} : InMemory(z)' = InMemory(z)
    BY <2>2, <1>2 DEF InMemory
  <2>5. t.event = e
    OBVIOUS
  <2> HIDE DEF t
  <2>6. QED
    BY <2>3, <2>4, <2>5, <1>1, <1>2, <1>3 DEF Conserves
<1>4. CASE taskChan' = taskChan /\ dropped' = [dropped EXCEPT ![e] = @ \union {"full"}]
  <2>1. \A z \in Server : InMemory(z)' = InMemory(z)
    BY <1>2, <1>4 DEF InMemory
  <2>2. \A f \in Event : dropped'[f] = IF f = e THEN dropped[f] \union {"full"} ELSE dropped[f]
    BY <1>4 DEF TypeOK
  <2>3. QED
    BY <2>1, <2>2, <1>1, <1>2 DEF Conserves
<1>5. QED
  BY <1>2, <1>3, <1>4

LEMMA DequeueConserves ==
    ASSUME TypeOK, NEW s \in Server, Dequeue(s)
    PROVE  Conserves
<1> DEFINE t == Head(taskChan[s])
<1>1. /\ taskChan[s] \in Seq(Task) /\ taskChan[s] # <<>>
      /\ taskChan' = [taskChan EXCEPT ![s] = Tail(@)]
      /\ spawned' = spawned /\ delivered' = delivered
      /\ \/ running' = [running EXCEPT ![s] = @ \union {t}] /\ dropped' = dropped
         \/ running' = running /\ dropped' = [dropped EXCEPT ![t.event] = @ \union {"unrouted"}]
  BY DEF Dequeue, TypeOK
<1>2. t \in Task /\ ToTasks(taskChan[s]) = {t} \union ToTasks(Tail(taskChan[s]))
  BY <1>1, TailTasks
<1>3. /\ taskChan'[s] = Tail(taskChan[s])
      /\ \A z \in Server \ {s} : taskChan'[z] = taskChan[z]
  BY <1>1 DEF TypeOK
<1>4. t.event \in Event /\ InFlight(t.event)
  BY <1>2 DEF InFlight, InMemory, Task
<1> HIDE DEF t
<1>5. CASE running' = [running EXCEPT ![s] = @ \union {t}] /\ dropped' = dropped
  <2>1. /\ running'[s] = running[s] \union {t}
        /\ \A z \in Server \ {s} : running'[z] = running[z]
    BY <1>5 DEF TypeOK
  <2>2. InMemory(s)' = InMemory(s)
    BY <2>1, <1>1, <1>2, <1>3 DEF InMemory
  <2>3. \A z \in Server \ {s} : InMemory(z)' = InMemory(z)
    BY <2>1, <1>1, <1>3 DEF InMemory
  <2>4. QED
    BY <2>2, <2>3, <1>1, <1>5 DEF Conserves
<1>6. CASE running' = running /\ dropped' = [dropped EXCEPT ![t.event] = @ \union {"unrouted"}]
  <2>1. InMemory(s)' \subseteq InMemory(s) /\ InMemory(s) \subseteq InMemory(s)' \union {t}
    BY <1>1, <1>2, <1>3, <1>6 DEF InMemory
  <2>2. \A z \in Server \ {s} : InMemory(z)' = InMemory(z)
    BY <1>1, <1>3, <1>6 DEF InMemory
  <2>3. \A f \in Event :
           dropped'[f] = IF f = t.event THEN dropped[f] \union {"unrouted"} ELSE dropped[f]
    BY <1>6, <1>4 DEF TypeOK
  <2>4. "unrouted" \in dropped'[t.event]
    BY <2>3, <1>4
  <2>5. delivered' = delivered
    BY <1>1
  <2>6. \A z \in Server : \A u \in InMemory(z)' : u \in InMemory(z)
    BY <2>1, <2>2
  <2>7. \A z \in Server : \A u \in InMemory(z) : u \in InMemory(z)' \/ dropped'[u.event] # {}
    BY <2>1, <2>2, <2>4
  <2>8. \A f \in Event :
           /\ dropped[f] \subseteq dropped'[f]
           /\ dropped'[f] # dropped[f] => InFlight(f)
    BY <2>3, <1>4
  <2>9. QED
    BY <2>5, <2>6, <2>7, <2>8 DEF Conserves
<1>7. QED
  BY <1>1, <1>5, <1>6

LEMMA RelayConserves ==
    ASSUME TypeOK, NEW s \in Server, Relay(s)
    PROVE  Conserves
<1>1. PICK t \in running[s] :
         /\ running' = [running EXCEPT ![s] = @ \ {t}]
         /\ spawned' = [spawned EXCEPT ![s] = @ \union {t}]
         /\ UNCHANGED <<taskChan, delivered, dropped>>
  BY DEF Relay, outcomeVars
<1>2. /\ running'[s] = running[s] \ {t} /\ spawned'[s] = spawned[s] \union {t}
      /\ \A z \in Server \ {s} : running'[z] = running[z] /\ spawned'[z] = spawned[z]
  BY <1>1 DEF TypeOK
<1>3. \A z \in Server : InMemory(z)' = InMemory(z)
  BY <1>1, <1>2 DEF InMemory
<1>4. QED
  BY <1>1, <1>3 DEF Conserves

LEMMA HandleConserves ==
    ASSUME TypeOK, NEW s \in Server, Handle(s)
    PROVE  Conserves
<1>1. PICK t \in spawned[s] :
         /\ spawned' = [spawned EXCEPT ![s] = @ \ {t}]
         /\ UNCHANGED <<taskChan, running>>
         /\ \/ delivered' = delivered \union {t.event} /\ dropped' = dropped
            \/ /\ dropped' = [dropped EXCEPT ![t.event] = @ \union {"handler"}]
               /\ delivered' = delivered
  BY DEF Handle
<1>2. /\ spawned'[s] = spawned[s] \ {t}
      /\ \A z \in Server \ {s} : spawned'[z] = spawned[z]
  BY <1>1 DEF TypeOK
<1>3. InMemory(s)' \subseteq InMemory(s) /\ InMemory(s) \subseteq InMemory(s)' \union {t}
  BY <1>1, <1>2 DEF InMemory
<1>4. \A z \in Server \ {s} : InMemory(z)' = InMemory(z)
  BY <1>1, <1>2 DEF InMemory
<1>5. t.event \in Event /\ InFlight(t.event)
  BY MemoryTyped DEF InFlight, InMemory
<1>6. CASE delivered' = delivered \union {t.event} /\ dropped' = dropped
  BY <1>3, <1>4, <1>5, <1>6 DEF Conserves
<1>7. CASE /\ dropped' = [dropped EXCEPT ![t.event] = @ \union {"handler"}]
           /\ delivered' = delivered
  <2>1. \A f \in Event :
           dropped'[f] = IF f = t.event THEN dropped[f] \union {"handler"} ELSE dropped[f]
    BY <1>5, <1>7 DEF TypeOK
  <2>2. QED
    BY <2>1, <1>3, <1>4, <1>5, <1>7 DEF Conserves
<1>8. QED
  BY <1>1, <1>6, <1>7

LEMMA DieConserves ==
    ASSUME TypeOK, NEW s \in Server, Die(s)
    PROVE  Conserves
<1>1. /\ taskChan'[s] = <<>> /\ running'[s] = {} /\ spawned'[s] = {}
      /\ \A z \in Server \ {s} : /\ taskChan'[z] = taskChan[z]
                                /\ running'[z] = running[z] /\ spawned'[z] = spawned[z]
      /\ delivered' = delivered
  BY DEF Die, TypeOK
<1>2. InMemory(s)' = {} /\ \A z \in Server \ {s} : InMemory(z)' = InMemory(z)
  BY <1>1, NoTasks DEF InMemory
<1>3. \A e \in Event :
         dropped'[e] = IF \E t \in InMemory(s) : t.event = e
                       THEN dropped[e] \union {"restart"} ELSE dropped[e]
  BY DEF Die
<1>4. \A t \in InMemory(s) : t.event \in Event /\ dropped'[t.event] # {}
  BY <1>3, MemoryTyped
<1>5. \A e \in Event :
         /\ dropped[e] \subseteq dropped'[e]
         /\ dropped'[e] # dropped[e] => InFlight(e)
  BY <1>3 DEF InFlight
<1>6. QED
  BY <1>1, <1>2, <1>4, <1>5 DEF Conserves

LEMMA StepConserves ==
    ASSUME TypeOK, [Next]_vars
    PROVE  Conserves
<1> USE DEF queueVars, outcomeVars
<1>1. ASSUME NEW e \in Event, Transaction(e) PROVE Conserves
  BY <1>1, QuietConserves DEF Transaction, Begin, Commit, Abort
<1>2. ASSUME NEW s \in Server, Process(s) PROVE Conserves
  BY <1>2, QuietConserves, PublishConserves
     DEF Process, Poll, SkipMalformed, MarkPublished, MarkFails
<1>3. ASSUME NEW s \in Server, Dequeue(s) \/ Relay(s) \/ Handle(s) PROVE Conserves
  BY <1>3, DequeueConserves, RelayConserves, HandleConserves
<1>4. ASSUME NEW s \in Server, Boot(s) \/ BeginShutdown(s) \/ LoopStops(s) PROVE Conserves
  BY <1>4, QuietConserves DEF Boot, BeginShutdown, LoopStops
<1>5. ASSUME NEW s \in Server, Exit(s) \/ Crash(s) PROVE Conserves
  BY <1>5, DieConserves DEF Exit, Crash
<1>6. CASE UNCHANGED vars
  BY <1>6, QuietConserves DEF vars
<1>7. QED
  BY <1>1, <1>2, <1>3, <1>4, <1>5, <1>6 DEF Next

-----------------------------------------------------------------------------
(* The safety properties.                                                  *)

\* Only committed events leave the table (OnlyCommittedLeave): the property is
\* inductive together with the types, because a batch is selected from
\* unpublished rows and a row never loses its commit.
THEOREM CommittedOnly == Spec => []OnlyCommittedLeave
<1>1. Init => OnlyCommittedLeave
  BY NoTasks DEF Init, OnlyCommittedLeave, InFlight, InMemory
<1>2. TypeOK /\ OnlyCommittedLeave /\ [Next]_vars => OnlyCommittedLeave'
  <2> SUFFICES ASSUME TypeOK, OnlyCommittedLeave, [Next]_vars,
                      NEW e \in Event, row'[e] \in {"none", "open", "aborted"}
               PROVE  /\ \A s \in Server : e \notin batch'[s] \union publishedIDs'[s]
                      /\ ~InFlight(e)'
                      /\ e \notin delivered'
                      /\ dropped'[e] = {}
    BY DEF OnlyCommittedLeave
  <2>1. row[e] \in {"none", "open", "aborted"}
    <3>1. \A f \in Event : Transaction(f) /\ ~Commit(f) => row[e] \in {"none", "open", "aborted"}
      BY DEF Transaction, Begin, Abort, TypeOK
    <3>2. \A f \in Event : Commit(f) => row[e] \in {"none", "open", "aborted"}
      BY DEF Commit, TypeOK
    <3>3. \A s \in Server : MarkPublished(s) => row[e] \in {"none", "open", "aborted"}
      BY DEF MarkPublished
    <3>4. \/ \E f \in Event : Transaction(f)
          \/ \E s \in Server : MarkPublished(s)
          \/ row' = row
      BY DEF Next, Process, Poll, SkipMalformed, Publish, MarkFails, Dequeue, Relay,
             Handle, Boot, BeginShutdown, LoopStops, Exit, Crash, Die, dbVars, vars
    <3>5. QED
      BY <3>1, <3>2, <3>3, <3>4
  <2>2. /\ \A s \in Server : e \notin batch[s] \union publishedIDs[s]
        /\ ~InFlight(e) /\ e \notin delivered /\ dropped[e] = {}
    BY <2>1 DEF OnlyCommittedLeave
  <2>3. Conserves
    BY StepConserves
  <2>4. ~InFlight(e)'
    BY <2>2, <2>3 DEF Conserves, InFlight
  <2>5. e \notin delivered' /\ dropped'[e] = {}
    BY <2>2, <2>3 DEF Conserves
  <2>6. \A s \in Server : e \notin batch'[s] \union publishedIDs'[s]
    <3>1. \/ \E s \in Server : Process(s)
          \/ \E s \in Server : Die(s)
          \/ batch' = batch /\ publishedIDs' = publishedIDs
      BY DEF Next, Transaction, Begin, Commit, Abort, Dequeue, Relay, Handle, Boot,
             BeginShutdown, LoopStops, Exit, Crash, publisherVars, vars
    <3>2. ASSUME NEW s \in Server, Process(s)
          PROVE  \A z \in Server : e \notin batch'[z] \union publishedIDs'[z]
      <4>1. ASSUME Poll(s)
            PROVE  \A z \in Server : e \notin batch'[z] \union publishedIDs'[z]
        <5>1. e \notin GetUnpublished
          BY <2>1 DEF GetUnpublished, Unpublished
        <5>2. batch' = [batch EXCEPT ![s] = GetUnpublished] /\ publishedIDs' = publishedIDs
          BY <4>1 DEF Poll
        <5>3. QED
          BY <5>1, <5>2, <2>2 DEF TypeOK
      <4>2. ASSUME NEW f \in Event, SkipMalformed(s, f)
            PROVE  \A z \in Server : e \notin batch'[z] \union publishedIDs'[z]
        BY <4>2, <2>2 DEF SkipMalformed, TypeOK
      <4>3. ASSUME NEW f \in Event, Publish(s, f)
            PROVE  \A z \in Server : e \notin batch'[z] \union publishedIDs'[z]
        <5>1. /\ f \in batch[s]
              /\ batch' = [batch EXCEPT ![s] = @ \ {f}]
              /\ publishedIDs' = [publishedIDs EXCEPT ![s] = @ \union {f}]
          BY <4>3 DEF Publish, IsNext
        <5>2. QED
          BY <5>1, <2>2 DEF TypeOK
      <4>4. ASSUME MarkPublished(s) \/ MarkFails(s)
            PROVE  \A z \in Server : e \notin batch'[z] \union publishedIDs'[z]
        <5>1. batch' = batch /\ publishedIDs' = [publishedIDs EXCEPT ![s] = {}]
          BY <4>4 DEF MarkPublished, MarkFails
        <5>2. QED
          BY <5>1, <2>2 DEF TypeOK
      <4>5. QED
        BY <3>2, <4>1, <4>2, <4>3, <4>4 DEF Process
    <3>3. ASSUME NEW s \in Server, Die(s)
          PROVE  \A z \in Server : e \notin batch'[z] \union publishedIDs'[z]
      BY <3>3, <2>2 DEF Die, TypeOK
    <3>4. QED
      BY <2>2, <3>1, <3>2, <3>3
  <2>7. QED
    BY <2>4, <2>5, <2>6
<1>3. QED
  BY <1>1, <1>2, TypeCorrect, PTL DEF Spec

LEMMA AccountedStays ==
    ASSUME Conserves, NEW e \in Event, Accounted(e)
    PROVE  Accounted(e)'
BY DEF Conserves, Accounted, InFlight

LEMMA PublishAccounts ==
    ASSUME TypeOK, NEW s \in Server, NEW e \in Event, Publish(s, e)
    PROVE  Accounted(e)'
<1> DEFINE t == [event |-> e, copy |-> attempts[s][e]]
<1>1. t \in Task /\ t.event = e
  BY DEF Task, TypeOK
<1>2. CASE taskChan' = [taskChan EXCEPT ![s] = Append(@, t)]
  <2>1. ToTasks(taskChan'[s]) = ToTasks(taskChan[s]) \union {t}
    BY <1>1, <1>2, AppendTask DEF TypeOK
  <2>2. t \in InMemory(s)'
    BY <2>1 DEF InMemory
  <2>3. QED
    BY <1>1, <2>2 DEF Accounted, InFlight
<1>3. CASE dropped' = [dropped EXCEPT ![e] = @ \union {"full"}]
  BY <1>3 DEF Accounted, TypeOK
<1>4. QED
  BY <1>2, <1>3 DEF Publish

\* A marked row is accounted for (PublishedIsAccountedFor), whatever the number
\* of instances and faults: the ids a Process call collected are accounted for
\* since they were handed over, and what is accounted for stays so.
THEOREM NothingVanishes == Spec => []PublishedIsAccountedFor
<1> DEFINE Inv == PublishedIsAccountedFor /\ CollectedIsAccountedFor
<1>1. Init => Inv
  BY DEF Init, PublishedIsAccountedFor, CollectedIsAccountedFor
<1>2. TypeOK /\ Inv /\ [Next]_vars => Inv'
  <2> SUFFICES ASSUME TypeOK, Inv, [Next]_vars
               PROVE  Inv'
    OBVIOUS
  <2>1. Conserves
    BY StepConserves
  <2>2. \A e \in Event : Accounted(e) => Accounted(e)'
    BY <2>1, AccountedStays
  <2>3. \A e \in Event : row'[e] = "published" =>
           row[e] = "published" \/ \E s \in Server : e \in publishedIDs[s]
    <3>1. \A f \in Event : Transaction(f) =>
             \A e \in Event : row'[e] = "published" => row[e] = "published"
      BY DEF Transaction, Begin, Commit, Abort, TypeOK
    <3>2. \A s \in Server : MarkPublished(s) =>
             \A e \in Event : row'[e] = "published" =>
                row[e] = "published" \/ e \in publishedIDs[s]
      BY DEF MarkPublished
    <3>3. \/ \E f \in Event : Transaction(f)
          \/ \E s \in Server : MarkPublished(s)
          \/ row' = row
      BY DEF Next, Process, Poll, SkipMalformed, Publish, MarkFails, Dequeue, Relay,
             Handle, Boot, BeginShutdown, LoopStops, Exit, Crash, Die, dbVars, vars
    <3>4. QED
      BY <3>1, <3>2, <3>3
  <2>4. PublishedIsAccountedFor'
    BY <2>2, <2>3 DEF PublishedIsAccountedFor, CollectedIsAccountedFor
  <2>5. \A s \in Server : \A e \in publishedIDs'[s] :
           e \in publishedIDs[s] \/ (e \in Event /\ Accounted(e)')
    <3>1. ASSUME NEW z \in Server, NEW f \in Event, Publish(z, f)
          PROVE  \A s \in Server : \A e \in publishedIDs'[s] :
                    e \in publishedIDs[s] \/ (e \in Event /\ Accounted(e)')
      <4>1. publishedIDs' = [publishedIDs EXCEPT ![z] = @ \union {f}]
        BY <3>1 DEF Publish
      <4>2. Accounted(f)'
        BY <3>1, PublishAccounts
      <4>3. QED
        BY <4>1, <4>2 DEF TypeOK
    <3>2. \/ \E z \in Server, f \in Event : Publish(z, f)
          \/ publishedIDs' = publishedIDs
          \/ \E z \in Server : publishedIDs' = [publishedIDs EXCEPT ![z] = {}]
      BY DEF Next, Transaction, Begin, Commit, Abort, Process, Poll, SkipMalformed,
             MarkPublished, MarkFails, Dequeue, Relay, Handle, Boot, BeginShutdown,
             LoopStops, Exit, Crash, Die, publisherVars, vars
    <3>3. ASSUME NEW z \in Server, publishedIDs' = [publishedIDs EXCEPT ![z] = {}]
          PROVE  \A s \in Server : publishedIDs'[s] \subseteq publishedIDs[s]
      BY <3>3 DEF TypeOK
    <3>4. QED
      BY <3>1, <3>2, <3>3
  <2>6. \A s \in Server : publishedIDs[s] \subseteq Event
    BY DEF TypeOK
  <2>7. CollectedIsAccountedFor'
    BY <2>2, <2>5, <2>6 DEF CollectedIsAccountedFor
  <2>8. QED
    BY <2>4, <2>7
<1>3. QED
  BY <1>1, <1>2, TypeCorrect, PTL DEF Spec

\* What a step does to one instance's view of one event.
LEMMA RowStaysPublished ==
    ASSUME TypeOK, [Next]_vars, NEW e \in Event, row[e] = "published"
    PROVE  row'[e] = "published"
<1>1. \A f \in Event : Transaction(f) => row'[e] = "published"
  BY DEF Transaction, Begin, Commit, Abort, TypeOK
<1>2. \A s \in Server : MarkPublished(s) => row'[e] = "published"
  BY DEF MarkPublished
<1>3. \/ \E f \in Event : Transaction(f)
      \/ \E s \in Server : MarkPublished(s)
      \/ row' = row
  BY DEF Next, Process, Poll, SkipMalformed, Publish, MarkFails, Dequeue, Relay,
         Handle, Boot, BeginShutdown, LoopStops, Exit, Crash, Die, dbVars, vars
<1>4. QED
  BY <1>1, <1>2, <1>3

\* An instance publishes an event again only after an interrupted Process call
\* (RepublishOnlyAfterInterruption): while an entry has still to be visited, or
\* is not marked, each earlier attempt was followed by an interruption.
THEOREM BoundedRepublication == Spec => []RepublishOnlyAfterInterruption
<1> DEFINE Inv == RepublishOnlyAfterInterruption /\ AttemptsBeforeVisit
<1>1. Init => Inv
  BY DEF Init, RepublishOnlyAfterInterruption, AttemptsBeforeVisit
<1>2. TypeOK /\ Inv /\ [Next]_vars => Inv'
  <2> SUFFICES ASSUME TypeOK, Inv, [Next]_vars, NEW s \in Server, NEW e \in Event
               PROVE  /\ attempts'[s][e] <= interrupted'[s] + 1
                      /\ e \notin batch'[s] \/ e \notin publishedIDs'[s]
                      /\ e \notin publishedIDs'[s] /\ (row'[e] # "published" \/ e \in batch'[s])
                            => attempts'[s][e] <= interrupted'[s]
    BY DEF RepublishOnlyAfterInterruption, AttemptsBeforeVisit
  <2> DEFINE Goal == /\ attempts'[s][e] <= interrupted'[s] + 1
                     /\ e \notin batch'[s] \/ e \notin publishedIDs'[s]
                     /\ e \notin publishedIDs'[s] /\ (row'[e] # "published" \/ e \in batch'[s])
                           => attempts'[s][e] <= interrupted'[s]
  <2>1. /\ attempts[s][e] <= interrupted[s] + 1
        /\ e \notin batch[s] \/ e \notin publishedIDs[s]
        /\ e \notin publishedIDs[s] /\ (row[e] # "published" \/ e \in batch[s])
              => attempts[s][e] <= interrupted[s]
        /\ attempts[s][e] \in Nat /\ interrupted[s] \in Nat
    BY DEF RepublishOnlyAfterInterruption, AttemptsBeforeVisit, TypeOK
  <2>2. row[e] = "published" => row'[e] = "published"
    BY RowStaysPublished
  <2>3. ASSUME UNCHANGED <<batch[s], publishedIDs[s], attempts[s], interrupted[s]>>
        PROVE  Goal
    BY <2>1, <2>2, <2>3
  <2>4. ASSUME NEW z \in Server, Process(z)
        PROVE  Goal
    <3>1. CASE z # s
      <4>1. UNCHANGED <<batch[s], publishedIDs[s], attempts[s], interrupted[s]>>
        BY <2>4, <3>1 DEF Process, Poll, SkipMalformed, Publish, MarkPublished, MarkFails, TypeOK
      <4>2. QED
        BY <2>3, <4>1
    <3>2. CASE z = s /\ Poll(s)
      <4>1. /\ batch' = [batch EXCEPT ![s] = GetUnpublished] /\ publishedIDs[s] = {}
            /\ UNCHANGED <<row, publishedIDs, attempts, interrupted>>
        BY <3>2 DEF Poll, dbVars
      <4>2. e \in GetUnpublished => row[e] # "published"
        BY DEF GetUnpublished, Unpublished
      <4>3. QED
        BY <2>1, <4>1, <4>2 DEF TypeOK
    <3>3. ASSUME z = s, NEW f \in Event, SkipMalformed(s, f)
          PROVE  Goal
      BY <3>3, <2>1 DEF SkipMalformed, dbVars, TypeOK
    <3>4. ASSUME z = s, NEW f \in Event, Publish(s, f)
          PROVE  Goal
      <4>1. /\ f \in batch[s] /\ UNCHANGED <<row, interrupted>>
            /\ batch' = [batch EXCEPT ![s] = @ \ {f}]
            /\ publishedIDs' = [publishedIDs EXCEPT ![s] = @ \union {f}]
            /\ attempts' = [attempts EXCEPT ![s][f] = @ + 1]
        BY <3>4 DEF Publish, IsNext, dbVars
      <4>2. /\ batch'[s] = batch[s] \ {f}
            /\ publishedIDs'[s] = publishedIDs[s] \union {f}
        BY <4>1 DEF TypeOK
      <4>3. attempts'[s][e] = IF e = f THEN attempts[s][e] + 1 ELSE attempts[s][e]
        BY <4>1 DEF TypeOK
      <4>4. QED
        BY <2>1, <4>1, <4>2, <4>3
    <3>5. CASE z = s /\ MarkPublished(s)
      <4>1. /\ row' = [f \in Event |-> IF f \in publishedIDs[s] THEN "published" ELSE row[f]]
            /\ batch[s] = {} /\ publishedIDs' = [publishedIDs EXCEPT ![s] = {}]
            /\ UNCHANGED <<batch, attempts, interrupted>>
        BY <3>5 DEF MarkPublished, ReadyToMark
      <4>2. QED
        BY <2>1, <4>1 DEF TypeOK
    <3>6. CASE z = s /\ MarkFails(s)
      <4>1. /\ batch[s] = {} /\ publishedIDs' = [publishedIDs EXCEPT ![s] = {}]
            /\ interrupted' = [interrupted EXCEPT ![s] = @ + 1]
            /\ UNCHANGED <<batch, attempts>>
        BY <3>6 DEF MarkFails, ReadyToMark
      <4>2. interrupted'[s] = interrupted[s] + 1 /\ publishedIDs'[s] = {}
        BY <4>1 DEF TypeOK
      <4>3. QED
        BY <2>1, <4>1, <4>2
    <3>7. QED
      BY <2>4, <3>1, <3>2, <3>3, <3>4, <3>5, <3>6 DEF Process
  <2>5. ASSUME NEW z \in Server, Die(z)
        PROVE  Goal
    <3>1. CASE z # s
      <4>1. UNCHANGED <<batch[s], publishedIDs[s], attempts[s], interrupted[s]>>
        BY <2>5, <3>1 DEF Die, TypeOK
      <4>2. QED
        BY <2>3, <4>1
    <3>2. CASE z = s
      <4>1. /\ batch'[s] = {} /\ publishedIDs'[s] = {} /\ attempts' = attempts
            /\ interrupted'[s] = interrupted[s] + 1
        BY <2>5, <3>2 DEF Die, TypeOK
      <4>2. QED
        BY <2>1, <4>1
    <3>3. QED
      BY <3>1, <3>2
  <2>6. \/ \E z \in Server : Process(z)
        \/ \E z \in Server : Die(z)
        \/ UNCHANGED publisherVars
    BY DEF Next, Transaction, Begin, Commit, Abort, Dequeue, Relay, Handle, Boot,
           BeginShutdown, LoopStops, Exit, Crash, vars
  <2>7. UNCHANGED publisherVars => Goal
    BY <2>3 DEF publisherVars
  <2>8. QED
    BY <2>4, <2>5, <2>6, <2>7
<1>3. QED
  BY <1>1, <1>2, TypeCorrect, PTL DEF Spec

-----------------------------------------------------------------------------
(* The refinement of CommittedDelivery, without its liveness.              *)

\* A malformed event stays in the table.
MalformedStay == \A e \in Malformed : ~InFlight(e) /\ e \notin delivered /\ dropped[e] = {}

LEMMA MalformedOnlySkipped == Spec => []MalformedStay
<1>1. Init => MalformedStay
  BY MalformedAssumption, NoTasks DEF Init, MalformedStay, InFlight, InMemory
<1>2. TypeOK /\ MalformedStay /\ [Next]_vars => MalformedStay'
  <2> SUFFICES ASSUME TypeOK, MalformedStay, [Next]_vars, NEW e \in Malformed
               PROVE  ~InFlight(e)' /\ e \notin delivered' /\ dropped'[e] = {}
    BY DEF MalformedStay
  <2>1. e \in Event /\ ~InFlight(e) /\ e \notin delivered /\ dropped[e] = {}
    BY MalformedAssumption DEF MalformedStay
  <2>2. Conserves
    BY StepConserves
  <2> QED BY <2>1, <2>2 DEF Conserves, InFlight
<1> QED BY <1>1, <1>2, TypeCorrect, PTL DEF Spec

Committed == {e \in Event \ Malformed : row[e] \in {"unpublished", "published"}}
LostOnes == {e \in Event : Lost(e) # {}}

\* What is in memory, or is about to enter it, was committed and is well formed.
LEMMA MovedIsCommitted ==
    ASSUME TypeOK, OnlyCommittedLeave, MalformedStay, NEW e \in Event,
           InFlight(e) \/ \E z \in Server : e \in batch[z] \ Malformed
    PROVE  e \in Committed
BY DEF TypeOK, Row, OnlyCommittedLeave, MalformedStay, Committed

\* Losses only grow, within what is committed.
LEMMA LossesGrow ==
    ASSUME TypeOK, OnlyCommittedLeave, MalformedStay, [Next]_vars
    PROVE  LostOnes \subseteq LostOnes' /\ LostOnes' \ LostOnes \subseteq Committed
<1>1. Conserves
  BY StepConserves
<1>2. ASSUME NEW e \in LostOnes PROVE e \in LostOnes'
  BY <1>1, <1>2 DEF Conserves, LostOnes, Lost
<1>3. ASSUME NEW e \in LostOnes', e \notin LostOnes PROVE e \in Committed
  <2>1. e \in Event /\ dropped'[e] # dropped[e]
    BY <1>3 DEF LostOnes, Lost
  <2> QED BY <1>1, <2>1, MovedIsCommitted DEF Conserves
<1> QED BY <1>2, <1>3

\* A step of the pipeline commits one event, handles one, or loses some.
LEMMA StepImplements ==
    ASSUME TypeOK, OnlyCommittedLeave, MalformedStay, [Next]_vars
    PROVE  [Promise!Next]_(Promise!vars)
<1> DEFINE Stays == Committed' = Committed /\ delivered' = delivered
<1>1. ASSUME Stays PROVE [Promise!Next]_(Promise!vars)
  <2>1. CASE LostOnes' = LostOnes
    BY <1>1, <2>1 DEF Promise!vars, Committed, LostOnes
  <2>2. CASE LostOnes' # LostOnes
    <3>1. LostOnes' = LostOnes \union (LostOnes' \ LostOnes)
      BY LossesGrow
    <3>2. LostOnes' \ LostOnes \in SUBSET (Event \ Malformed)
      BY LossesGrow DEF Committed
    <3>3. Promise!Drop(LostOnes' \ LostOnes)
      BY <1>1, <3>1, LossesGrow DEF Promise!Drop, Committed, LostOnes
    <3> QED BY <3>2, <3>3 DEF Promise!Next
  <2> QED BY <2>1, <2>2
<1>2. ASSUME NEW e \in Event, Transaction(e) PROVE [Promise!Next]_(Promise!vars)
  <2>1. delivered' = delivered /\ dropped' = dropped
    BY <1>2 DEF Transaction, Begin, Commit, Abort, outcomeVars
  <2>2. LostOnes' = LostOnes
    BY <2>1 DEF LostOnes, Lost
  <2>3. CASE Commit(e) /\ e \notin Malformed
    <3>1. Committed' = Committed \union {e} /\ e \notin Committed
      BY <2>3 DEF Commit, Committed, TypeOK
    <3>2. Promise!Commit(e)
      BY <2>1, <2>2, <3>1 DEF Promise!Commit, Committed, LostOnes
    <3> QED BY <2>3, <3>2 DEF Promise!Next
  <2>4. CASE ~(Commit(e) /\ e \notin Malformed)
    <3>1. Committed' = Committed
      BY <1>2, <2>4 DEF Transaction, Begin, Commit, Abort, Committed, TypeOK
    <3> QED BY <1>1, <2>1, <3>1
  <2> QED BY <2>3, <2>4
<1>3. ASSUME NEW s \in Server, MarkPublished(s) PROVE [Promise!Next]_(Promise!vars)
  <2>1. \A e \in publishedIDs[s] : row[e] \in {"unpublished", "published"}
    BY DEF TypeOK, Row, OnlyCommittedLeave
  <2>2. Committed' = Committed
    BY <1>3, <2>1 DEF MarkPublished, Committed, TypeOK
  <2> QED BY <1>1, <1>3, <2>2 DEF MarkPublished, outcomeVars
<1>4. ASSUME NEW s \in Server, Handle(s) PROVE [Promise!Next]_(Promise!vars)
  <2>1. Committed' = Committed
    BY <1>4 DEF Handle, dbVars, Committed
  <2>2. PICK t \in spawned[s] :
           \/ delivered' = delivered \union {t.event} /\ dropped' = dropped
           \/ delivered' = delivered
    BY <1>4 DEF Handle
  <2>3. CASE delivered' = delivered \union {t.event} /\ dropped' = dropped
    <3>1. t \in InMemory(s) /\ t.event \in Event
      BY <2>2, MemoryTyped DEF InMemory
    <3>2. t.event \in Committed
      BY <3>1, MovedIsCommitted DEF InFlight
    <3>3. Promise!Deliver(t.event)
      BY <2>1, <2>3, <3>2 DEF Promise!Deliver, Committed, LostOnes, Lost
    <3> QED BY <3>2, <3>3 DEF Promise!Next, Committed
  <2> QED BY <1>1, <2>1, <2>2, <2>3
<1>5. CASE UNCHANGED <<row, delivered>>
  BY <1>1, <1>5 DEF Committed
<1>6. (UNCHANGED vars) => UNCHANGED <<row, delivered>>
  BY DEF vars, dbVars, outcomeVars
<1>7. ASSUME NEW s \in Server, Process(s), ~MarkPublished(s) PROVE UNCHANGED <<row, delivered>>
  BY <1>7 DEF Process, Poll, SkipMalformed, Publish, MarkFails, dbVars, outcomeVars
<1>8. ASSUME NEW s \in Server,
             \/ Dequeue(s) \/ Relay(s)
             \/ Boot(s) \/ BeginShutdown(s) \/ LoopStops(s) \/ Exit(s) \/ Crash(s)
      PROVE  UNCHANGED <<row, delivered>>
  BY <1>8 DEF Dequeue, Relay, Boot, BeginShutdown, LoopStops, Exit, Crash, Die, dbVars, outcomeVars
<1> QED BY <1>2, <1>3, <1>4, <1>5, <1>6, <1>7, <1>8 DEF Next

\* The pipeline, in any number of instances and with any faults, does only what
\* CommittedDelivery allows: what reaches a subscriber or is lost was committed,
\* and each step decides about events of one kind.
THEOREM RefinesPromise == Spec => Promise!SafeSpec
<1>1. Init => Promise!Init
  BY DEF Init, Promise!Init, Lost
<1> QED
  BY <1>1, StepImplements, TypeCorrect, CommittedOnly, MalformedOnlySkipped, PTL
     DEF Spec, Promise!SafeSpec
=============================================================================
