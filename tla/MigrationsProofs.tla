--------------------------- MODULE MigrationsProofs ---------------------------
(***************************************************************************)
(* Proofs about Migrations: whatever the modules, their numbers of         *)
(* migrations, the processes and the failures, the tracker of a module     *)
(* that no drop has torn tells the truth, an up script runs on the schema  *)
(* it was written for, and a server serves over schemas at their latest    *)
(* version.  No two processes wait for each other, and every statement of  *)
(* a command leads to its end.                                             *)
(*                                                                         *)
(* None of these is inductive.  The invariant that is says three things    *)
(* more: who works on a module holds its lock and nobody else does         *)
(* (LocksSound); at each place of such a process schema and tracker are at *)
(* the versions its step needs (WorkInStep); and what it leaves behind     *)
(* when it gives the lock back, or dies, is at most a dirty mark           *)
(* (IdleInStep).  For the server it takes one about what a process has     *)
(* passed on its way (ServeInv).                                           *)
(***************************************************************************)
EXTENDS Migrations, TLAPS

Held == {"marking", "running", "cleaning"}

LocksSound ==
  /\ \A p \in Processes : proc[p].at \in Held =>
       /\ lock[Mod(p)] = p
       /\ proc[p].target <= Latest[Mod(p)]
       /\ Up(p) => proc[p].target > 0
  /\ \A p \in Processes, m \in Modules :
       lock[m] = p => proc[p].at \in Held /\ Mod(p) = m

Before(p) == IF Up(p) THEN proc[p].target - 1 ELSE proc[p].target + 1

InStep(p) ==
  LET m == Mod(p) IN
  /\ At(p, "marking")  => /\ tracker[m].mark # "dirty"
                          /\ tracker[m].version = Before(p)
                          /\ schema[m] = Before(p)
  /\ At(p, "running")  => /\ tracker[m].mark = "dirty"
                          /\ tracker[m].version = proc[p].target
                          /\ schema[m] = Before(p)
  /\ At(p, "cleaning") => /\ tracker[m].mark = "dirty"
                          /\ tracker[m].version = proc[p].target
                          /\ schema[m] = proc[p].target

WorkInStep ==
  \A p \in Processes : proc[p].at \in Held /\ Mod(p) \notin torn => InStep(p)

IdleInStep ==
  \A m \in Modules \ torn : lock[m] = NoOne =>
    /\ schema[m] <= tracker[m].version + 1
    /\ tracker[m].version <= schema[m] + 1
    /\ tracker[m].mark # "dirty" => schema[m] = tracker[m].version

IInv == TypeOK /\ LocksSound /\ WorkInStep /\ IdleInStep

-------------------------------------------------------------------------------
(* Facts about places.                                                      *)

LEMMA ModIsModule ==
  ASSUME TypeOK, NEW p \in Processes
  PROVE  Mod(p) \in Modules
BY OrderIsSequence DEF TypeOK, Proc, Mod, Modules

LEMMA InitIInv == Init => IInv
<1> SUFFICES ASSUME Init PROVE IInv
  OBVIOUS
<1> USE OrderIsSequence, LatestAssumption, NoOneAssumption DEF Init
<1>1. TypeOK
  <2>1. Nothing \in [version : Nat, mark : {"absent", "clean", "dirty"}] /\ Nothing.version = 0
    BY DEF Nothing
  <2>2. /\ tracker \in [Modules -> [version : Nat, mark : {"absent", "clean", "dirty"}]]
        /\ \A m \in Modules : tracker[m].version = 0
    BY <2>1
  <2>3. \A m \in Modules : schema[m] = 0 /\ 0 <= Latest[m]
    BY LatestAssumption
  <2>4. \A m \in Modules : tracker[m].version <= Latest[m]
    BY <2>2, <2>3
  <2>5. proc \in [Processes -> Proc]
    BY DEF Proc, Commands, Finished
  <2>6. schema \in [Modules -> Nat] /\ \A m \in Modules : schema[m] <= Latest[m]
    BY <2>3
  <2>7. lock \in [Modules -> Processes \cup {NoOne}]
    OBVIOUS
  <2>8. undone \in [Processes -> SUBSET Modules] /\ raised \in [Processes -> SUBSET Modules]
    OBVIOUS
  <2>9. \A m \in Modules : tracker[m].mark = "absent" => tracker[m].version = 0
    BY <2>2
  <2>10. torn \in SUBSET Modules /\ rollbacks \in Nat /\ launches \in Nat /\ faults \in Nat
    OBVIOUS
  <2> QED BY <2>2, <2>4, <2>5, <2>6, <2>7, <2>8, <2>9, <2>10 DEF TypeOK
<1>2. LocksSound
  BY DEF LocksSound, Held
<1>3. WorkInStep
  BY DEF WorkInStep, Held
<1>4. IdleInStep
  BY DEF IdleInStep, Nothing
<1> QED BY <1>1, <1>2, <1>3, <1>4 DEF IInv

(* A step of p that only changes its place. *)
LEMMA GoesEffect ==
  ASSUME TypeOK, NEW p \in Processes,
         NEW place \in Finished \cup {"serving", "opening", "reading", "taking", "marking",
                                      "running", "cleaning", "dropSchema", "dropTable"},
         Goes(p, place)
  PROVE  /\ proc' \in [Processes -> Proc]
         /\ proc'[p] = [proc[p] EXCEPT !.at = place]
         /\ \A q \in Processes : q # p => proc'[q] = proc[q]
<1> DEFINE r == [proc[p] EXCEPT !.at = place]
<1>1. proc[p] \in Proc
  BY DEF TypeOK
<1>2. r \in Proc
  BY <1>1 DEF Proc
<1>3. proc' = [proc EXCEPT ![p] = r]
  BY DEF Goes
<1> HIDE DEF r
<1>4. /\ proc' \in [Processes -> Proc] /\ proc'[p] = r
      /\ \A q \in Processes : q # p => proc'[q] = proc[q]
  BY <1>2, <1>3 DEF TypeOK
<1> QED BY <1>4 DEF r

(* The end of a module leaves p at a place where it holds nothing. *)
LEMMA NextDownEffect ==
  ASSUME TypeOK, NEW p \in Processes, NEW S \in SUBSET Modules, NextDown(p, S)
  PROVE  /\ proc' \in [Processes -> Proc]
         /\ proc'[p].at \notin Held
         /\ \A q \in Processes : q # p => proc'[q] = proc[q]
<1>1. proc[p] \in Proc /\ Len(Order) \in Nat \ {0}
  BY OrderIsSequence DEF TypeOK
<1> DEFINE d  == proc[p].done \cup S
           at == IF ~ (proc[p].k = 1) THEN "opening" ELSE IF d = {} THEN "failed" ELSE "ended"
           k  == IF proc[p].k = 1 THEN proc[p].k ELSE proc[p].k - 1
           r  == [proc[p] EXCEPT !.done = d, !.k = k, !.at = at]
<1>2. k \in 1 .. Len(Order) /\ d \in SUBSET Modules
  BY <1>1 DEF Proc
<1>3. at \in {"opening", "failed", "ended", "serving"}
  OBVIOUS
<1>4. proc' = [proc EXCEPT ![p] = r]
  BY DEF NextDown
<1>5. r \in Proc /\ r.at = at
  <2> HIDE DEF at, k, d
  <2> QED BY <1>1, <1>2, <1>3 DEF Proc, Finished
<1> HIDE DEF r, at
<1> QED BY <1>3, <1>4, <1>5 DEF TypeOK, Held

LEMMA NextUpEffect ==
  ASSUME TypeOK, NEW p \in Processes, NextUp(p)
  PROVE  /\ proc' \in [Processes -> Proc]
         /\ proc'[p].at \notin Held
         /\ \A q \in Processes : q # p => proc'[q] = proc[q]
<1>1. proc[p] \in Proc /\ Len(Order) \in Nat \ {0}
  BY OrderIsSequence DEF TypeOK
<1> DEFINE at == IF ~ (proc[p].k = Len(Order)) THEN "opening"
                 ELSE IF proc[p].cmd = "start" THEN "serving" ELSE "ended"
           k  == IF proc[p].k = Len(Order) THEN proc[p].k ELSE proc[p].k + 1
           r  == [proc[p] EXCEPT !.k = k, !.at = at]
<1>2. k \in 1 .. Len(Order)
  BY <1>1 DEF Proc
<1>3. at \in {"opening", "failed", "ended", "serving"}
  OBVIOUS
<1>4. proc' = [proc EXCEPT ![p] = r]
  BY DEF NextUp
<1>5. r \in Proc /\ r.at = at
  <2> HIDE DEF at, k
  <2> QED BY <1>1, <1>2, <1>3 DEF Proc, Finished
<1> HIDE DEF r, at
<1> QED BY <1>3, <1>4, <1>5 DEF TypeOK, Held

LEMMA NextModuleEffect ==
  ASSUME TypeOK, NEW p \in Processes, NextModule(p)
  PROVE  /\ proc' \in [Processes -> Proc]
         /\ proc'[p].at \notin Held
         /\ \A q \in Processes : q # p => proc'[q] = proc[q]
<1>1. {Mod(p)} \in SUBSET Modules
  BY ModIsModule
<1> QED BY <1>1, NextUpEffect, NextDownEffect DEF NextModule

LEMMA AbortEffect ==
  ASSUME TypeOK, NEW p \in Processes, Abort(p)
  PROVE  /\ proc' \in [Processes -> Proc]
         /\ proc'[p].at \notin Held
         /\ \A q \in Processes : q # p => proc'[q] = proc[q]
<1>1. PICK place \in {"failed", "dropSchema"} : Goes(p, place)
  BY DEF Abort
<1>2. proc'[p] = [proc[p] EXCEPT !.at = place]
  BY <1>1, GoesEffect DEF Finished
<1>3. proc'[p].at = place
  BY <1>2 DEF TypeOK, Proc
<1> QED BY <1>1, <1>3, GoesEffect DEF Finished, Held

LEMMA StartsOnEffect ==
  ASSUME TypeOK, NEW p \in Processes, NEW v \in Nat, StartsOn(p, v)
  PROVE  /\ proc' \in [Processes -> Proc]
         /\ proc'[p].at = "marking" /\ proc'[p].target = v
         /\ proc'[p].k = proc[p].k /\ proc'[p].cmd = proc[p].cmd
         /\ \A q \in Processes : q # p => proc'[q] = proc[q]
<1> DEFINE r == [proc[p] EXCEPT !.at = "marking", !.target = v]
<1>1. /\ r \in Proc /\ r.at = "marking" /\ r.target = v
      /\ r.k = proc[p].k /\ r.cmd = proc[p].cmd
  BY DEF TypeOK, Proc
<1>2. proc' = [proc EXCEPT ![p] = r]
  BY DEF StartsOn
<1> HIDE DEF r
<1> QED BY <1>1, <1>2 DEF TypeOK

LEMMA ReleaseEffect ==
  ASSUME TypeOK, NEW p \in Processes, Release(p)
  PROVE  /\ lock' \in [Modules -> Processes \cup {NoOne}]
         /\ \A m \in Modules : lock'[m] = IF lock[m] = p THEN NoOne ELSE lock[m]
BY DEF TypeOK, Release

-------------------------------------------------------------------------------
(* What the steps do to locks and versions, by kind.                        *)

(* A process whose place, schema and tracker stay is in step as before. *)
LEMMA InStepStays ==
  ASSUME NEW q \in Processes, proc'[q] = proc[q], InStep(q),
         schema'[Mod(q)] = schema[Mod(q)], tracker'[Mod(q)] = tracker[Mod(q)]
  PROVE  InStep(q)'
<1>1. /\ Mod(q)' = Mod(q) /\ Up(q)' = Up(q) /\ Before(q)' = Before(q)
      /\ \A place : At(q, place)' <=> At(q, place)
  BY DEF Mod, Up, Before, At
<1> QED BY <1>1 DEF InStep

(* p works on nothing before and after. *)
LEMMA Elsewhere ==
  ASSUME IInv, NEW p \in Processes,
         proc[p].at \notin Held, proc'[p].at \notin Held,
         \A q \in Processes : q # p => proc'[q] = proc[q],
         UNCHANGED <<schema, lock, torn>>,
         \A m \in Modules :
           \/ tracker'[m] = tracker[m]
           \/ /\ lock[m] = NoOne /\ tracker'[m].version = tracker[m].version
              /\ tracker[m].mark = "absent" /\ tracker'[m].mark = "clean"
  PROVE  LocksSound' /\ WorkInStep' /\ IdleInStep'
<1> USE DEF IInv
<1>1. LocksSound'
  BY NoOneAssumption DEF LocksSound, Mod, Up
<1>2. ASSUME NEW q \in Processes, proc'[q].at \in Held, Mod(q)' \notin torn'
      PROVE  InStep(q)'
  <2>1. q # p /\ proc'[q] = proc[q] /\ Mod(q)' = Mod(q) /\ Up(q)' = Up(q)
    BY <1>2 DEF Mod, Up
  <2>2. lock[Mod(q)] = q /\ Mod(q) \in Modules /\ lock[Mod(q)] # NoOne
    BY <1>2, <2>1, ModIsModule, NoOneAssumption DEF LocksSound
  <2>3. tracker'[Mod(q)] = tracker[Mod(q)]
    BY <2>2
  <2>4. InStep(q)
    BY <1>2, <2>1 DEF WorkInStep
  <2> QED BY <2>1, <2>3, <2>4, InStepStays
<1>3. IdleInStep'
  BY DEF IdleInStep
<1> QED BY <1>1, <1>2, <1>3 DEF WorkInStep

(* p gives up what it holds, as it finds it. *)
LEMMA LetsGo ==
  ASSUME IInv, NEW p \in Processes,
         proc'[p].at \notin Held, Release(p),
         \A q \in Processes : q # p => proc'[q] = proc[q],
         UNCHANGED <<schema, tracker, torn>>
  PROVE  LocksSound' /\ WorkInStep' /\ IdleInStep'
<1> USE DEF IInv
<1>0. \A m \in Modules : lock'[m] = IF lock[m] = p THEN NoOne ELSE lock[m]
  BY ReleaseEffect
<1>1. LocksSound'
  <2>1. ASSUME NEW q \in Processes, proc'[q].at \in Held
        PROVE  /\ lock'[Mod(q)'] = q
               /\ proc'[q].target <= Latest[Mod(q)']
               /\ Up(q)' => proc'[q].target > 0
    <3>1. q # p /\ proc'[q] = proc[q] /\ Mod(q)' = Mod(q) /\ Up(q)' = Up(q)
      BY <2>1 DEF Mod, Up
    <3>2. Mod(q) \in Modules /\ lock[Mod(q)] = q
      BY <2>1, <3>1, ModIsModule DEF LocksSound
    <3> QED BY <2>1, <3>1, <3>2, <1>0 DEF LocksSound
  <2>2. ASSUME NEW q \in Processes, NEW m \in Modules, lock'[m] = q
        PROVE  proc'[q].at \in Held /\ Mod(q)' = m
    <3>1. q # p /\ lock[m] = q
      BY <2>2, <1>0, NoOneAssumption
    <3> QED BY <3>1 DEF LocksSound, Mod
  <2> QED BY <2>1, <2>2 DEF LocksSound
<1>2. ASSUME NEW q \in Processes, proc'[q].at \in Held, Mod(q)' \notin torn'
      PROVE  InStep(q)'
  <2>1. q # p /\ proc'[q] = proc[q] /\ Mod(q)' = Mod(q) /\ Up(q)' = Up(q)
    BY <1>2 DEF Mod, Up
  <2>2. InStep(q)
    BY <1>2, <2>1 DEF WorkInStep
  <2> QED BY <2>1, <2>2, InStepStays
<1>3. ASSUME NEW m \in Modules \ torn', lock'[m] = NoOne
      PROVE  /\ schema'[m] <= tracker'[m].version + 1
             /\ tracker'[m].version <= schema'[m] + 1
             /\ tracker'[m].mark # "dirty" => schema'[m] = tracker'[m].version
  <2>1. CASE lock[m] = NoOne
    BY <2>1, <1>3 DEF IdleInStep
  <2>2. CASE lock[m] = p
    <3>1. proc[p].at \in Held /\ Mod(p) = m
      BY <2>2 DEF LocksSound
    <3>2. InStep(p) /\ (Up(p) => proc[p].target > 0)
      BY <3>1, <1>3 DEF WorkInStep, LocksSound
    <3>3. proc[p].target \in Nat /\ schema[m] \in Nat /\ tracker[m].version \in Nat
      BY DEF TypeOK, Proc
    <3> QED BY <3>1, <3>2, <3>3 DEF InStep, At, Before, Held
  <2> QED BY <2>1, <2>2, <1>0, <1>3
<1> QED BY <1>1, <1>2, <1>3 DEF WorkInStep, IdleInStep

(* p takes a module or stays at work on it. *)
LEMMA Holds ==
  ASSUME IInv, NEW p \in Processes, TypeOK',
         proc'[p].at \in Held, Mod(p)' = Mod(p), Up(p)' = Up(p),
         proc'[p].target <= Latest[Mod(p)], Up(p) => proc'[p].target > 0,
         \A q \in Processes : q # p => proc'[q] = proc[q],
         lock[Mod(p)] \in {p, NoOne},
         lock' = [lock EXCEPT ![Mod(p)] = p],
         proc[p].at \in Held => lock[Mod(p)] = p,
         \A m \in Modules : m # Mod(p) => schema'[m] = schema[m] /\ tracker'[m] = tracker[m],
         torn' = torn,
         Mod(p) \notin torn => InStep(p)'
  PROVE  LocksSound' /\ WorkInStep' /\ IdleInStep'
<1> USE DEF IInv
<1>0. /\ Mod(p) \in Modules /\ lock'[Mod(p)] = p
      /\ \A m \in Modules : m # Mod(p) => lock'[m] = lock[m]
  BY ModIsModule DEF TypeOK
<1>1. ASSUME NEW q \in Processes, q # p, proc'[q].at \in Held
      PROVE  /\ proc'[q] = proc[q] /\ Mod(q)' = Mod(q) /\ Up(q)' = Up(q)
             /\ Mod(q) \in Modules /\ Mod(q) # Mod(p) /\ lock'[Mod(q)] = q
             /\ proc[q].target <= Latest[Mod(q)]
             /\ Up(q) => proc[q].target > 0
  <2>1. proc'[q] = proc[q] /\ Mod(q)' = Mod(q) /\ Up(q)' = Up(q)
    BY <1>1 DEF Mod, Up
  <2>2. Mod(q) \in Modules /\ lock[Mod(q)] = q
    BY <1>1, <2>1, ModIsModule DEF LocksSound
  <2>3. Mod(q) # Mod(p)
    BY <1>1, <2>2, NoOneAssumption
  <2> QED BY <1>0, <1>1, <2>1, <2>2, <2>3 DEF LocksSound
<1>2. LocksSound'
  <2>1. ASSUME NEW q \in Processes, proc'[q].at \in Held
        PROVE  /\ lock'[Mod(q)'] = q
               /\ proc'[q].target <= Latest[Mod(q)']
               /\ Up(q)' => proc'[q].target > 0
    <3>1. CASE q = p
      BY <3>1, <1>0
    <3>2. CASE q # p
      BY <3>2, <2>1, <1>1
    <3> QED BY <3>1, <3>2
  <2>2. ASSUME NEW q \in Processes, NEW m \in Modules, lock'[m] = q
        PROVE  proc'[q].at \in Held /\ Mod(q)' = m
    <3>1. CASE q = p
      <4>1. m = Mod(p)
        BY <3>1, <2>2, <1>0 DEF LocksSound
      <4> QED BY <3>1, <4>1
    <3>2. CASE q # p
      <4>1. lock[m] = q /\ proc'[q] = proc[q]
        BY <3>2, <2>2, <1>0
      <4> QED BY <4>1 DEF LocksSound, Mod
    <3> QED BY <3>1, <3>2
  <2> QED BY <2>1, <2>2 DEF LocksSound
<1>3. ASSUME NEW q \in Processes, proc'[q].at \in Held, Mod(q)' \notin torn'
      PROVE  InStep(q)'
  <2>1. CASE q = p
    BY <2>1, <1>3
  <2>2. CASE q # p
    <3>1. InStep(q) /\ schema'[Mod(q)] = schema[Mod(q)] /\ tracker'[Mod(q)] = tracker[Mod(q)]
      BY <2>2, <1>1, <1>3 DEF WorkInStep
    <3> QED BY <2>2, <1>1, <1>3, <3>1, InStepStays
  <2> QED BY <2>1, <2>2
<1>4. IdleInStep'
  BY <1>0, NoOneAssumption DEF IdleInStep
<1> QED BY <1>2, <1>3, <1>4 DEF WorkInStep

-------------------------------------------------------------------------------
(* Type correctness of what a step of p changes.                            *)

LEMMA NotesTyped ==
  ASSUME TypeOK, NEW p \in Processes, NEW m \in Modules
  PROVE  /\ NotesDown(p, m) => undone' \in [Processes -> SUBSET Modules]
         /\ NotesUp(p, m) => raised' \in [Processes -> SUBSET Modules]
<1>1. \A q \in Processes : undone[q] \in SUBSET Modules /\ raised[q] \in SUBSET Modules
  BY DEF TypeOK
<1>2. ASSUME NEW q \in Processes
      PROVE  /\ (IF q = p THEN undone[q] ELSE undone[q] \cup {m}) \in SUBSET Modules
             /\ (IF q = p THEN raised[q] ELSE raised[q] \cup {m}) \in SUBSET Modules
  BY <1>1
<1>3. NotesDown(p, m) => undone' \in [Processes -> SUBSET Modules]
  BY <1>2, Zenon DEF NotesDown
<1>4. NotesUp(p, m) => raised' \in [Processes -> SUBSET Modules]
  BY <1>2, Zenon DEF NotesUp
<1> QED BY <1>3, <1>4

LEMMA TrackerTyped ==
  ASSUME TypeOK, NEW m \in Modules, NEW v \in Nat, NEW mark \in {"clean", "dirty"},
         v <= Latest[m], tracker' = [tracker EXCEPT ![m] = [version |-> v, mark |-> mark]]
  PROVE  /\ tracker' \in [Modules -> [version : Nat, mark : {"absent", "clean", "dirty"}]]
         /\ \A n \in Modules : tracker'[n].version <= Latest[n]
         /\ \A n \in Modules : tracker'[n].mark = "absent" => tracker'[n].version = 0
         /\ tracker'[m] = [version |-> v, mark |-> mark]
         /\ \A n \in Modules : n # m => tracker'[n] = tracker[n]
BY DEF TypeOK

-------------------------------------------------------------------------------
(* The steps, one by one.                                                   *)

LEMMA LaunchKeeps ==
  ASSUME IInv, NEW p \in Processes, NEW cmd \in Commands, Launch(p, cmd)
  PROVE  IInv'
<1> USE DEF IInv
<1> DEFINE r == [cmd |-> cmd, at |-> "opening",
                 k |-> IF cmd = "down" THEN Len(Order) ELSE 1,
                 target |-> 0, done |-> {}]
<1>1. r \in Proc
  BY OrderIsSequence DEF Proc
<1>2. proc' = [proc EXCEPT ![p] = r] /\ r.at = "opening"
  BY DEF Launch
<1> HIDE DEF r
<1>3. TypeOK'
  <2>1. proc' \in [Processes -> Proc]
    BY <1>1, <1>2 DEF TypeOK
  <2>2. undone' \in [Processes -> SUBSET Modules] /\ raised' \in [Processes -> SUBSET Modules]
    BY DEF TypeOK, Launch
  <2>3. rollbacks' \in Nat /\ launches' \in Nat
    BY DEF TypeOK, Launch
  <2>4. UNCHANGED <<schema, tracker, lock, torn, faults>>
    BY DEF Launch, db
  <2> QED BY <2>1, <2>2, <2>3, <2>4 DEF TypeOK
<1>4. proc[p].at \notin Held /\ proc'[p].at \notin Held
  BY <1>2 DEF Launch, Finished, Held, TypeOK
<1>5. \A q \in Processes : q # p => proc'[q] = proc[q]
  BY <1>2 DEF TypeOK
<1>6. UNCHANGED <<schema, lock, torn>> /\ \A m \in Modules : tracker'[m] = tracker[m]
  BY DEF Launch, db
<1> QED BY <1>3, <1>4, <1>5, <1>6, Elsewhere

LEMMA StopKeeps ==
  ASSUME IInv, NEW p \in Processes, Stop(p)
  PROVE  IInv'
<1> USE DEF IInv
<1>1. /\ proc' \in [Processes -> Proc]
      /\ proc'[p] = [proc[p] EXCEPT !.at = "off"]
      /\ \A q \in Processes : q # p => proc'[q] = proc[q]
  BY GoesEffect DEF Stop, Finished
<1>2. TypeOK'
  BY <1>1 DEF TypeOK, Stop, db, history, Steady
<1>3. proc[p].at \notin Held /\ proc'[p].at \notin Held
  BY <1>1 DEF Stop, At, Held, TypeOK, Proc
<1> QED BY <1>1, <1>2, <1>3, Elsewhere DEF Stop, db, history

LEMMA OpenKeeps ==
  ASSUME IInv, NEW p \in Processes, Open(p)
  PROVE  IInv'
<1> USE DEF IInv
<1>1. PICK place \in {"taking", "reading"} : Goes(p, place)
  BY DEF Open
<1>2. /\ proc' \in [Processes -> Proc]
      /\ proc'[p] = [proc[p] EXCEPT !.at = place]
      /\ \A q \in Processes : q # p => proc'[q] = proc[q]
  BY <1>1, GoesEffect
<1>3. proc[p].at \notin Held /\ proc'[p].at \notin Held
  BY <1>2 DEF Open, At, Held, TypeOK, Proc
<1>4. Mod(p) \in Modules
  BY ModIsModule
<1>5. tracker' = [tracker EXCEPT ![Mod(p)].mark =
                    IF tracker[Mod(p)].mark = "absent" THEN "clean" ELSE tracker[Mod(p)].mark]
  BY DEF Open
<1>6. ASSUME NEW m \in Modules
      PROVE  /\ tracker'[m] \in [version : Nat, mark : {"absent", "clean", "dirty"}]
             /\ tracker'[m].version = tracker[m].version
             /\ tracker'[m].mark # "absent" \/ tracker'[m] = tracker[m]
             /\ \/ tracker'[m] = tracker[m]
                \/ /\ m = Mod(p)
                   /\ tracker[m].mark = "absent" /\ tracker'[m].mark = "clean"
  BY <1>4, <1>5 DEF TypeOK
<1>7. tracker' \in [Modules -> [version : Nat, mark : {"absent", "clean", "dirty"}]]
  BY <1>5, <1>6 DEF TypeOK
<1>8. TypeOK'
  <2>1. \A m \in Modules : tracker'[m].version <= Latest[m]
    BY <1>6 DEF TypeOK
  <2>2. \A m \in Modules : tracker'[m].mark = "absent" => tracker'[m].version = 0
    BY <1>6 DEF TypeOK
  <2> QED BY <1>2, <1>7, <2>1, <2>2 DEF TypeOK, Open, history, Steady
<1>9. lock[Mod(p)] = NoOne /\ UNCHANGED <<schema, lock, torn>>
  BY DEF Open, history
<1> QED BY <1>2, <1>3, <1>6, <1>8, <1>9, Elsewhere

(* The steps that go on to the next module, or fail, without holding a lock. *)
LEMMA PassesKeeps ==
  ASSUME IInv, NEW p \in Processes, proc[p].at \notin Held,
         \/ NextModule(p) \/ Abort(p) \/ NextDown(p, {Mod(p)}) \/ NextDown(p, {})
         \/ Goes(p, "taking"),
         UNCHANGED <<db, lock, history>>,
         rollbacks' \in Nat, launches' \in Nat, faults' \in Nat
  PROVE  IInv'
<1> USE DEF IInv
<1>1. /\ proc' \in [Processes -> Proc]
      /\ proc'[p].at \notin Held
      /\ \A q \in Processes : q # p => proc'[q] = proc[q]
  <2>1. {Mod(p)} \in SUBSET Modules /\ {} \in SUBSET Modules
    BY ModIsModule
  <2>2. CASE Goes(p, "taking")
    <3>1. proc'[p] = [proc[p] EXCEPT !.at = "taking"]
      BY <2>2, GoesEffect
    <3>2. proc'[p].at = "taking"
      BY <3>1 DEF TypeOK, Proc
    <3> QED BY <2>2, <3>2, GoesEffect DEF Held
  <2> QED BY <2>1, <2>2, NextModuleEffect, AbortEffect, NextDownEffect
<1>2. TypeOK'
  BY <1>1 DEF TypeOK, db, history
<1> QED BY <1>1, <1>2, Elsewhere DEF db, history

(* The steps that fail, or die, and give up the lock if they hold it. *)
LEMMA GivesUpKeeps ==
  ASSUME IInv, NEW p \in Processes, Abort(p) \/ Goes(p, "off"), Release(p),
         UNCHANGED <<db, history>>,
         rollbacks' \in Nat, launches' \in Nat, faults' \in Nat
  PROVE  IInv'
<1> USE DEF IInv
<1>1. /\ proc' \in [Processes -> Proc]
      /\ proc'[p].at \notin Held
      /\ \A q \in Processes : q # p => proc'[q] = proc[q]
  <2>1. CASE Goes(p, "off")
    <3>1. proc'[p] = [proc[p] EXCEPT !.at = "off"]
      BY <2>1, GoesEffect DEF Finished
    <3>2. proc'[p].at = "off"
      BY <3>1 DEF TypeOK, Proc
    <3> QED BY <2>1, <3>2, GoesEffect DEF Held, Finished
  <2> QED BY <2>1, AbortEffect
<1>2. TypeOK'
  BY <1>1, ReleaseEffect DEF TypeOK, db, history
<1> QED BY <1>1, <1>2, LetsGo DEF db, history

LEMMA TakeKeeps ==
  ASSUME IInv, NEW p \in Processes, Take(p)
  PROVE  IInv'
<1> DEFINE m    == Mod(p)
           v    == tracker[m].version
           last == IF Up(p) THEN Latest[m] ELSE 0
           t    == IF Up(p) THEN v + 1 ELSE v - 1
<1> USE DEF IInv
<1>1. /\ proc[p] \in Proc /\ m \in Modules /\ v \in Nat /\ v <= Latest[m]
      /\ Latest[m] \in Nat /\ proc[p].at \notin Held /\ lock[m] = NoOne
  BY ModIsModule, LatestAssumption DEF TypeOK, Take, At, Held
<1>2. rollbacks' \in Nat /\ launches' \in Nat /\ faults' \in Nat
  BY DEF Take, Steady, TypeOK
<1>3. CASE Abort(p) /\ UNCHANGED lock
  BY <1>1, <1>2, <1>3, PassesKeeps DEF Take
<1>4. CASE NextModule(p) /\ UNCHANGED lock
  BY <1>1, <1>2, <1>4, PassesKeeps DEF Take
<1>5. CASE /\ tracker[m].mark # "dirty" /\ v # last
           /\ lock' = [lock EXCEPT ![m] = p]
           /\ StartsOn(p, t)
  <2>1. t \in Nat /\ t <= Latest[m] /\ (Up(p) => t > 0)
    BY <1>1, <1>5
  <2>2. v = IF Up(p) THEN t - 1 ELSE t + 1
    BY <1>1, <1>5
  <2> HIDE DEF t, v
  <2>3. /\ proc' \in [Processes -> Proc]
        /\ \A q \in Processes : q # p => proc'[q] = proc[q]
    BY <1>5, <2>1, StartsOnEffect
  <2>4. /\ proc'[p].at = "marking" /\ proc'[p].target = t
        /\ proc'[p].k = proc[p].k /\ proc'[p].cmd = proc[p].cmd
    BY <1>5, <2>1, StartsOnEffect
  <2>5. Mod(p)' = Mod(p) /\ Up(p)' = Up(p)
    BY <2>4 DEF Mod, Up
  <2>6. UNCHANGED <<schema, tracker, undone, raised, torn, rollbacks, launches, faults>>
    BY DEF Take, db, history, Steady
  <2>7. TypeOK'
    BY <1>1, <1>5, <2>3, <2>6 DEF TypeOK
  <2>8. ASSUME m \notin torn PROVE InStep(p)'
    <3>1. schema[m] = v
      BY <1>1, <1>5, <2>8 DEF IdleInStep, v
    <3>2. Before(p)' = v
      BY <2>2, <2>4, <2>5 DEF Before
    <3> QED BY <1>5, <2>4, <2>5, <2>6, <3>1, <3>2 DEF InStep, At, v
  <2> QED BY <1>1, <1>5, <2>1, <2>3, <2>4, <2>5, <2>6, <2>7, <2>8, Holds DEF Held
<1> QED BY <1>3, <1>4, <1>5 DEF Take

LEMMA MarkDirtyKeeps ==
  ASSUME IInv, NEW p \in Processes, MarkDirty(p)
  PROVE  IInv'
<1> DEFINE m == Mod(p)
           t == proc[p].target
<1> USE DEF IInv
<1>1. /\ proc[p] \in Proc /\ m \in Modules /\ t \in Nat /\ proc[p].at = "marking"
  BY ModIsModule DEF TypeOK, MarkDirty, At, Proc
<1>2. t <= Latest[m] /\ lock[m] = p /\ (Up(p) => t > 0)
  BY <1>1 DEF LocksSound, Held
<1>3. CASE tracker[m].mark = "absent"
  <2>1. Abort(p) /\ Release(p) /\ UNCHANGED <<db, history>>
    BY <1>3 DEF MarkDirty, db, history
  <2>2. rollbacks' \in Nat /\ launches' \in Nat /\ faults' \in Nat
    BY DEF MarkDirty, Steady, TypeOK
  <2> QED BY <2>1, <2>2, GivesUpKeeps
<1>4. CASE tracker[m].mark # "absent"
  <2>1. /\ tracker' = [tracker EXCEPT ![m] = [version |-> t, mark |-> "dirty"]]
        /\ Goes(p, "running")
        /\ UNCHANGED <<lock, schema, torn, rollbacks, launches, faults>>
    BY <1>4 DEF MarkDirty, Steady
  <2>2. undone' \in [Processes -> SUBSET Modules] /\ raised' \in [Processes -> SUBSET Modules]
    <3>1. \/ NotesUp(p, m) /\ UNCHANGED undone
          \/ NotesDown(p, m) /\ UNCHANGED raised
      BY <1>4 DEF MarkDirty
    <3> QED BY <1>1, <3>1, NotesTyped DEF TypeOK
  <2>3. /\ proc' \in [Processes -> Proc]
        /\ proc'[p] = [proc[p] EXCEPT !.at = "running"]
        /\ \A q \in Processes : q # p => proc'[q] = proc[q]
    BY <2>1, GoesEffect
  <2>4. /\ proc'[p].at = "running" /\ proc'[p].target = t
        /\ proc'[p].k = proc[p].k /\ proc'[p].cmd = proc[p].cmd
    BY <1>1, <2>3 DEF Proc
  <2>5. Mod(p)' = Mod(p) /\ Up(p)' = Up(p)
    BY <2>4 DEF Mod, Up
  <2>6. /\ tracker' \in [Modules -> [version : Nat, mark : {"absent", "clean", "dirty"}]]
        /\ \A n \in Modules : tracker'[n].version <= Latest[n]
        /\ \A n \in Modules : tracker'[n].mark = "absent" => tracker'[n].version = 0
        /\ tracker'[m] = [version |-> t, mark |-> "dirty"]
        /\ \A n \in Modules : n # m => tracker'[n] = tracker[n]
    BY <1>1, <1>2, <2>1, TrackerTyped
  <2>7. TypeOK'
    BY <2>1, <2>2, <2>3, <2>6 DEF TypeOK
  <2>8. ASSUME m \notin torn PROVE InStep(p)'
    <3>1. schema[m] = Before(p)
      BY <1>1, <2>8 DEF WorkInStep, InStep, At, Held
    <3>2. Before(p)' = Before(p)
      BY <2>4, <2>5 DEF Before
    <3> QED BY <2>1, <2>4, <2>5, <2>6, <3>1, <3>2 DEF InStep, At
  <2>9. lock' = [lock EXCEPT ![m] = p]
    BY <1>1, <1>2, <2>1 DEF TypeOK
  <2> QED BY <1>1, <1>2, <2>1, <2>3, <2>4, <2>5, <2>6, <2>7, <2>8, <2>9, Holds DEF Held
<1> QED BY <1>3, <1>4

LEMMA RunScriptKeeps ==
  ASSUME IInv, NEW p \in Processes, RunScript(p)
  PROVE  IInv'
<1> DEFINE m == Mod(p)
           t == proc[p].target
<1> USE DEF IInv
<1>1. /\ proc[p] \in Proc /\ m \in Modules /\ t \in Nat /\ proc[p].at = "running"
      /\ schema[m] \in Nat /\ schema[m] <= Latest[m] /\ Latest[m] \in Nat
  BY ModIsModule, LatestAssumption DEF TypeOK, RunScript, At, Proc
<1>2. t <= Latest[m] /\ lock[m] = p /\ (Up(p) => t > 0)
  BY <1>1 DEF LocksSound, Held
<1>3. CASE ~ Fits(p)
  <2>1. Abort(p) /\ Release(p) /\ UNCHANGED <<db, history>>
    BY <1>3 DEF RunScript, db, history
  <2>2. rollbacks' \in Nat /\ launches' \in Nat /\ faults' \in Nat
    BY DEF RunScript, Steady, TypeOK
  <2> QED BY <2>1, <2>2, GivesUpKeeps
<1>4. CASE Fits(p)
  <2> DEFINE s == IF Up(p) \/ schema[m] > t THEN t ELSE schema[m]
  <2>1. /\ schema' = [schema EXCEPT ![m] = s]
        /\ Goes(p, "cleaning")
        /\ UNCHANGED <<lock, tracker, undone, raised, torn, rollbacks, launches, faults>>
    BY <1>4 DEF RunScript, Steady, history
  <2>2. s \in Nat /\ s <= Latest[m]
    BY <1>1, <1>2
  <2>3. /\ proc' \in [Processes -> Proc]
        /\ proc'[p] = [proc[p] EXCEPT !.at = "cleaning"]
        /\ \A q \in Processes : q # p => proc'[q] = proc[q]
    BY <2>1, GoesEffect
  <2>4. /\ proc'[p].at = "cleaning" /\ proc'[p].target = t
        /\ proc'[p].k = proc[p].k /\ proc'[p].cmd = proc[p].cmd
    BY <1>1, <2>3 DEF Proc
  <2>5. Mod(p)' = Mod(p) /\ Up(p)' = Up(p)
    BY <2>4 DEF Mod, Up
  <2>6. /\ m \notin torn => /\ tracker[m].mark = "dirty" /\ tracker[m].version = t
                            /\ schema[m] = Before(p)
    BY <1>1 DEF WorkInStep, InStep, At, Held
  <2>7. m \notin torn => s = t
    BY <1>1, <2>6 DEF Before
  <2> HIDE DEF s
  <2>8. /\ schema' \in [Modules -> Nat] /\ schema'[m] = s
        /\ \A n \in Modules : n # m => schema'[n] = schema[n]
        /\ \A n \in Modules : schema'[n] <= Latest[n]
    BY <1>1, <2>1, <2>2 DEF TypeOK
  <2>9. TypeOK'
    BY <2>1, <2>3, <2>8 DEF TypeOK
  <2>10. m \notin torn => InStep(p)'
    BY <2>1, <2>4, <2>5, <2>6, <2>7, <2>8 DEF InStep, At
  <2>11. lock' = [lock EXCEPT ![m] = p]
    BY <1>1, <1>2, <2>1 DEF TypeOK
  <2> QED BY <1>1, <1>2, <2>1, <2>3, <2>4, <2>5, <2>8, <2>9, <2>10, <2>11, Holds DEF Held
<1> QED BY <1>3, <1>4

(* The end of a command's work on a module: clean, and without the lock. *)
LEMMA Finishes ==
  ASSUME IInv, NEW p \in Processes, proc[p].at = "cleaning",
         proc'[p].at \notin Held, Release(p),
         \A q \in Processes : q # p => proc'[q] = proc[q],
         tracker'[Mod(p)] = [version |-> proc[p].target, mark |-> "clean"],
         \A n \in Modules : n # Mod(p) => tracker'[n] = tracker[n],
         UNCHANGED <<schema, torn>>
  PROVE  LocksSound' /\ WorkInStep' /\ IdleInStep'
<1> USE DEF IInv
<1>0. /\ Mod(p) \in Modules /\ lock[Mod(p)] = p
      /\ \A m \in Modules : lock'[m] = IF lock[m] = p THEN NoOne ELSE lock[m]
  BY ReleaseEffect, ModIsModule DEF LocksSound, Held
<1>1. ASSUME NEW q \in Processes, proc'[q].at \in Held
      PROVE  /\ q # p /\ proc'[q] = proc[q] /\ Mod(q)' = Mod(q) /\ Up(q)' = Up(q)
             /\ Mod(q) \in Modules /\ lock[Mod(q)] = q /\ Mod(q) # Mod(p)
  <2>1. q # p /\ proc'[q] = proc[q] /\ Mod(q)' = Mod(q) /\ Up(q)' = Up(q)
    BY <1>1 DEF Mod, Up
  <2>2. Mod(q) \in Modules /\ lock[Mod(q)] = q
    BY <1>1, <2>1, ModIsModule DEF LocksSound
  <2> QED BY <1>0, <2>1, <2>2
<1>2. LocksSound'
  <2>1. ASSUME NEW q \in Processes, proc'[q].at \in Held
        PROVE  /\ lock'[Mod(q)'] = q
               /\ proc'[q].target <= Latest[Mod(q)']
               /\ Up(q)' => proc'[q].target > 0
    BY <2>1, <1>0, <1>1 DEF LocksSound
  <2>2. ASSUME NEW q \in Processes, NEW m \in Modules, lock'[m] = q
        PROVE  proc'[q].at \in Held /\ Mod(q)' = m
    <3>1. q # p /\ lock[m] = q
      BY <2>2, <1>0, NoOneAssumption
    <3> QED BY <3>1 DEF LocksSound, Mod
  <2> QED BY <2>1, <2>2 DEF LocksSound
<1>3. ASSUME NEW q \in Processes, proc'[q].at \in Held, Mod(q)' \notin torn'
      PROVE  InStep(q)'
  <2>1. InStep(q) /\ tracker'[Mod(q)] = tracker[Mod(q)]
    BY <1>1, <1>3 DEF WorkInStep
  <2> QED BY <1>1, <1>3, <2>1, InStepStays
<1>4. ASSUME NEW m \in Modules \ torn', lock'[m] = NoOne
      PROVE  /\ schema'[m] <= tracker'[m].version + 1
             /\ tracker'[m].version <= schema'[m] + 1
             /\ tracker'[m].mark # "dirty" => schema'[m] = tracker'[m].version
  <2>1. CASE lock[m] = NoOne
    <3>1. m # Mod(p)
      BY <1>0, <2>1, NoOneAssumption
    <3> QED BY <2>1, <3>1, <1>4 DEF IdleInStep
  <2>2. CASE lock[m] = p
    <3>1. Mod(p) = m
      BY <2>2 DEF LocksSound
    <3>2. schema[m] = proc[p].target
      BY <3>1, <1>4 DEF WorkInStep, InStep, Held, At
    <3>3. proc[p].target \in Nat
      BY DEF TypeOK, Proc
    <3> QED BY <3>1, <3>2, <3>3
  <2> QED BY <2>1, <2>2, <1>0, <1>4
<1> QED BY <1>2, <1>3, <1>4 DEF WorkInStep, IdleInStep

LEMMA MarkCleanKeeps ==
  ASSUME IInv, NEW p \in Processes, MarkClean(p)
  PROVE  IInv'
<1> DEFINE m    == Mod(p)
           t    == proc[p].target
           last == IF Up(p) THEN Latest[m] ELSE 0
           u    == IF Up(p) THEN t + 1 ELSE t - 1
<1> USE DEF IInv
<1>1. /\ proc[p] \in Proc /\ m \in Modules /\ t \in Nat /\ proc[p].at = "cleaning"
      /\ Latest[m] \in Nat
  BY ModIsModule, LatestAssumption DEF TypeOK, MarkClean, At, Proc
<1>2. t <= Latest[m] /\ lock[m] = p /\ (Up(p) => t > 0)
  BY <1>1 DEF LocksSound, Held
<1>3. CASE tracker[m].mark = "absent"
  <2>1. Abort(p) /\ Release(p) /\ UNCHANGED <<db, history>>
    BY <1>3 DEF MarkClean, db, history
  <2>2. rollbacks' \in Nat /\ launches' \in Nat /\ faults' \in Nat
    BY DEF MarkClean, Steady, TypeOK
  <2> QED BY <2>1, <2>2, GivesUpKeeps
<1>4. ASSUME tracker[m].mark # "absent"
      PROVE  /\ tracker' = [tracker EXCEPT ![m] = [version |-> t, mark |-> "clean"]]
             /\ UNCHANGED <<schema, undone, raised, torn, rollbacks, launches, faults>>
  BY <1>4 DEF MarkClean, history, Steady
<1>5. ASSUME tracker[m].mark # "absent"
      PROVE  /\ tracker' \in [Modules -> [version : Nat, mark : {"absent", "clean", "dirty"}]]
             /\ \A n \in Modules : tracker'[n].version <= Latest[n]
             /\ \A n \in Modules : tracker'[n].mark = "absent" => tracker'[n].version = 0
             /\ tracker'[m] = [version |-> t, mark |-> "clean"]
             /\ \A n \in Modules : n # m => tracker'[n] = tracker[n]
  BY <1>1, <1>2, <1>4, <1>5, TrackerTyped
<1>6. CASE /\ tracker[m].mark # "absent"
           /\ Release(p) /\ NextModule(p)
  <2>1. /\ proc' \in [Processes -> Proc] /\ proc'[p].at \notin Held
        /\ \A q \in Processes : q # p => proc'[q] = proc[q]
    BY <1>6, NextModuleEffect
  <2>2. lock' \in [Modules -> Processes \cup {NoOne}]
    BY <1>6, ReleaseEffect
  <2>3. TypeOK'
    BY <1>4, <1>5, <1>6, <2>1, <2>2 DEF TypeOK
  <2> QED BY <1>1, <1>4, <1>5, <1>6, <2>1, <2>3, Finishes
<1>7. CASE /\ tracker[m].mark # "absent" /\ t # last
           /\ StartsOn(p, u) /\ UNCHANGED lock
  <2>1. u \in Nat /\ u <= Latest[m] /\ (Up(p) => u > 0)
    BY <1>1, <1>2, <1>7
  <2>2. t = IF Up(p) THEN u - 1 ELSE u + 1
    BY <1>1
  <2> HIDE DEF u
  <2>3. /\ proc' \in [Processes -> Proc]
        /\ \A q \in Processes : q # p => proc'[q] = proc[q]
    BY <1>7, <2>1, StartsOnEffect
  <2>4. /\ proc'[p].at = "marking" /\ proc'[p].target = u
        /\ proc'[p].k = proc[p].k /\ proc'[p].cmd = proc[p].cmd
    BY <1>7, <2>1, StartsOnEffect
  <2>5. Mod(p)' = Mod(p) /\ Up(p)' = Up(p)
    BY <2>4 DEF Mod, Up
  <2>6. TypeOK'
    BY <1>4, <1>5, <1>7, <2>3 DEF TypeOK
  <2>7. ASSUME m \notin torn PROVE InStep(p)'
    <3>1. schema[m] = t
      BY <1>1, <2>7 DEF WorkInStep, InStep, At, Held
    <3>2. Before(p)' = t
      BY <2>2, <2>4, <2>5 DEF Before
    <3> QED BY <1>4, <1>5, <1>7, <2>4, <2>5, <3>1, <3>2 DEF InStep, At
  <2>8. lock' = [lock EXCEPT ![m] = p]
    BY <1>1, <1>2, <1>7 DEF TypeOK
  <2> QED BY <1>1, <1>2, <1>4, <1>5, <1>7, <2>1, <2>3, <2>4, <2>5, <2>6, <2>7, <2>8, Holds DEF Held
<1> QED BY <1>3, <1>6, <1>7 DEF MarkClean

(* p drops a part of module m, without its lock. *)
LEMMA DropEffect ==
  ASSUME IInv, NEW p \in Processes, NEW m \in Modules,
         proc[p].at \notin Held, proc'[p].at \notin Held,
         \A q \in Processes : q # p => proc'[q] = proc[q],
         UNCHANGED lock,
         \A n \in Modules : n # m => /\ schema'[n] = schema[n]
                                     /\ tracker'[n] = tracker[n]
                                     /\ n \in torn' <=> n \in torn,
         \/ m \in torn'
         \/ lock[m] = NoOne /\ schema'[m] = 0 /\ tracker'[m].version = 0
  PROVE  LocksSound' /\ WorkInStep' /\ IdleInStep'
<1> USE DEF IInv
<1>1. LocksSound'
  BY NoOneAssumption DEF LocksSound, Mod, Up
<1>2. ASSUME NEW q \in Processes, proc'[q].at \in Held, Mod(q)' \notin torn'
      PROVE  InStep(q)'
  <2>1. q # p /\ proc'[q] = proc[q] /\ Mod(q)' = Mod(q) /\ Up(q)' = Up(q)
    BY <1>2 DEF Mod, Up
  <2>2. lock[Mod(q)] = q /\ Mod(q) \in Modules /\ lock[Mod(q)] # NoOne
    BY <1>2, <2>1, ModIsModule, NoOneAssumption DEF LocksSound
  <2>3. Mod(q) # m
    BY <1>2, <2>1, <2>2
  <2>4. InStep(q) /\ schema'[Mod(q)] = schema[Mod(q)] /\ tracker'[Mod(q)] = tracker[Mod(q)]
    BY <1>2, <2>1, <2>2, <2>3 DEF WorkInStep
  <2> QED BY <2>1, <2>4, InStepStays
<1>3. ASSUME NEW n \in Modules \ torn', lock'[n] = NoOne
      PROVE  /\ schema'[n] <= tracker'[n].version + 1
             /\ tracker'[n].version <= schema'[n] + 1
             /\ tracker'[n].mark # "dirty" => schema'[n] = tracker'[n].version
  <2>1. CASE n = m
    BY <2>1, <1>3
  <2>2. CASE n # m
    BY <2>2, <1>3 DEF IdleInStep
  <2> QED BY <2>1, <2>2
<1> QED BY <1>1, <1>2, <1>3 DEF WorkInStep, IdleInStep

LEMMA DropSchemaKeeps ==
  ASSUME IInv, NEW p \in Processes, DropSchema(p)
  PROVE  IInv'
<1> USE DEF IInv
<1>1. /\ Goes(p, "dropTable") /\ NotesDown(p, Mod(p))
      /\ schema' = [schema EXCEPT ![Mod(p)] = 0]
      /\ torn' = torn \cup {Mod(p)}
      /\ UNCHANGED <<tracker, lock, raised, rollbacks, launches, faults>>
      /\ proc[p].at = "dropSchema"
  BY DEF DropSchema, Steady, At
<1>2. Mod(p) \in Modules
  BY ModIsModule
<1>3. /\ proc' \in [Processes -> Proc]
      /\ proc'[p] = [proc[p] EXCEPT !.at = "dropTable"]
      /\ \A q \in Processes : q # p => proc'[q] = proc[q]
  BY <1>1, GoesEffect
<1>4. proc[p].at \notin Held /\ proc'[p].at \notin Held
  BY <1>1, <1>3 DEF Held, TypeOK, Proc
<1>5. /\ schema' \in [Modules -> Nat]
      /\ \A n \in Modules : schema'[n] <= Latest[n]
      /\ \A n \in Modules : n # Mod(p) => schema'[n] = schema[n]
  <2>1. Latest[Mod(p)] \in Nat
    BY <1>2, LatestAssumption
  <2>2. /\ schema' \in [Modules -> Nat] /\ schema'[Mod(p)] = 0
        /\ \A n \in Modules : n # Mod(p) => schema'[n] = schema[n]
    BY <1>1, <1>2 DEF TypeOK
  <2>3. ASSUME NEW n \in Modules PROVE schema'[n] <= Latest[n]
    <3>1. CASE n = Mod(p)
      BY <2>1, <2>2, <3>1
    <3>2. CASE n # Mod(p)
      BY <2>2, <3>2 DEF TypeOK
    <3> QED BY <3>1, <3>2
  <2> QED BY <2>2, <2>3
<1>6. TypeOK'
  BY <1>1, <1>2, <1>3, <1>5, NotesTyped DEF TypeOK
<1> QED BY <1>1, <1>2, <1>3, <1>4, <1>5, <1>6, DropEffect

LEMMA DropTableKeeps ==
  ASSUME IInv, NEW p \in Processes, DropTable(p)
  PROVE  IInv'
<1> DEFINE m == Mod(p)
<1> USE DEF IInv
<1>1. /\ NextDown(p, {m}) /\ NotesDown(p, m)
      /\ tracker' = [tracker EXCEPT ![m] = Nothing]
      /\ torn' = IF lock[m] = NoOne /\ schema[m] = 0 THEN torn \ {m} ELSE torn \cup {m}
      /\ UNCHANGED <<schema, lock, raised, rollbacks, launches, faults>>
      /\ proc[p].at = "dropTable"
  BY DEF DropTable, Steady, At
<1>2. m \in Modules /\ {m} \in SUBSET Modules
  BY ModIsModule
<1>3. /\ proc' \in [Processes -> Proc]
      /\ proc'[p].at \notin Held
      /\ \A q \in Processes : q # p => proc'[q] = proc[q]
  BY <1>1, <1>2, NextDownEffect
<1>4. proc[p].at \notin Held
  BY <1>1 DEF Held
<1>5. /\ tracker' \in [Modules -> [version : Nat, mark : {"absent", "clean", "dirty"}]]
      /\ tracker'[m] = Nothing
      /\ \A n \in Modules : n # m => tracker'[n] = tracker[n]
  BY <1>1, <1>2 DEF TypeOK, Nothing
<1>6. TypeOK'
  <2>1. /\ \A n \in Modules : tracker'[n].version <= Latest[n]
        /\ \A n \in Modules : tracker'[n].mark = "absent" => tracker'[n].version = 0
    <3>1. Latest[m] \in Nat
      BY <1>2, LatestAssumption
    <3>2. ASSUME NEW n \in Modules
          PROVE  /\ tracker'[n].version <= Latest[n]
                 /\ tracker'[n].mark = "absent" => tracker'[n].version = 0
      <4>1. CASE n = m
        BY <1>5, <3>1, <4>1 DEF Nothing
      <4>2. CASE n # m
        BY <1>5, <4>2 DEF TypeOK
      <4> QED BY <4>1, <4>2
    <3> QED BY <3>2
  <2>2. torn' \in SUBSET Modules
    BY <1>1, <1>2 DEF TypeOK
  <2> QED BY <1>1, <1>2, <1>3, <1>5, <2>1, <2>2, NotesTyped DEF TypeOK
<1>7. \/ m \in torn'
      \/ lock[m] = NoOne /\ schema'[m] = 0 /\ tracker'[m].version = 0
  BY <1>1, <1>5 DEF Nothing
<1>8. \A n \in Modules : n # m => (n \in torn' <=> n \in torn)
  BY <1>1
<1> QED BY <1>1, <1>2, <1>3, <1>4, <1>5, <1>6, <1>7, <1>8, DropEffect

-------------------------------------------------------------------------------
(* The invariant, and what follows from it.                                 *)

LEMMA Inductive ==
  IInv /\ [Next]_vars => IInv'
<1> SUFFICES ASSUME IInv, [Next]_vars PROVE IInv'
  OBVIOUS
<1>1. CASE UNCHANGED vars
  BY <1>1 DEF vars, IInv, TypeOK, LocksSound, WorkInStep, IdleInStep, InStep, At, Before, Mod, Up
<1>2. CASE Next
  <2>1. PICK p \in Processes :
          \/ Step(p)
          \/ \E cmd \in Commands : Launch(p, cmd)
          \/ Stop(p)
          \/ VersionUnreadable(p) \/ StatementFails(p) \/ DropFails(p) \/ Die(p)
    BY <1>2 DEF Next
  <2>2. faults \in Nat /\ faults + 1 \in Nat /\ rollbacks \in Nat /\ launches \in Nat
    BY DEF IInv, TypeOK
  <2>3. CASE Open(p)
    BY <2>3, OpenKeeps
  <2>4. CASE ReadVersion(p)
    <3>1. proc[p].at \notin Held
      BY <2>4 DEF ReadVersion, At, Held
    <3>2. NextDown(p, {Mod(p)}) \/ Goes(p, "taking")
      BY <2>4 DEF ReadVersion
    <3>3. UNCHANGED <<db, lock, history>> /\ rollbacks' = rollbacks
          /\ launches' = launches /\ faults' = faults
      BY <2>4 DEF ReadVersion, Steady
    <3> QED BY <2>2, <3>1, <3>2, <3>3, PassesKeeps
  <2>5. CASE Take(p)
    BY <2>5, TakeKeeps
  <2>6. CASE MarkDirty(p)
    BY <2>6, MarkDirtyKeeps
  <2>7. CASE RunScript(p)
    BY <2>7, RunScriptKeeps
  <2>8. CASE MarkClean(p)
    BY <2>8, MarkCleanKeeps
  <2>9. CASE DropSchema(p)
    BY <2>9, DropSchemaKeeps
  <2>10. CASE DropTable(p)
    BY <2>10, DropTableKeeps
  <2>11. CASE \E cmd \in Commands : Launch(p, cmd)
    BY <2>11, LaunchKeeps
  <2>12. CASE Stop(p)
    BY <2>12, StopKeeps
  <2>13. CASE VersionUnreadable(p)
    <3>1. proc[p].at \notin Held
      BY <2>13 DEF VersionUnreadable, At, Held
    <3> QED BY <2>2, <2>13, <3>1, PassesKeeps DEF VersionUnreadable
  <2>14. CASE StatementFails(p)
    BY <2>2, <2>14, GivesUpKeeps DEF StatementFails
  <2>15. CASE DropFails(p)
    <3>1. proc[p].at \notin Held
      BY <2>15 DEF DropFails, Held
    <3> QED BY <2>2, <2>15, <3>1, PassesKeeps DEF DropFails
  <2>16. CASE Die(p)
    BY <2>2, <2>16, GivesUpKeeps DEF Die
  <2> QED BY <2>1, <2>3, <2>4, <2>5, <2>6, <2>7, <2>8, <2>9, <2>10, <2>11, <2>12,
             <2>13, <2>14, <2>15, <2>16 DEF Step
<1> QED BY <1>1, <1>2

LEMMA Invariant == Spec => []IInv
BY InitIInv, Inductive, PTL DEF Spec

(* Every variable has its type: in particular a tracker never names a version
   that has no file, and a dropped one names none (internal/migration). *)
THEOREM TypeCorrect == Spec => []TypeOK
<1>1. IInv => TypeOK
  BY DEF IInv
<1> QED BY <1>1, Invariant, PTL

(* What a restart reads in a module's tracker is what is in its schema, to within
   the one script that a dirty mark stands for, whoever died where. *)
THEOREM TrackerTruth == Spec => []TrackerIsTrue
<1>1. IInv => TrackerIsTrue
  <2> SUFFICES ASSUME IInv, NEW m \in Modules \ torn
               PROVE  /\ schema[m] <= tracker[m].version + 1
                      /\ tracker[m].version <= schema[m] + 1
                      /\ lock[m] = NoOne /\ tracker[m].mark # "dirty"
                           => schema[m] = tracker[m].version
    BY DEF TrackerIsTrue
  <2>1. CASE lock[m] = NoOne
    BY <2>1 DEF IInv, IdleInStep
  <2>2. CASE lock[m] # NoOne
    <3>1. PICK p \in Processes : lock[m] = p
      BY <2>2 DEF IInv, TypeOK
    <3>2. proc[p].at \in Held /\ Mod(p) = m
      BY <3>1 DEF IInv, LocksSound
    <3>3. InStep(p) /\ (Up(p) => proc[p].target > 0)
      BY <3>2 DEF IInv, WorkInStep, LocksSound
    <3>4. proc[p].target \in Nat
      BY DEF IInv, TypeOK, Proc
    <3> QED BY <2>2, <3>2, <3>3, <3>4 DEF InStep, At, Before, Held
  <2> QED BY <2>1, <2>2
<1> QED BY <1>1, Invariant, PTL

(* However many instances migrate at once, an up script runs on exactly the
   schema it was written for: none is applied twice or skipped. *)
THEOREM ScriptsRunOnce == Spec => []ScriptsMeetTheirSchema
<1>1. IInv => ScriptsMeetTheirSchema
  BY DEF IInv, WorkInStep, InStep, ScriptsMeetTheirSchema, At, Held, Before
<1> QED BY <1>1, Invariant, PTL

-------------------------------------------------------------------------------
(* Serving over the latest schemas.  A process that migrates up has passed  *)
(* the modules before the one it is at, one that serves all of them.  What  *)
(* it has passed is at its latest version (PassedAreLatest), and no down    *)
(* script is about to change that unnoticed (DownIsNoticed).                *)

Passed(p) ==
  IF At(p, "serving") THEN Modules
  ELSE IF Up(p) /\ proc[p].at \notin Finished THEN {Order[i] : i \in 1 .. (proc[p].k - 1)}
  ELSE {}

Excused(p) == undone[p] \cup torn

DownPlaces ==
  \A p \in Processes : proc[p].at \in {"reading", "dropSchema", "dropTable"} => ~ Up(p)

PassedAreLatest ==
  \A p \in Processes : \A m \in Passed(p) \ Excused(p) : schema[m] = Latest[m]

DownIsNoticed ==
  \A p, q \in Processes :
    At(q, "running") /\ ~ Up(q) /\ Mod(q) \in Passed(p) => Mod(q) \in Excused(p)

ServeInv == DownPlaces /\ PassedAreLatest /\ DownIsNoticed

(* Where another process is does not change. *)
LEMMA SamePlace ==
  ASSUME NEW q \in Processes, proc'[q] = proc[q]
  PROVE  /\ Passed(q)' = Passed(q) /\ Mod(q)' = Mod(q) /\ Up(q)' = Up(q)
         /\ \A place : At(q, place)' <=> At(q, place)
BY DEF Passed, Mod, Up, At

LEMMA PassedAreModules == \A p \in Processes : TypeOK => Passed(p) \subseteq Modules
BY DEF Passed, Modules, TypeOK, Proc

(* What a step of p has to keep, or to note. *)
LEMMA ServeKeeps ==
  ASSUME ServeInv, NEW p \in Processes, TypeOK,
         \A q \in Processes : q # p => proc'[q] = proc[q] /\ Excused(q) \subseteq Excused(q)',
         \A m \in Passed(p)' :
           \/ m \in Passed(p) /\ Excused(p) \subseteq Excused(p)'
           \/ /\ m \in Modules
              /\ m \notin Excused(p)' => schema[m] = Latest[m]
              /\ \A q \in Processes : At(q, "running") => Mod(q) # m,
         \A m \in Modules :
           \/ schema'[m] = schema[m] \/ schema[m] # Latest[m]
           \/ \A q \in Processes : m \in Excused(q)' \/ m \notin Passed(q)',
         At(p, "running")' =>
           Up(p)' \/ \A q \in Processes : q # p => Mod(p)' \in Excused(q)' \/ Mod(p)' \notin Passed(q),
         proc'[p].at \in {"reading", "dropSchema", "dropTable"} => ~ Up(p)'
  PROVE  ServeInv'
<1>1. ASSUME NEW q \in Processes, q # p
      PROVE  /\ Passed(q)' = Passed(q) /\ Mod(q)' = Mod(q) /\ Up(q)' = Up(q)
             /\ \A place : At(q, place)' <=> At(q, place)
             /\ Excused(q) \subseteq Excused(q)' /\ proc'[q] = proc[q]
  BY <1>1, SamePlace
<1>2. DownPlaces'
  <2>1. ASSUME NEW q \in Processes, proc'[q].at \in {"reading", "dropSchema", "dropTable"}
        PROVE  ~ Up(q)'
    <3>1. CASE q = p
      BY <2>1, <3>1
    <3>2. CASE q # p
      BY <2>1, <3>2, <1>1 DEF ServeInv, DownPlaces
    <3> QED BY <3>1, <3>2
  <2> QED BY <2>1 DEF DownPlaces
<1>3. ASSUME NEW q \in Processes, NEW m \in Passed(q)', m \notin Excused(q)'
      PROVE  schema'[m] = Latest[m]
  <2>1. m \in Modules /\ schema[m] = Latest[m]
    <3>1. CASE q # p
      BY <1>1, <1>3, <3>1, PassedAreModules DEF ServeInv, PassedAreLatest
    <3>2. CASE q = p
      BY <1>3, <3>2, PassedAreModules DEF ServeInv, PassedAreLatest
    <3> QED BY <3>1, <3>2
  <2> QED BY <2>1, <1>3
<1>4. ASSUME NEW r \in Processes, NEW q \in Processes,
             At(q, "running")', ~ Up(q)', Mod(q)' \in Passed(r)'
      PROVE  Mod(q)' \in Excused(r)'
  <2>1. CASE q = p /\ r # p
    BY <1>1, <1>4, <2>1
  <2>2. CASE q = p /\ r = p
    BY <1>4, <2>2 DEF Passed, At
  <2>3. CASE q # p /\ r # p
    BY <1>1, <1>4, <2>3 DEF ServeInv, DownIsNoticed
  <2>4. CASE q # p /\ r = p
    <3>1. At(q, "running") /\ ~ Up(q) /\ Mod(q)' = Mod(q)
      BY <1>1, <1>4, <2>4
    <3>2. Mod(q) \in Passed(p) /\ Excused(p) \subseteq Excused(p)'
      BY <1>4, <2>4, <3>1
    <3> QED BY <2>4, <3>1, <3>2 DEF ServeInv, DownIsNoticed
  <2> QED BY <2>1, <2>2, <2>3, <2>4
<1>5. PassedAreLatest'
  BY <1>3 DEF PassedAreLatest
<1>6. DownIsNoticed'
  BY <1>4 DEF DownIsNoticed
<1> QED BY <1>2, <1>5, <1>6 DEF ServeInv

(* A step of p to a place where it does not serve passes nothing. *)
LEMMA GoesPasses ==
  ASSUME TypeOK, NEW p \in Processes,
         NEW place \in {"off", "failed", "opening", "reading", "taking", "running",
                        "cleaning", "dropSchema", "dropTable"},
         proc[p].at \notin Finished \/ place \in Finished, Goes(p, place)
  PROVE  /\ \A q \in Processes : q # p => proc'[q] = proc[q]
         /\ proc'[p].at = place /\ Up(p)' = Up(p) /\ Mod(p)' = Mod(p)
         /\ Passed(p)' \subseteq Passed(p)
<1>1. \A q \in Processes : q # p => proc'[q] = proc[q]
  BY GoesEffect DEF Finished
<1>2. proc'[p].at = place /\ proc'[p].k = proc[p].k /\ proc'[p].cmd = proc[p].cmd
  <2>1. proc'[p] = [proc[p] EXCEPT !.at = place]
    BY GoesEffect DEF Finished
  <2> QED BY <2>1 DEF TypeOK, Proc
<1>3. Up(p)' = Up(p) /\ Mod(p)' = Mod(p)
  BY <1>2 DEF Up, Mod
<1>4. Passed(p)' \subseteq {Order[i] : i \in 1 .. (proc[p].k - 1)}
  BY <1>2 DEF Passed, At
<1>5. CASE Up(p) /\ place \notin Finished
  <2>1. CASE proc[p].at = "serving"
    BY <1>1, <1>2, <1>3, <1>4, <2>1 DEF Passed, At, Modules, TypeOK, Proc
  <2>2. CASE proc[p].at # "serving"
    BY <1>1, <1>2, <1>3, <1>4, <1>5, <2>2 DEF Passed, At
  <2> QED BY <2>1, <2>2
<1>6. CASE ~ (Up(p) /\ place \notin Finished)
  <2>1. Passed(p)' = {}
    BY <1>2, <1>3, <1>6 DEF Passed, At
  <2> QED BY <1>1, <1>2, <1>3, <2>1
<1> QED BY <1>5, <1>6

(* DownAll passes nothing. *)
LEMMA NextDownPasses ==
  ASSUME TypeOK, NEW p \in Processes, NEW S \in SUBSET Modules, ~ Up(p), NextDown(p, S)
  PROVE  /\ \A q \in Processes : q # p => proc'[q] = proc[q]
         /\ proc'[p].at \in {"opening", "failed", "ended"} /\ Passed(p)' = {}
<1>1. proc[p] \in Proc /\ Len(Order) \in Nat \ {0}
  BY OrderIsSequence DEF TypeOK
<1> DEFINE d  == proc[p].done \cup S
           at == IF ~ (proc[p].k = 1) THEN "opening" ELSE IF d = {} THEN "failed" ELSE "ended"
           k  == IF proc[p].k = 1 THEN proc[p].k ELSE proc[p].k - 1
           r  == [proc[p] EXCEPT !.done = d, !.k = k, !.at = at]
<1>2. at \in {"opening", "failed", "ended"}
  OBVIOUS
<1>3. proc' = [proc EXCEPT ![p] = r]
  BY DEF NextDown
<1>4. r.at = at /\ r.cmd = proc[p].cmd
  <2> HIDE DEF at, k, d
  <2> QED BY <1>1 DEF Proc
<1> HIDE DEF r, at
<1>5. proc'[p] = r /\ \A q \in Processes : q # p => proc'[q] = proc[q]
  BY <1>3 DEF TypeOK
<1>6. ~ Up(p)'
  BY <1>4, <1>5 DEF Up
<1> QED BY <1>2, <1>4, <1>5, <1>6 DEF Passed, At

(* RunAll passes the module it was at. *)
LEMMA NextUpPasses ==
  ASSUME TypeOK, NEW p \in Processes, Up(p), NextUp(p),
         proc[p].at \in {"taking", "cleaning"}
  PROVE  /\ \A q \in Processes : q # p => proc'[q] = proc[q]
         /\ proc'[p].at \in {"opening", "serving", "ended"}
         /\ Passed(p)' \subseteq Passed(p) \cup {Mod(p)}
<1>1. proc[p] \in Proc /\ Len(Order) \in Nat \ {0}
  BY OrderIsSequence DEF TypeOK
<1> DEFINE at == IF ~ (proc[p].k = Len(Order)) THEN "opening"
                 ELSE IF proc[p].cmd = "start" THEN "serving" ELSE "ended"
           k  == IF proc[p].k = Len(Order) THEN proc[p].k ELSE proc[p].k + 1
           r  == [proc[p] EXCEPT !.k = k, !.at = at]
<1>2. /\ at \in {"opening", "serving", "ended"}
      /\ at = "opening" => k = proc[p].k + 1
      /\ at # "opening" => proc[p].k = Len(Order)
  BY <1>1 DEF Proc
<1>3. proc' = [proc EXCEPT ![p] = r]
  BY DEF NextUp
<1>4. r.at = at /\ r.cmd = proc[p].cmd /\ r.k = k
  <2> HIDE DEF at, k
  <2> QED BY <1>1 DEF Proc
<1> HIDE DEF r, at, k
<1>5. proc'[p] = r /\ \A q \in Processes : q # p => proc'[q] = proc[q]
  BY <1>3 DEF TypeOK
<1>6. Passed(p) = {Order[i] : i \in 1 .. (proc[p].k - 1)}
  BY DEF Passed, At, Finished
<1>7. \A i \in 1 .. proc[p].k : Order[i] \in Passed(p) \cup {Mod(p)}
  BY <1>1, <1>6 DEF Mod, Proc
<1>8. CASE at = "opening"
  <2>1. Passed(p)' \subseteq {Order[i] : i \in 1 .. proc[p].k}
    <3>1. proc'[p].k - 1 = proc[p].k
      BY <1>1, <1>2, <1>4, <1>5, <1>8 DEF Proc
    <3> QED BY <1>4, <1>5, <1>8, <3>1 DEF Passed, At
  <2> QED BY <1>2, <1>4, <1>5, <1>7, <2>1
<1>9. CASE at = "serving"
  <2>1. Passed(p)' = {Order[i] : i \in 1 .. proc[p].k}
    BY <1>2, <1>4, <1>5, <1>9 DEF Passed, At, Modules
  <2> QED BY <1>2, <1>4, <1>5, <1>7, <2>1
<1>10. CASE at = "ended"
  <2>1. Passed(p)' = {}
    BY <1>4, <1>5, <1>10 DEF Passed, At, Finished
  <2> QED BY <1>2, <1>4, <1>5, <2>1
<1> QED BY <1>2, <1>8, <1>9, <1>10

(* p passes nothing and touches no schema; what others have noted stays. *)
LEMMA PassesNothing ==
  ASSUME TypeOK, ServeInv, NEW p \in Processes,
         \A q \in Processes : q # p => proc'[q] = proc[q],
         Passed(p)' \subseteq Passed(p),
         \/ UNCHANGED undone \/ Passed(p)' = {},
         \A q \in Processes : q # p => undone[q] \subseteq undone'[q],
         UNCHANGED <<schema, torn>>,
         proc'[p].at # "running",
         proc'[p].at \in {"reading", "dropSchema", "dropTable"} => ~ Up(p)'
  PROVE  ServeInv'
<1>1. \A q \in Processes : q # p => Excused(q) \subseteq Excused(q)'
  BY DEF Excused
<1>2. \A m \in Passed(p)' : m \in Passed(p) /\ Excused(p) \subseteq Excused(p)'
  BY DEF Excused
<1> QED BY <1>1, <1>2, ServeKeeps DEF At

(* p passes the module it was at, which is at its latest version and held by
   nobody else. *)
LEMMA PassesOne ==
  ASSUME IInv, ServeInv, NEW p \in Processes, Up(p), NextUp(p),
         proc[p].at \in {"taking", "cleaning"},
         lock[Mod(p)] \in {p, NoOne},
         Mod(p) \notin torn => schema[Mod(p)] = Latest[Mod(p)],
         UNCHANGED <<schema, undone, torn>>
  PROVE  ServeInv'
<1> USE DEF IInv
<1>1. /\ \A q \in Processes : q # p => proc'[q] = proc[q]
      /\ proc'[p].at \in {"opening", "serving", "ended"}
      /\ Passed(p)' \subseteq Passed(p) \cup {Mod(p)}
  BY NextUpPasses
<1>2. \A q \in Processes : At(q, "running") => Mod(q) # Mod(p)
  BY NoOneAssumption DEF LocksSound, Held, At
<1>3. \A q \in Processes : Excused(q)' = Excused(q)
  BY DEF Excused
<1>4. Mod(p) \in Modules /\ (Mod(p) \notin Excused(p)' => schema[Mod(p)] = Latest[Mod(p)])
  BY <1>3, ModIsModule DEF Excused
<1> QED BY <1>1, <1>2, <1>3, <1>4, ServeKeeps DEF At

-------------------------------------------------------------------------------
(* The steps again, one by one.                                             *)

LEMMA LaunchServes ==
  ASSUME IInv, ServeInv, NEW p \in Processes, NEW cmd \in Commands, Launch(p, cmd)
  PROVE  ServeInv'
<1> USE DEF IInv
<1> DEFINE r == [cmd |-> cmd, at |-> "opening",
                 k |-> IF cmd = "down" THEN Len(Order) ELSE 1,
                 target |-> 0, done |-> {}]
<1>1. proc' = [proc EXCEPT ![p] = r] /\ r.at = "opening" /\ r.cmd = cmd
      /\ (cmd # "down" => r.k = 1)
  BY DEF Launch
<1> HIDE DEF r
<1>2. proc'[p] = r /\ \A q \in Processes : q # p => proc'[q] = proc[q]
  BY <1>1 DEF TypeOK
<1>3. Passed(p)' = {}
  BY <1>1, <1>2 DEF Passed, At, Up, Ups
<1>4. UNCHANGED <<schema, torn>> /\ \A q \in Processes : q # p => undone'[q] = undone[q]
  BY DEF Launch, db, TypeOK
<1> QED BY <1>1, <1>2, <1>3, <1>4, PassesNothing

LEMMA AbortServes ==
  ASSUME IInv, ServeInv, NEW p \in Processes, proc[p].at \notin Finished,
         Abort(p) \/ Goes(p, "off"), UNCHANGED <<schema, undone, torn>>
  PROVE  ServeInv'
<1> USE DEF IInv
<1>1. PICK place \in {"failed", "dropSchema", "off"} :
        Goes(p, place) /\ (place = "dropSchema" => ~ Up(p))
  BY DEF Abort
<1>2. /\ \A q \in Processes : q # p => proc'[q] = proc[q]
      /\ proc'[p].at = place /\ Up(p)' = Up(p)
      /\ Passed(p)' \subseteq Passed(p)
  BY <1>1, GoesPasses
<1> QED BY <1>1, <1>2, PassesNothing

LEMMA NextDownServes ==
  ASSUME IInv, ServeInv, NEW p \in Processes, ~ Up(p),
         NextDown(p, {Mod(p)}) \/ NextDown(p, {}), UNCHANGED <<schema, undone, torn>>
  PROVE  ServeInv'
<1> USE DEF IInv
<1>1. {Mod(p)} \in SUBSET Modules /\ {} \in SUBSET Modules
  BY ModIsModule
<1>2. /\ \A q \in Processes : q # p => proc'[q] = proc[q]
      /\ proc'[p].at \in {"opening", "failed", "ended"} /\ Passed(p)' = {}
  BY <1>1, NextDownPasses
<1> QED BY <1>2, PassesNothing

LEMMA OpenServes ==
  ASSUME IInv, ServeInv, NEW p \in Processes, Open(p)
  PROVE  ServeInv'
<1> USE DEF IInv
<1>1. PICK place \in {"taking", "reading"} : Goes(p, place) /\ (place = "reading" => ~ Up(p))
  BY DEF Open
<1>2. proc[p].at \notin Finished /\ UNCHANGED <<schema, undone, torn>>
  BY DEF Open, At, Finished, history
<1>3. /\ \A q \in Processes : q # p => proc'[q] = proc[q]
      /\ proc'[p].at = place /\ Up(p)' = Up(p)
      /\ Passed(p)' \subseteq Passed(p)
  BY <1>1, <1>2, GoesPasses
<1> QED BY <1>1, <1>2, <1>3, PassesNothing

LEMMA ReadVersionServes ==
  ASSUME IInv, ServeInv, NEW p \in Processes, ReadVersion(p) \/ VersionUnreadable(p)
  PROVE  ServeInv'
<1> USE DEF IInv
<1>1. /\ NextDown(p, {Mod(p)}) \/ Goes(p, "taking")
      /\ UNCHANGED <<schema, undone, torn>> /\ proc[p].at = "reading"
  BY DEF ReadVersion, VersionUnreadable, At, db, history
<1>2. ~ Up(p) /\ proc[p].at \notin Finished
  BY <1>1 DEF ServeInv, DownPlaces, Finished
<1>3. CASE Goes(p, "taking")
  <2>1. /\ \A q \in Processes : q # p => proc'[q] = proc[q]
        /\ proc'[p].at = "taking" /\ Up(p)' = Up(p)
        /\ Passed(p)' \subseteq Passed(p)
    BY <1>2, <1>3, GoesPasses
  <2> QED BY <1>1, <2>1, PassesNothing
<1> QED BY <1>1, <1>2, <1>3, NextDownServes

(* A command begins on a script. *)
LEMMA StartsOnServes ==
  ASSUME IInv, ServeInv, NEW p \in Processes, NEW v \in Nat, StartsOn(p, v),
         proc[p].at \in {"taking", "cleaning"}, UNCHANGED <<schema, undone, torn>>
  PROVE  ServeInv'
<1> USE DEF IInv
<1>1. /\ proc'[p].at = "marking" /\ proc'[p].k = proc[p].k /\ proc'[p].cmd = proc[p].cmd
      /\ \A q \in Processes : q # p => proc'[q] = proc[q]
  BY StartsOnEffect
<1>2. Passed(p)' = Passed(p)
  BY <1>1 DEF Passed, At, Up, Finished
<1> QED BY <1>1, <1>2, PassesNothing

LEMMA TakeServes ==
  ASSUME IInv, ServeInv, NEW p \in Processes, Take(p)
  PROVE  ServeInv'
<1> DEFINE m    == Mod(p)
           v    == tracker[m].version
           last == IF Up(p) THEN Latest[m] ELSE 0
           t    == IF Up(p) THEN v + 1 ELSE v - 1
<1> USE DEF IInv
<1>1. /\ proc[p].at = "taking" /\ proc[p].at \notin Finished
      /\ lock[m] = NoOne /\ UNCHANGED <<schema, undone, torn>>
      /\ m \in Modules /\ v \in Nat
  BY ModIsModule DEF Take, At, Finished, db, history, TypeOK
<1>2. CASE Abort(p)
  BY <1>1, <1>2, AbortServes
<1>3. CASE tracker[m].mark # "dirty" /\ v = last /\ NextModule(p)
  <2>1. CASE Up(p)
    <3>1. m \notin torn => schema[m] = Latest[m]
      BY <1>1, <1>3, <2>1 DEF IdleInStep
    <3> QED BY <1>1, <1>3, <2>1, <3>1, PassesOne DEF NextModule
  <2>2. CASE ~ Up(p)
    BY <1>1, <1>3, <2>2, NextDownServes DEF NextModule
  <2> QED BY <2>1, <2>2
<1>4. CASE v # last /\ StartsOn(p, t)
  <2>1. t \in Nat
    BY <1>1, <1>4
  <2> QED BY <1>1, <1>4, <2>1, StartsOnServes
<1> QED BY <1>2, <1>3, <1>4 DEF Take

LEMMA MarkDirtyServes ==
  ASSUME IInv, ServeInv, NEW p \in Processes, MarkDirty(p)
  PROVE  ServeInv'
<1> USE DEF IInv
<1>1. proc[p].at = "marking" /\ UNCHANGED <<schema, torn>> /\ proc[p].at \notin Finished
  BY DEF MarkDirty, At, Finished
<1>2. CASE Abort(p) /\ UNCHANGED undone
  BY <1>1, <1>2, AbortServes
<1>3. CASE Goes(p, "running") /\ Up(p) /\ UNCHANGED undone
  <2>1. /\ \A q \in Processes : q # p => proc'[q] = proc[q]
        /\ proc'[p].at = "running" /\ Up(p)'
        /\ Passed(p)' \subseteq Passed(p)
    BY <1>1, <1>3, GoesPasses
  <2>2. \A q \in Processes : Excused(q)' = Excused(q)
    BY <1>1, <1>3 DEF Excused
  <2> QED BY <1>1, <2>1, <2>2, ServeKeeps
<1>4. CASE Goes(p, "running") /\ ~ Up(p) /\ NotesDown(p, Mod(p))
  <2>1. /\ \A q \in Processes : q # p => proc'[q] = proc[q]
        /\ proc'[p].at = "running" /\ ~ Up(p)' /\ Mod(p)' = Mod(p)
    BY <1>1, <1>4, GoesPasses
  <2>2. Passed(p)' = {}
    BY <2>1 DEF Passed, At
  <2>3. \A q \in Processes : q # p => /\ Excused(q) \subseteq Excused(q)'
                                      /\ Mod(p)' \in Excused(q)'
    BY <1>1, <1>4, <2>1 DEF Excused, NotesDown
  <2> QED BY <1>1, <2>1, <2>2, <2>3, ServeKeeps
<1> QED BY <1>2, <1>3, <1>4 DEF MarkDirty

LEMMA RunScriptServes ==
  ASSUME IInv, ServeInv, NEW p \in Processes, RunScript(p)
  PROVE  ServeInv'
<1> DEFINE m == Mod(p)
<1> USE DEF IInv
<1>1. /\ proc[p].at = "running" /\ UNCHANGED <<undone, torn>> /\ proc[p].at \notin Finished
      /\ m \in Modules
  BY ModIsModule DEF RunScript, At, Finished, history
<1>2. CASE Abort(p) /\ UNCHANGED schema
  BY <1>1, <1>2, AbortServes
<1>3. CASE /\ Fits(p) /\ Goes(p, "cleaning")
           /\ schema' = [schema EXCEPT ![m] =
                IF Up(p) \/ schema[m] > proc[p].target THEN proc[p].target ELSE schema[m]]
  <2>1. /\ \A q \in Processes : q # p => proc'[q] = proc[q]
        /\ proc'[p].at = "cleaning" /\ Passed(p)' \subseteq Passed(p)
    BY <1>1, <1>3, GoesPasses
  <2>2. \A q \in Processes : Excused(q)' = Excused(q)
    BY <1>1 DEF Excused
  <2>3. \A n \in Modules : n # m => schema'[n] = schema[n]
    BY <1>3 DEF TypeOK
  <2>4. CASE Up(p)
    <3>1. schema[m] = proc[p].target - 1 /\ proc[p].target <= Latest[m]
      BY <1>1, <1>3, <2>4 DEF Fits, LocksSound, Held
    <3>2. proc[p].target \in Nat /\ Latest[m] \in Nat
      BY <1>1, LatestAssumption DEF TypeOK, Proc
    <3>3. schema[m] # Latest[m]
      BY <3>1, <3>2
    <3> QED BY <2>1, <2>2, <2>3, <3>3, ServeKeeps DEF At
  <2>5. CASE ~ Up(p)
    <3>1. \A q \in Processes : m \in Passed(q) => m \in Excused(q)
      BY <1>1, <2>5 DEF ServeInv, DownIsNoticed, At
    <3>2. \A q \in Processes : Passed(q)' \subseteq Passed(q)
      BY <2>1, SamePlace
    <3>3. \A q \in Processes : m \in Excused(q)' \/ m \notin Passed(q)'
      BY <2>2, <3>1, <3>2
    <3> QED BY <2>1, <2>2, <2>3, <3>3, ServeKeeps DEF At
  <2> QED BY <2>4, <2>5
<1> QED BY <1>2, <1>3 DEF RunScript

LEMMA MarkCleanServes ==
  ASSUME IInv, ServeInv, NEW p \in Processes, MarkClean(p)
  PROVE  ServeInv'
<1> DEFINE m    == Mod(p)
           t    == proc[p].target
           last == IF Up(p) THEN Latest[m] ELSE 0
           u    == IF Up(p) THEN t + 1 ELSE t - 1
<1> USE DEF IInv
<1>1. /\ proc[p].at = "cleaning" /\ proc[p].at \notin Finished
      /\ UNCHANGED <<schema, undone, torn>>
      /\ m \in Modules /\ t \in Nat
  BY ModIsModule DEF MarkClean, At, Finished, history, TypeOK, Proc
<1>2. CASE Abort(p)
  BY <1>1, <1>2, AbortServes
<1>3. CASE t = last /\ NextModule(p)
  <2>1. CASE Up(p)
    <3>1. lock[m] = p /\ (m \notin torn => schema[m] = Latest[m])
      BY <1>1, <1>3, <2>1 DEF LocksSound, WorkInStep, InStep, At, Held
    <3> QED BY <1>1, <1>3, <2>1, <3>1, PassesOne DEF NextModule
  <2>2. CASE ~ Up(p)
    BY <1>1, <1>3, <2>2, NextDownServes DEF NextModule
  <2> QED BY <2>1, <2>2
<1>4. CASE t # last /\ StartsOn(p, u)
  <2>1. u \in Nat
    BY <1>1, <1>4
  <2> QED BY <1>1, <1>4, <2>1, StartsOnServes
<1> QED BY <1>2, <1>3, <1>4 DEF MarkClean

LEMMA DropSchemaServes ==
  ASSUME IInv, ServeInv, NEW p \in Processes, DropSchema(p)
  PROVE  ServeInv'
<1> USE DEF IInv
<1>1. /\ proc[p].at = "dropSchema" /\ Goes(p, "dropTable") /\ NotesDown(p, Mod(p))
      /\ schema' = [schema EXCEPT ![Mod(p)] = 0] /\ torn' = torn \cup {Mod(p)}
  BY DEF DropSchema, At
<1>2. ~ Up(p) /\ proc[p].at \notin Finished
  BY <1>1 DEF ServeInv, DownPlaces, Finished
<1>3. /\ \A q \in Processes : q # p => proc'[q] = proc[q]
      /\ proc'[p].at = "dropTable" /\ ~ Up(p)' /\ Passed(p)' \subseteq Passed(p)
  BY <1>1, <1>2, GoesPasses
<1>4. \A q \in Processes : Excused(q) \subseteq Excused(q)' /\ Mod(p) \in Excused(q)'
  BY <1>1 DEF Excused, NotesDown
<1>5. \A n \in Modules : n # Mod(p) => schema'[n] = schema[n]
  BY <1>1 DEF TypeOK
<1> QED BY <1>3, <1>4, <1>5, ServeKeeps DEF At

LEMMA DropTableServes ==
  ASSUME IInv, ServeInv, NEW p \in Processes, DropTable(p)
  PROVE  ServeInv'
<1> USE DEF IInv
<1>1. /\ proc[p].at = "dropTable" /\ NextDown(p, {Mod(p)}) /\ NotesDown(p, Mod(p))
      /\ torn \ {Mod(p)} \subseteq torn' /\ UNCHANGED schema
  BY DEF DropTable, At
<1>2. ~ Up(p) /\ {Mod(p)} \in SUBSET Modules
  BY <1>1, ModIsModule DEF ServeInv, DownPlaces
<1>3. /\ \A q \in Processes : q # p => proc'[q] = proc[q]
      /\ proc'[p].at \in {"opening", "failed", "ended"} /\ Passed(p)' = {}
  BY <1>1, <1>2, NextDownPasses
<1>4. \A q \in Processes : q # p => Excused(q) \subseteq Excused(q)'
  BY <1>1 DEF Excused, NotesDown
<1> QED BY <1>1, <1>3, <1>4, ServeKeeps DEF At

LEMMA ServingInductive ==
  IInv /\ ServeInv /\ [Next]_vars => ServeInv'
<1> SUFFICES ASSUME IInv, ServeInv, [Next]_vars PROVE ServeInv'
  OBVIOUS
<1>1. CASE UNCHANGED vars
  BY <1>1 DEF vars, ServeInv, DownPlaces, PassedAreLatest, DownIsNoticed, Passed, Excused,
              At, Mod, Up
<1>2. CASE Next
  <2>1. PICK p \in Processes :
          \/ Step(p)
          \/ \E cmd \in Commands : Launch(p, cmd)
          \/ Stop(p)
          \/ VersionUnreadable(p) \/ StatementFails(p) \/ DropFails(p) \/ Die(p)
    BY <1>2 DEF Next
  <2>2. CASE Step(p)
    BY <2>2, OpenServes, ReadVersionServes, TakeServes, MarkDirtyServes, RunScriptServes,
       MarkCleanServes, DropSchemaServes, DropTableServes DEF Step
  <2>3. CASE \E cmd \in Commands : Launch(p, cmd)
    BY <2>3, LaunchServes
  <2>4. CASE Stop(p) \/ StatementFails(p) \/ Die(p)
    <3>1. /\ proc[p].at \notin Finished /\ UNCHANGED <<schema, undone, torn>>
          /\ Abort(p) \/ Goes(p, "off")
      BY <2>4 DEF Stop, StatementFails, Die, At, Finished, db, history
    <3> QED BY <3>1, AbortServes
  <2>5. CASE VersionUnreadable(p)
    BY <2>5, ReadVersionServes
  <2>6. CASE DropFails(p)
    <3>1. /\ NextDown(p, {}) /\ UNCHANGED <<schema, undone, torn>>
          /\ proc[p].at \in {"dropSchema", "dropTable"}
      BY <2>6 DEF DropFails, db, history
    <3>2. ~ Up(p)
      BY <3>1 DEF ServeInv, DownPlaces
    <3> QED BY <3>1, <3>2, NextDownServes
  <2> QED BY <2>1, <2>2, <2>3, <2>4, <2>5, <2>6
<1> QED BY <1>1, <1>2

LEMMA Serving == Spec => []ServeInv
<1>1. Init => ServeInv
  BY DEF Init, ServeInv, DownPlaces, PassedAreLatest, DownIsNoticed, Passed, At, Finished
<1> QED BY <1>1, Invariant, ServingInductive, PTL DEF Spec

(* A process serves only over schemas at their latest version, whatever the
   other instances did or left behind, unless a rollback or a drop came after. *)
THEOREM ServesMigrated == Spec => []ServingIsMigrated
<1>1. ServeInv => ServingIsMigrated
  BY DEF ServeInv, PassedAreLatest, ServingIsMigrated, Passed, Excused
<1> QED BY <1>1, Serving, PTL

-------------------------------------------------------------------------------
(* What termination rests on.  Nobody who is waited for waits, and every      *)
(* statement of a command leads to its end.                                   *)

(* A process waits for the lock of its module, to create the tracking table or
   to begin with its scripts. *)
Waits(p) == proc[p].at \in {"opening", "taking"} /\ lock[Mod(p)] # NoOne

(* Whoever is waited for is at a statement of a script, which waits for nobody. *)
HoldersGoOn ==
  \A p \in Processes : Waits(p) =>
    \E q \in Processes :
      lock[Mod(p)] = q /\ Mod(q) = Mod(p) /\ proc[q].at \in Held /\ ~ Waits(q)

(* Locks are never waited for in a circle: a process holds at most one, that of
   the module it works on, and does not wait while it does, whoever died, failed
   or dropped a schema (golang-migrate's Lock and Unlock around each command). *)
THEOREM NoCircularWait == Spec => []HoldersGoOn
<1>1. ASSUME IInv, NEW p \in Processes, Waits(p)
      PROVE  \E q \in Processes :
               lock[Mod(p)] = q /\ Mod(q) = Mod(p) /\ proc[q].at \in Held /\ ~ Waits(q)
  <2>1. Mod(p) \in Modules
    BY <1>1, ModIsModule DEF IInv
  <2>2. PICK q \in Processes : lock[Mod(p)] = q
    BY <1>1, <2>1 DEF Waits, IInv, TypeOK
  <2>3. proc[q].at \in Held /\ Mod(q) = Mod(p)
    BY <1>1, <2>1, <2>2 DEF IInv, LocksSound
  <2> QED BY <2>2, <2>3 DEF Waits, Held
<1>2. IInv => HoldersGoOn
  BY <1>1 DEF HoldersGoOn
<1> QED BY <1>2, Invariant, PTL

Over(s) == s.at \in Finished \cup {"serving"}

ModulesLeft(s) == IF s.cmd \in Ups THEN Len(Order) - s.k ELSE s.k - 1

StagesLeft(s) ==
  IF s.at = "opening" THEN 5
  ELSE IF s.at = "reading" THEN 4
  ELSE IF s.at = "taking" THEN 3
  ELSE IF s.at \in Held THEN 2
  ELSE IF s.at = "dropSchema" THEN 1 ELSE 0

VersionsLeft(s) ==
  IF s.cmd \in Ups THEN Latest[Order[s.k]] - s.target ELSE s.target

StatementsLeft(s) ==
  IF s.at = "marking" THEN 2 ELSE IF s.at = "running" THEN 1 ELSE 0

(* From s to t a command comes closer to its end: it is over, or has fewer
   modules left, or is at a later stage of its module, or has fewer scripts left,
   or fewer statements of its script. *)
Closer(s, t) ==
  \/ Over(t)
  \/ /\ t.cmd = s.cmd
     /\ \/ ModulesLeft(t) < ModulesLeft(s)
        \/ /\ t.k = s.k
           /\ \/ StagesLeft(t) < StagesLeft(s)
              \/ /\ s.at \in Held /\ t.at \in Held
                 /\ \/ VersionsLeft(t) < VersionsLeft(s)
                    \/ t.target = s.target /\ StatementsLeft(t) < StatementsLeft(s)

(* At a script, as many scripts are left as there are files to go. *)
ScriptsAreBounded ==
  \A p \in Processes : proc[p].at \in Held => VersionsLeft(proc[p]) \in Nat

(* Whatever happens to a command that is under way brings it closer to its end. *)
CommandsAdvance ==
  [][\A p \in Processes :
       ~ Over(proc[p]) /\ proc'[p] # proc[p] => Closer(proc[p], proc'[p])]_vars

(* One lemma per way in which an action moves a command on. *)
LEMMA GoesIsCloser ==
  ASSUME TypeOK, NEW p \in Processes, NEW place, Goes(p, place),
         \/ place \in Finished \cup {"serving"}
         \/ StagesLeft([at |-> place]) < StagesLeft(proc[p])
         \/ /\ proc[p].at \in Held /\ place \in Held
            /\ StatementsLeft([at |-> place]) < StatementsLeft(proc[p])
  PROVE  Closer(proc[p], proc'[p])
<1>1. /\ proc'[p].at = place /\ proc'[p].cmd = proc[p].cmd /\ proc'[p].k = proc[p].k
      /\ proc'[p].target = proc[p].target
  BY DEF TypeOK, Proc, Goes
<1>2. CASE place \in Finished \cup {"serving"}
  BY <1>1, <1>2 DEF Closer, Over
<1>3. CASE StagesLeft([at |-> place]) < StagesLeft(proc[p])
  <2>1. StagesLeft(proc'[p]) = StagesLeft([at |-> place])
    BY <1>1 DEF StagesLeft
  <2> QED BY <1>1, <1>3, <2>1 DEF Closer
<1>4. CASE /\ proc[p].at \in Held /\ place \in Held
           /\ StatementsLeft([at |-> place]) < StatementsLeft(proc[p])
  <2>1. StatementsLeft(proc'[p]) = StatementsLeft([at |-> place])
    BY <1>1 DEF StatementsLeft
  <2> QED BY <1>1, <1>4, <2>1 DEF Closer
<1> QED BY <1>2, <1>3, <1>4

LEMMA AbortIsCloser ==
  ASSUME TypeOK, NEW p \in Processes, Abort(p),
         proc[p].at \in Held \cup {"opening", "taking"}
  PROVE  Closer(proc[p], proc'[p])
<1>1. CASE Up(p)
  BY <1>1, GoesIsCloser DEF Abort, Finished
<1>2. CASE ~ Up(p)
  <2>1. StagesLeft([at |-> "dropSchema"]) < StagesLeft(proc[p])
    BY DEF StagesLeft, Held
  <2> QED BY <1>2, <2>1, GoesIsCloser DEF Abort
<1> QED BY <1>1, <1>2

LEMMA NextDownIsCloser ==
  ASSUME TypeOK, NEW p \in Processes, ~ Up(p), NEW S, NextDown(p, S)
  PROVE  Closer(proc[p], proc'[p])
<1>1. proc[p].k \in Nat
  BY OrderIsSequence DEF TypeOK, Proc
<1>2. CASE proc[p].k = 1
  <2>1. proc'[p].at \in {"failed", "ended"}
    BY <1>2 DEF TypeOK, Proc, NextDown
  <2> QED BY <2>1 DEF Closer, Over, Finished
<1>3. CASE proc[p].k # 1
  <2>1. proc'[p].k = proc[p].k - 1 /\ proc'[p].cmd = proc[p].cmd
    BY <1>3 DEF TypeOK, Proc, NextDown
  <2> QED BY <1>1, <2>1 DEF Closer, ModulesLeft, Up
<1> QED BY <1>2, <1>3

LEMMA NextModuleIsCloser ==
  ASSUME TypeOK, NEW p \in Processes, NextModule(p)
  PROVE  Closer(proc[p], proc'[p])
<1>1. CASE ~ Up(p)
  BY <1>1, NextDownIsCloser DEF NextModule
<1>2. CASE Up(p)
  <2>1. proc[p].k \in Nat /\ Len(Order) \in Nat
    BY OrderIsSequence DEF TypeOK, Proc
  <2>2. NextUp(p)
    BY <1>2 DEF NextModule
  <2>3. CASE proc[p].k = Len(Order)
    <3>1. proc'[p].at \in {"serving", "ended"}
      BY <2>2, <2>3 DEF TypeOK, Proc, NextUp
    <3> QED BY <3>1 DEF Closer, Over, Finished
  <2>4. CASE proc[p].k # Len(Order)
    <3>1. proc'[p].k = proc[p].k + 1 /\ proc'[p].cmd = proc[p].cmd
      BY <2>2, <2>4 DEF TypeOK, Proc, NextUp
    <3> QED BY <1>2, <2>1, <3>1 DEF Closer, ModulesLeft, Up
  <2> QED BY <2>3, <2>4
<1> QED BY <1>1, <1>2

LEMMA StartsOnIsCloser ==
  ASSUME IInv, NEW p \in Processes,
         NEW v \in Nat, StartsOn(p, v),
         \/ proc[p].at = "taking"
         \/ /\ proc[p].at = "cleaning"
            /\ v = IF Up(p) THEN proc[p].target + 1 ELSE proc[p].target - 1
  PROVE  Closer(proc[p], proc'[p])
<1>1. /\ proc'[p].at = "marking" /\ proc'[p].target = v
      /\ proc'[p].cmd = proc[p].cmd /\ proc'[p].k = proc[p].k
  BY DEF IInv, TypeOK, Proc, StartsOn
<1>2. CASE proc[p].at = "taking"
  BY <1>1, <1>2 DEF Closer, StagesLeft, Held
<1>3. CASE /\ proc[p].at = "cleaning"
           /\ v = IF Up(p) THEN proc[p].target + 1 ELSE proc[p].target - 1
  <2>1. proc[p].target \in Nat /\ Mod(p) \in Modules
    BY ModIsModule DEF IInv, TypeOK, Proc
  <2>2. Latest[Mod(p)] \in Nat
    BY <2>1, LatestAssumption
  <2>3. VersionsLeft(proc'[p]) < VersionsLeft(proc[p])
    BY <1>1, <1>3, <2>1, <2>2 DEF VersionsLeft, Up, Mod
  <2> QED BY <1>1, <1>3, <2>3 DEF Closer, Held
<1> QED BY <1>2, <1>3

(* What an action does to the command that takes it. *)
LEMMA OwnStepIsCloser ==
  ASSUME IInv, DownPlaces, NEW p \in Processes, ~ Over(proc[p]),
         Step(p) \/ VersionUnreadable(p) \/ StatementFails(p) \/ DropFails(p) \/ Die(p)
  PROVE  Closer(proc[p], proc'[p])
<1>0. TypeOK
  BY DEF IInv
<1>1. CASE Open(p)
  <2>1. PICK place \in {"taking", "reading"} : Goes(p, place)
    BY <1>1 DEF Open
  <2>2. StagesLeft([at |-> place]) < StagesLeft(proc[p])
    BY <1>1 DEF StagesLeft, Open, At
  <2> QED BY <1>0, <2>1, <2>2, GoesIsCloser
<1>2. CASE ReadVersion(p) \/ VersionUnreadable(p)
  <2>1. ~ Up(p) /\ proc[p].at = "reading"
    BY <1>2 DEF DownPlaces, ReadVersion, VersionUnreadable, At
  <2>2. CASE NextDown(p, {Mod(p)})
    BY <1>0, <2>1, <2>2, NextDownIsCloser
  <2>3. CASE Goes(p, "taking")
    <3>1. StagesLeft([at |-> "taking"]) < StagesLeft(proc[p])
      BY <2>1 DEF StagesLeft
    <3> QED BY <1>0, <2>3, <3>1, GoesIsCloser
  <2> QED BY <1>2, <2>2, <2>3 DEF ReadVersion, VersionUnreadable
<1>3. CASE Take(p)
  <2> DEFINE m    == Mod(p)
             v    == tracker[m].version
             last == IF Up(p) THEN Latest[m] ELSE 0
             w    == IF Up(p) THEN v + 1 ELSE v - 1
  <2>1. CASE Abort(p) \/ NextModule(p)
    BY <1>0, <1>3, <2>1, AbortIsCloser, NextModuleIsCloser DEF Take, At
  <2>2. CASE v # last /\ StartsOn(p, w)
    <3>1. v \in Nat
      BY <1>0, ModIsModule DEF TypeOK
    <3>2. w \in Nat
      BY <2>2, <3>1
    <3> QED BY <1>3, <2>2, <3>2, StartsOnIsCloser DEF Take, At
  <2> QED BY <1>3, <2>1, <2>2 DEF Take
<1>4. CASE MarkDirty(p)
  <2>1. CASE Abort(p)
    BY <1>0, <1>4, <2>1, AbortIsCloser DEF MarkDirty, At, Held
  <2>2. CASE Goes(p, "running")
    <3>1. /\ proc[p].at \in Held /\ "running" \in Held
          /\ StatementsLeft([at |-> "running"]) < StatementsLeft(proc[p])
      BY <1>4 DEF MarkDirty, At, Held, StatementsLeft
    <3> QED BY <1>0, <2>2, <3>1, GoesIsCloser
  <2> QED BY <1>4, <2>1, <2>2 DEF MarkDirty
<1>5. CASE RunScript(p)
  <2>1. CASE Abort(p)
    BY <1>0, <1>5, <2>1, AbortIsCloser DEF RunScript, At, Held
  <2>2. CASE Goes(p, "cleaning")
    <3>1. /\ proc[p].at \in Held /\ "cleaning" \in Held
          /\ StatementsLeft([at |-> "cleaning"]) < StatementsLeft(proc[p])
      BY <1>5 DEF RunScript, At, Held, StatementsLeft
    <3> QED BY <1>0, <2>2, <3>1, GoesIsCloser
  <2> QED BY <1>5, <2>1, <2>2 DEF RunScript
<1>6. CASE MarkClean(p)
  <2> DEFINE t    == proc[p].target
             last == IF Up(p) THEN Latest[Mod(p)] ELSE 0
             w    == IF Up(p) THEN t + 1 ELSE t - 1
  <2>1. CASE Abort(p) \/ NextModule(p)
    BY <1>0, <1>6, <2>1, AbortIsCloser, NextModuleIsCloser DEF MarkClean, At, Held
  <2>2. CASE t # last /\ StartsOn(p, w)
    <3>1. w \in Nat
      BY <1>0, <2>2 DEF TypeOK, Proc
    <3> QED BY <1>6, <2>2, <3>1, StartsOnIsCloser DEF MarkClean, At
  <2> QED BY <1>6, <2>1, <2>2 DEF MarkClean
<1>7. CASE DropSchema(p)
  <2>1. StagesLeft([at |-> "dropTable"]) < StagesLeft(proc[p])
    BY <1>7 DEF StagesLeft, DropSchema, At, Held
  <2> QED BY <1>0, <1>7, <2>1, GoesIsCloser DEF DropSchema
<1>8. CASE DropTable(p) \/ DropFails(p)
  <2>1. ~ Up(p)
    BY <1>8 DEF DownPlaces, DropTable, DropFails, At
  <2>2. PICK S : NextDown(p, S)
    BY <1>8 DEF DropTable, DropFails
  <2> QED BY <1>0, <2>1, <2>2, NextDownIsCloser
<1>9. CASE StatementFails(p)
  BY <1>0, <1>9, AbortIsCloser DEF StatementFails, Held
<1>10. CASE Die(p)
  BY <1>0, <1>10, GoesIsCloser DEF Die, Finished
<1> QED BY <1>1, <1>2, <1>3, <1>4, <1>5, <1>6, <1>7, <1>8, <1>9, <1>10 DEF Step

(* No action moves a command other than its own. *)
LEMMA OthersStay ==
  ASSUME IInv, NEW p \in Processes, NEW q \in Processes \ {p},
         Step(p) \/ VersionUnreadable(p) \/ StatementFails(p) \/ DropFails(p) \/ Die(p)
  PROVE  proc'[q] = proc[q]
<1>1. \A r \in Processes : r # p =>
        /\ \A place : Goes(p, place) => proc'[r] = proc[r]
        /\ \A S : NextDown(p, S) => proc'[r] = proc[r]
        /\ NextUp(p) => proc'[r] = proc[r]
        /\ \A v : StartsOn(p, v) => proc'[r] = proc[r]
  BY DEF IInv, TypeOK, Goes, NextDown, NextUp, StartsOn
<1>2. \/ \E place : Goes(p, place)
      \/ \E S : NextDown(p, S)
      \/ NextUp(p)
      \/ \E v : StartsOn(p, v)
  BY DEF Step, Open, ReadVersion, Take, MarkDirty, RunScript, MarkClean, DropSchema,
         DropTable, VersionUnreadable, StatementFails, DropFails, Die, Abort, NextModule
<1> QED BY <1>1, <1>2

(* Every statement of a command brings it closer to its end, by an order without
   endless descent, since the scripts left are a natural number; so do its
   failures, and no other process sets it back.  With NoCircularWait and fair
   statements that is why RunAll and DownAll end. *)
THEOREM CommandsGetOn == Spec => []ScriptsAreBounded /\ CommandsAdvance
<1>1. ASSUME IInv PROVE ScriptsAreBounded
  <2> SUFFICES ASSUME NEW p \in Processes, proc[p].at \in Held
               PROVE  VersionsLeft(proc[p]) \in Nat
    BY DEF ScriptsAreBounded
  <2>1. Mod(p) \in Modules /\ proc[p].target \in Nat
    BY <1>1, ModIsModule DEF IInv, TypeOK, Proc
  <2>2. Latest[Mod(p)] \in Nat /\ proc[p].target <= Latest[Mod(p)]
    BY <1>1, <2>1, LatestAssumption DEF IInv, LocksSound
  <2> QED BY <2>1, <2>2 DEF VersionsLeft, Mod
<1>2. ASSUME IInv, ServeInv, [Next]_vars, NEW q \in Processes,
             ~ Over(proc[q]), proc'[q] # proc[q]
      PROVE  Closer(proc[q], proc'[q])
  <2>1. PICK p \in Processes :
          \/ Step(p) \/ VersionUnreadable(p) \/ StatementFails(p) \/ DropFails(p) \/ Die(p)
          \/ \E cmd \in Commands : Launch(p, cmd)
          \/ Stop(p)
    BY <1>2 DEF Next, vars
  <2>2. CASE Step(p) \/ VersionUnreadable(p) \/ StatementFails(p) \/ DropFails(p) \/ Die(p)
    <3>1. p = q
      BY <1>2, <2>2, OthersStay
    <3> QED BY <1>2, <2>2, <3>1, OwnStepIsCloser DEF ServeInv
  <2>3. CASE (\E cmd \in Commands : Launch(p, cmd)) \/ Stop(p)
    <3>1. p # q => proc'[q] = proc[q]
      BY <1>2, <2>3 DEF IInv, TypeOK, Launch, Stop, Goes
    <3>2. Over(proc[p])
      BY <2>3 DEF Launch, Stop, Over, At
    <3> QED BY <1>2, <3>1, <3>2
  <2> QED BY <2>1, <2>2, <2>3
<1>3. IInv /\ ServeInv /\ [Next]_vars
        => [\A p \in Processes :
              ~ Over(proc[p]) /\ proc'[p] # proc[p] => Closer(proc[p], proc'[p])]_vars
  BY <1>2
<1> QED BY <1>1, <1>3, Invariant, Serving, PTL DEF Spec, CommandsAdvance
===============================================================================
