------------------------------ MODULE Migrations ------------------------------
(***************************************************************************)
(* The migration runner of internal/migration and the commands that use    *)
(* it: a server or worker that starts migrates every module up before it   *)
(* serves, "migrate" does the same and exits, and "migrate-down" rolls     *)
(* every module back, or drops its schema where that fails.  Several       *)
(* processes do so on one database, and any of them may die in between.    *)
(*                                                                         *)
(* Each module has a schema and a tracking table of its own, and golang-   *)
(* migrate guards the pair with an advisory lock, which PostgreSQL gives   *)
(* up when the session ends.  A script is one implicit transaction; the    *)
(* tracker is written before it (dirty) and after it (clean).  The drop of *)
(* a schema is two statements under no lock.                               *)
(***************************************************************************)
EXTENDS Naturals, Sequences

CONSTANTS
  Processes,     \* places where a command of the binaries runs
  NoOne,         \* the holder of a lock that nobody holds
  Order,         \* the modules with migrations, in registration order
  Latest,        \* the number of migration files of a module
  Irreversible,  \* modules whose last down script is refused by the database
  MaxLaunches,   \* bound on the commands started
  MaxFaults      \* bound on deaths and failing statements

Modules == {Order[i] : i \in 1 .. Len(Order)}

ASSUME OrderIsSequence == Order \in Seq(Modules) /\ Len(Order) \in Nat \ {0}
ASSUME OrderIsInjective ==
         \A i, j \in 1 .. Len(Order) : Order[i] = Order[j] => i = j
ASSUME LatestAssumption == Latest \in [Modules -> Nat \ {0}]
ASSUME NoOneAssumption == NoOne \notin Processes
ASSUME BoundsAssumption == MaxLaunches \in Nat /\ MaxFaults \in Nat

VARIABLES
  schema,    \* how many migrations the schema of a module has seen
  tracker,   \* its tracking table: absent, clean or dirty, and at which version
  lock,      \* the session that holds the module's advisory lock
  proc,      \* what each process runs, and where it is
  undone,    \* history: modules rolled back or dropped since a process started
  raised,    \* history: modules migrated up since a process started
  torn,      \* history: modules of which a drop took one half, or met a migration
  rollbacks, \* history: the rollbacks ever launched
  launches, faults

vars == <<schema, tracker, lock, proc, undone, raised, torn, rollbacks,
          launches, faults>>
db      == <<schema, tracker>>
history == <<undone, raised, torn>>

Commands == {"start", "migrate", "down"}
Finished == {"off", "ended", "failed"}
Ups      == {"start", "migrate"}

Proc == [cmd    : Commands,
         at     : Finished \cup {"serving", "opening", "reading", "taking",
                                 "marking", "running", "cleaning",
                                 "dropSchema", "dropTable"},
         k      : 1 .. Len(Order),   \* the module it is at
         target : Nat,               \* the version a script leads to
         done   : SUBSET Modules]    \* what DownAll counts as rolled back

Nothing == [version |-> 0, mark |-> "absent"]

TypeOK ==
  /\ schema \in [Modules -> Nat]
  /\ \A m \in Modules : schema[m] <= Latest[m]
  /\ tracker \in [Modules -> [version : Nat, mark : {"absent", "clean", "dirty"}]]
  /\ \A m \in Modules : tracker[m].version <= Latest[m]
  /\ \A m \in Modules : tracker[m].mark = "absent" => tracker[m].version = 0
  /\ lock \in [Modules -> Processes \cup {NoOne}]
  /\ proc \in [Processes -> Proc]
  /\ undone \in [Processes -> SUBSET Modules]
  /\ raised \in [Processes -> SUBSET Modules]
  /\ torn \in SUBSET Modules
  /\ rollbacks \in Nat /\ launches \in Nat /\ faults \in Nat

(* A fresh database, and nobody running. *)
Init ==
  /\ schema = [m \in Modules |-> 0]
  /\ tracker = [m \in Modules |-> Nothing]
  /\ lock = [m \in Modules |-> NoOne]
  /\ proc = [p \in Processes |->
               [cmd |-> "start", at |-> "off", k |-> 1, target |-> 0, done |-> {}]]
  /\ undone = [p \in Processes |-> {}]
  /\ raised = [p \in Processes |-> {}]
  /\ torn = {}
  /\ rollbacks = 0 /\ launches = 0 /\ faults = 0

-------------------------------------------------------------------------------
(* Where a process is. *)

Mod(p)        == Order[proc[p].k]
Up(p)         == proc[p].cmd \in Ups
At(p, place)  == proc[p].at = place
Goes(p, place) == proc' = [proc EXCEPT ![p].at = place]
Steady        == UNCHANGED <<rollbacks, launches, faults>>

Release(p) == lock' = [m \in Modules |-> IF lock[m] = p THEN NoOne ELSE lock[m]]

(* RunAll goes on to the next module, and at its end the server starts. *)
NextUp(p) ==
  LET last == proc[p].k = Len(Order) IN
  proc' = [proc EXCEPT ![p] = [proc[p] EXCEPT
             !.k  = IF last THEN @ ELSE @ + 1,
             !.at = IF ~ last THEN "opening"
                    ELSE IF proc[p].cmd = "start" THEN "serving" ELSE "ended"]]

(* DownAll goes on to the module registered before, whether or not it could
   roll this one back, and fails only if it counted none at all. *)
NextDown(p, counted) ==
  LET d    == proc[p].done \cup counted
      last == proc[p].k = 1
  IN  proc' = [proc EXCEPT ![p] = [proc[p] EXCEPT
                 !.done = d,
                 !.k    = IF last THEN @ ELSE @ - 1,
                 !.at   = IF ~ last THEN "opening"
                          ELSE IF d = {} THEN "failed" ELSE "ended"]]

NextModule(p) == IF Up(p) THEN NextUp(p) ELSE NextDown(p, {Mod(p)})

(* Without the return of RunAll at the first error. *)
Abort_GoesOn(p) == IF Up(p) THEN NextUp(p) ELSE Goes(p, "dropSchema")

(* An error of golang-migrate: RunAll returns it, DownAll falls back to
   dropping the schema. *)
Abort(p) == Goes(p, IF Up(p) THEN "failed" ELSE "dropSchema")

(* It begins the step to version v of its module. *)
StartsOn(p, v) ==
  proc' = [proc EXCEPT ![p] = [proc[p] EXCEPT !.at = "marking", !.target = v]]

(* m is about to be taken down, or up, by p. *)
NotesDown(p, m) ==
  undone' = [q \in Processes |-> IF q = p THEN undone[q] ELSE undone[q] \cup {m}]
NotesUp(p, m) ==
  raised' = [q \in Processes |-> IF q = p THEN raised[q] ELSE raised[q] \cup {m}]

-------------------------------------------------------------------------------
(* The commands. *)

(* A binary starts, with its own command. *)
Launch(p, cmd) ==
  /\ proc[p].at \in Finished
  /\ launches < MaxLaunches
  /\ launches' = launches + 1
  /\ proc' = [proc EXCEPT ![p] =
                [cmd |-> cmd, at |-> "opening",
                 k |-> IF cmd = "down" THEN Len(Order) ELSE 1,
                 target |-> 0, done |-> {}]]
  /\ undone' = [undone EXCEPT ![p] = {}]
  /\ raised' = [raised EXCEPT ![p] = {}]
  /\ rollbacks' = IF cmd = "down" THEN rollbacks + 1 ELSE rollbacks
  /\ UNCHANGED <<db, lock, torn, faults>>

Stop(p) ==
  /\ At(p, "serving")
  /\ Goes(p, "off")
  /\ UNCHANGED <<db, lock, history>> /\ Steady

(* migrate.New creates the tracking table under the lock, which it gives back. *)
Open(p) ==
  /\ At(p, "opening")
  /\ lock[Mod(p)] = NoOne
  /\ tracker' = [tracker EXCEPT ![Mod(p)].mark = IF @ = "absent" THEN "clean" ELSE @]
  /\ Goes(p, IF Up(p) THEN "taking" ELSE "reading")
  /\ UNCHANGED <<schema, lock, history>> /\ Steady

(* rollbackAllMigrations asks for the version before it does anything, without
   the lock.  golang-migrate answers "no version" for version 0 whatever the
   dirty flag says, and then there is nothing to do. *)
ReadVersion(p) ==
  /\ At(p, "reading")
  /\ IF tracker[Mod(p)].version = 0 THEN NextDown(p, {Mod(p)}) ELSE Goes(p, "taking")
  /\ UNCHANGED <<db, lock, history>> /\ Steady

(* The query fails: the version is 0 and the flag false, as if there were
   nothing to roll back. *)
VersionUnreadable(p) ==
  /\ At(p, "reading")
  /\ faults < MaxFaults
  /\ faults' = faults + 1
  /\ NextDown(p, {Mod(p)})
  /\ UNCHANGED <<db, lock, history, rollbacks, launches>>

(* Without waiting for the lock. *)
Take_WithoutLock(p) ==
  /\ At(p, "taking")
  /\ LET m    == Mod(p)
         v    == tracker[m].version
         last == IF Up(p) THEN Latest[m] ELSE 0
     IN  \/ /\ tracker[m].mark = "dirty"
            /\ Abort(p)
            /\ UNCHANGED lock
         \/ /\ tracker[m].mark # "dirty" /\ v = last
            /\ NextModule(p)
            /\ UNCHANGED lock
         \/ /\ tracker[m].mark # "dirty" /\ v # last
            /\ lock' = [lock EXCEPT ![m] = p]
            /\ StartsOn(p, IF Up(p) THEN v + 1 ELSE v - 1)
  /\ UNCHANGED <<db, history>> /\ Steady

(* Up and Down take the lock and read the version under it. *)
Take(p) ==
  /\ At(p, "taking")
  /\ lock[Mod(p)] = NoOne
  /\ LET m    == Mod(p)
         v    == tracker[m].version
         last == IF Up(p) THEN Latest[m] ELSE 0
     IN  \/ /\ tracker[m].mark = "dirty"
            /\ Abort(p)
            /\ UNCHANGED lock
         \/ /\ tracker[m].mark # "dirty" /\ v = last
            /\ NextModule(p)
            /\ UNCHANGED lock
         \/ /\ tracker[m].mark # "dirty" /\ v # last
            /\ lock' = [lock EXCEPT ![m] = p]
            /\ StartsOn(p, IF Up(p) THEN v + 1 ELSE v - 1)
  /\ UNCHANGED <<db, history>> /\ Steady

(* The version is written as if the script had run. *)
MarkDirty_Clean(p) ==
  /\ At(p, "marking")
  /\ LET m == Mod(p) IN
     \/ /\ tracker[m].mark # "absent"
        /\ tracker' = [tracker EXCEPT ![m] = [version |-> proc[p].target, mark |-> "clean"]]
        /\ Goes(p, "running")
        /\ IF Up(p) THEN NotesUp(p, m) /\ UNCHANGED undone
                    ELSE NotesDown(p, m) /\ UNCHANGED raised
        /\ UNCHANGED lock
     \/ /\ tracker[m].mark = "absent"
        /\ Abort(p) /\ Release(p)
        /\ UNCHANGED <<tracker, undone, raised>>
  /\ UNCHANGED <<schema, torn>> /\ Steady

(* SetVersion: it fails if somebody has dropped the table. *)
MarkDirty(p) ==
  /\ At(p, "marking")
  /\ LET m == Mod(p) IN
     \/ /\ tracker[m].mark # "absent"
        /\ tracker' = [tracker EXCEPT ![m] = [version |-> proc[p].target, mark |-> "dirty"]]
        /\ Goes(p, "running")
        /\ IF Up(p) THEN NotesUp(p, m) /\ UNCHANGED undone
                    ELSE NotesDown(p, m) /\ UNCHANGED raised
        /\ UNCHANGED lock
     \/ /\ tracker[m].mark = "absent"
        /\ Abort(p) /\ Release(p)
        /\ UNCHANGED <<tracker, undone, raised>>
  /\ UNCHANGED <<schema, torn>> /\ Steady

(* An up script creates what must not exist and builds on what must.  A down
   script drops what is there. *)
Fits(p) ==
  LET m == Mod(p) IN
  IF Up(p) THEN schema[m] = proc[p].target - 1
           ELSE ~ (m \in Irreversible /\ proc[p].target = 0 /\ schema[m] > 0)

RunScript(p) ==
  /\ At(p, "running")
  /\ LET m == Mod(p) IN
     \/ /\ Fits(p)
        /\ schema' = [schema EXCEPT ![m] =
                        IF Up(p) \/ @ > proc[p].target THEN proc[p].target ELSE @]
        /\ Goes(p, "cleaning")
        /\ UNCHANGED lock
     \/ /\ ~ Fits(p)
        /\ Abort(p) /\ Release(p)
        /\ UNCHANGED schema
  /\ UNCHANGED <<tracker, history>> /\ Steady

(* The lock is kept after the last script. *)
MarkClean_KeepsLock(p) ==
  /\ At(p, "cleaning")
  /\ LET m    == Mod(p)
         t    == proc[p].target
         last == IF Up(p) THEN Latest[m] ELSE 0
     IN  \/ /\ tracker[m].mark # "absent"
            /\ tracker' = [tracker EXCEPT ![m] = [version |-> t, mark |-> "clean"]]
            /\ \/ /\ t = last
                  /\ NextModule(p) /\ UNCHANGED lock
               \/ /\ t # last
                  /\ StartsOn(p, IF Up(p) THEN t + 1 ELSE t - 1)
                  /\ UNCHANGED lock
         \/ /\ tracker[m].mark = "absent"
            /\ Abort(p) /\ Release(p)
            /\ UNCHANGED tracker
  /\ UNCHANGED <<schema, history>> /\ Steady

MarkClean(p) ==
  /\ At(p, "cleaning")
  /\ LET m    == Mod(p)
         t    == proc[p].target
         last == IF Up(p) THEN Latest[m] ELSE 0
     IN  \/ /\ tracker[m].mark # "absent"
            /\ tracker' = [tracker EXCEPT ![m] = [version |-> t, mark |-> "clean"]]
            /\ \/ /\ t = last
                  /\ Release(p) /\ NextModule(p)
               \/ /\ t # last
                  /\ StartsOn(p, IF Up(p) THEN t + 1 ELSE t - 1)
                  /\ UNCHANGED lock
         \/ /\ tracker[m].mark = "absent"
            /\ Abort(p) /\ Release(p)
            /\ UNCHANGED tracker
  /\ UNCHANGED <<schema, history>> /\ Steady

(* DropModuleSchema: the schema, then the tracking table. *)
DropSchema(p) ==
  /\ At(p, "dropSchema")
  /\ schema' = [schema EXCEPT ![Mod(p)] = 0]
  /\ Goes(p, "dropTable")
  /\ NotesDown(p, Mod(p))
  /\ torn' = torn \cup {Mod(p)}
  /\ UNCHANGED <<tracker, lock, raised>> /\ Steady

DropTable(p) ==
  /\ At(p, "dropTable")
  /\ LET m == Mod(p) IN
     /\ tracker' = [tracker EXCEPT ![m] = Nothing]
     /\ torn' = IF lock[m] = NoOne /\ schema[m] = 0 THEN torn \ {m} ELSE torn \cup {m}
     /\ NotesDown(p, m)
  /\ NextDown(p, {Mod(p)})
  /\ UNCHANGED <<schema, lock, raised>> /\ Steady

-------------------------------------------------------------------------------
(* What goes wrong. *)

(* A statement of golang-migrate fails, or the lock does not come in time. *)
StatementFails(p) ==
  /\ proc[p].at \in {"opening", "taking", "marking", "running", "cleaning"}
  /\ faults < MaxFaults
  /\ faults' = faults + 1
  /\ Abort(p) /\ Release(p)
  /\ UNCHANGED <<db, history, rollbacks, launches>>

(* A statement of the fallback fails: the module is left as it is. *)
DropFails(p) ==
  /\ proc[p].at \in {"dropSchema", "dropTable"}
  /\ faults < MaxFaults
  /\ faults' = faults + 1
  /\ NextDown(p, {})
  /\ UNCHANGED <<db, lock, history, rollbacks, launches>>

(* The process dies, and its sessions with it. *)
Die(p) ==
  /\ proc[p].at \notin Finished
  /\ faults < MaxFaults
  /\ faults' = faults + 1
  /\ Goes(p, "off") /\ Release(p)
  /\ UNCHANGED <<db, history, rollbacks, launches>>

Step(p) ==
  \/ Open(p) \/ ReadVersion(p) \/ Take(p)
  \/ MarkDirty(p) \/ RunScript(p) \/ MarkClean(p)
  \/ DropSchema(p) \/ DropTable(p)

Next ==
  \E p \in Processes :
    \/ Step(p)
    \/ \E cmd \in Commands : Launch(p, cmd)
    \/ Stop(p)
    \/ VersionUnreadable(p) \/ StatementFails(p) \/ DropFails(p) \/ Die(p)

Spec == Init /\ [][Next]_vars

(* A command that can take its next statement does so; PostgreSQL hands the
   lock to those who wait for it in turn. *)
FairSpec == Spec /\ \A p \in Processes : SF_vars(Step(p))

-------------------------------------------------------------------------------
(* Schema and tracker of a module that no drop has torn apart agree while
   nobody works on it and the tracker is clean, and are one migration apart at
   most in any case: what a restart reads is what is there. *)
TrackerIsTrue ==
  \A m \in Modules \ torn :
    /\ schema[m] <= tracker[m].version + 1
    /\ tracker[m].version <= schema[m] + 1
    /\ lock[m] = NoOne /\ tracker[m].mark # "dirty" => schema[m] = tracker[m].version

(* However many instances start at once, an up script runs on exactly the
   schema it was written for, so no migration is applied twice or out of turn,
   unless a drop went on at the same time. *)
ScriptsMeetTheirSchema ==
  \A p \in Processes :
    At(p, "running") /\ Up(p) /\ Mod(p) \notin torn
      => schema[Mod(p)] = proc[p].target - 1

(* A process serves only over schemas at their latest version: RunAll does not
   pass a module by that another instance left dirty or half way.  Excused
   are modules taken down since it started, and torn ones. *)
ServingIsMigrated ==
  \A p \in Processes : At(p, "serving") =>
    \A m \in Modules \ (undone[p] \cup torn) : schema[m] = Latest[m]

(* A module that DownAll counts as rolled back is empty, unless it was migrated
   up again or torn meanwhile: "rollback all migrations to version 0, dropping
   all tables" (internal/migration/migration.go:323). *)
CountedIsRolledBack ==
  \A p \in Processes : \A m \in proc[p].done \ (raised[p] \cup torn) : schema[m] = 0

(* Every command comes to its end, whoever died or failed while holding a lock it
   waits for; and it fails only if something failed or was rolled back, however
   many start together, on a database of any version. *)
CommandsSucceed ==
  \A p \in Processes :
    At(p, "opening") ~>
      \/ proc[p].at \in {"serving", "ended"}
      \/ proc[p].at \in {"off", "failed"} /\ (rollbacks > 0 \/ faults > 0)
===============================================================================
