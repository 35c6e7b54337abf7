------------------------------ MODULE Seeding ------------------------------
(***************************************************************************)
(* The processes that load a configuration, and among them the seed and    *)
(* seed-module commands (cmd/server/commands/seed.go, migration/seeder.go  *)
(* and the auth module's auth_seed.go), which bring the database to it,    *)
(* one SQL statement after the other and without a transaction.  Several   *)
(* may run at the same time, with different configurations, and end        *)
(* anywhere; people register meanwhile.                                    *)
(***************************************************************************)
EXTENDS Configuration, Sequences

CONSTANTS
    Process,
    User,          \* addresses, of the seeds and of those who register
    Rows,          \* the rows looked up by name, permissions and then roles
    Assignments,   \* of permissions to roles
    SeedUsers,     \* per file, its users: sequences of [user, role]
    Plans,         \* what the processes may be started with
    MaxLaunches,   \* bound: launches of all processes together
    MaxFaults      \* bound: seeders that end in the middle

ASSUME CatalogAssumption ==
    /\ Rows # <<>> /\ Rows \in Seq({Rows[i] : i \in DOMAIN Rows})
    /\ Assignments # <<>> /\ Assignments \in Seq({Assignments[i] : i \in DOMAIN Assignments})
ASSUME SeedUsersAssumption ==
    /\ DOMAIN SeedUsers = {"yaml", "seeds"}
    /\ \A file \in DOMAIN SeedUsers :
          /\ SeedUsers[file] \in Seq({SeedUsers[file][i] : i \in DOMAIN SeedUsers[file]})
          /\ \A i \in DOMAIN SeedUsers[file] : SeedUsers[file][i].user \in User
ASSUME PlansAssumption ==
    \A starts \in Plans : \A p \in DOMAIN starts : IsInput(starts[p].input)
ASSUME BoundAssumption == MaxLaunches \in Nat /\ MaxFaults \in Nat

VARIABLES
    plan,      \* per process to be started: its command and the input of its Load;
               \* never changes
    config,    \* per process: what Load returned
    place,     \* per process: the statement it is about to execute
    index,     \* per process: the loop variable of the loop it is in
    rows,      \* auth.permissions and auth.roles, by name
    grants,    \* auth.role_permissions
    users,     \* auth.users
    zoned,     \* those that got the default timezone
    roles,     \* auth.user_roles
    asked,     \* history, per user: the roles that seeders have given it
    torn,      \* history: users whose seeder ended between DELETE and INSERT
    overlapped, \* history: processes that were not alone while they seeded
    launches,
    faults

process == <<plan, config, place, index>>
catalog == <<rows, grants>>
accounts == <<users, zoned, roles>>
history == <<asked, torn, overlapped>>
bounds == <<launches, faults>>
seedVars == <<process, catalog, accounts, history, bounds>>

SeedInit ==
    /\ plan \in Plans
    /\ config = [p \in Process |-> Defaults]
    /\ place = [p \in Process |-> "ready"]
    /\ index = [p \in Process |-> 1]
    /\ rows = {} /\ grants = {}
    /\ users = {} /\ zoned = {}
    /\ roles = [u \in User |-> {}]
    /\ asked = [u \in User |-> {}]
    /\ torn = {} /\ overlapped = {}
    /\ launches = 0 /\ faults = 0

Ended == {"ready", "serving", "done", "failed", "interrupted"}
Active == {p \in Process : place[p] \notin Ended}

\* cfg.Seeds.Users
Users(p) ==
    LET file == config[p].value["SEEDS"]
    IN  IF file = "empty" THEN <<>> ELSE SeedUsers[file]

Seeded(p) == Users(p)[index[p]].user
RoleOf(p) == Users(p)[index[p]].role

At(p, where) == place[p] = where

GoTo(p, where, i) ==
    /\ place' = [place EXCEPT ![p] = where]
    /\ index' = [index EXCEPT ![p] = i]
    /\ UNCHANGED <<plan, config>>

GiveUp(p) == GoTo(p, "failed", 1)

\* The next turn of a loop over n elements, or what follows the loop.
NextOf(p, n, loop, after) ==
    IF index[p] < n THEN GoTo(p, loop, index[p] + 1) ELSE GoTo(p, after, 1)

-----------------------------------------------------------------------------
(* A process starts with Load; the seed commands go on to SeedAll.         *)

Launch(p) ==
    /\ p \in DOMAIN plan
    /\ p \notin Active /\ ~At(p, "serving")
    /\ launches < MaxLaunches
    /\ launches' = launches + 1
    /\ config' = [config EXCEPT ![p] = Config(plan[p].input)]
    /\ place' = [place EXCEPT ![p] =
          IF LoadFails(plan[p].input) THEN "failed"
          ELSE IF plan[p].command = "seed" THEN "sql" ELSE "serving"]
    /\ index' = [index EXCEPT ![p] = 1]
    /\ overlapped' = IF Active = {} THEN overlapped \ {p} ELSE overlapped \union Active \union {p}
    /\ UNCHANGED <<plan, catalog, accounts, asked, torn, faults>>

\* runSQLSeeds: the files of the modules.  Those of the repository hold no
\* statement.
RunSQLSeeds(p) ==
    /\ At(p, "sql")
    /\ GoTo(p, "find", 1)
    /\ UNCHANGED <<catalog, accounts, history, bounds>>

-----------------------------------------------------------------------------
(* seedPermissions, seedRoles and assignRolePermissions.                   *)

FindRow(p) ==
    /\ At(p, "find")
    /\ IF Rows[index[p]] \in rows THEN NextOf(p, Len(Rows), "find", "grant")
       ELSE GoTo(p, "insert", index[p])
    /\ UNCHANGED <<catalog, accounts, history, bounds>>

\* The names are unique: the insert fails if somebody was faster.
InsertRow(p) ==
    /\ At(p, "insert")
    /\ IF Rows[index[p]] \in rows THEN GiveUp(p) /\ UNCHANGED rows
       ELSE /\ rows' = rows \union {Rows[index[p]]}
            /\ NextOf(p, Len(Rows), "find", "grant")
    /\ UNCHANGED <<grants, accounts, history, bounds>>

GrantPermission(p) ==
    /\ At(p, "grant")
    /\ grants' = grants \union {Assignments[index[p]]}
    /\ NextOf(p, Len(Assignments), "grant", IF Users(p) = <<>> THEN "done" ELSE "lookup")
    /\ UNCHANGED <<rows, accounts, history, bounds>>

-----------------------------------------------------------------------------
(* processUserSeed and assignUserRole.                                     *)

GetUserByEmail(p) ==
    /\ At(p, "lookup")
    /\ GoTo(p, IF Seeded(p) \in users THEN "role" ELSE "create", index[p])
    /\ UNCHANGED <<catalog, accounts, history, bounds>>

CreateUser(p) ==
    /\ At(p, "create")
    /\ IF Seeded(p) \in users THEN GiveUp(p) /\ UNCHANGED users
       ELSE users' = users \union {Seeded(p)} /\ GoTo(p, "profile", index[p])
    /\ UNCHANGED <<catalog, zoned, roles, history, bounds>>

\* Only for a user that was just created; an error is only logged.
UpdateUserProfile(p) ==
    /\ At(p, "profile")
    /\ \/ zoned' = zoned \union {Seeded(p)} /\ UNCHANGED faults
       \/ faults < MaxFaults /\ faults' = faults + 1 /\ UNCHANGED zoned
    /\ GoTo(p, "role", index[p])
    /\ UNCHANGED <<catalog, users, roles, history, launches>>

\* Mutant: a user that has a role keeps it.
FindRole_KeepsExisting(p) ==
    /\ At(p, "role")
    /\ IF roles[Seeded(p)] # {} THEN NextOf(p, Len(Users(p)), "lookup", "done")
       ELSE IF RoleOf(p) \in rows THEN GoTo(p, "clear", index[p])
       ELSE GiveUp(p)
    /\ UNCHANGED <<catalog, accounts, history, bounds>>

FindRole(p) ==
    /\ At(p, "role")
    /\ IF RoleOf(p) \in rows THEN GoTo(p, "clear", index[p]) ELSE GiveUp(p)
    /\ UNCHANGED <<catalog, accounts, history, bounds>>

\* Mutant: the role is cleared only to be replaced by itself.
ClearRoles_OwnOnly(p) ==
    /\ At(p, "clear")
    /\ roles' = [roles EXCEPT ![Seeded(p)] = @ \ {RoleOf(p)}]
    /\ GoTo(p, "assign", index[p])
    /\ UNCHANGED <<catalog, users, zoned, history, bounds>>

ClearRoles(p) ==
    /\ At(p, "clear")
    /\ roles' = [roles EXCEPT ![Seeded(p)] = {}]
    /\ GoTo(p, "assign", index[p])
    /\ UNCHANGED <<catalog, users, zoned, history, bounds>>

\* ON CONFLICT DO NOTHING.
AssignRole(p) ==
    /\ At(p, "assign")
    /\ roles' = [roles EXCEPT ![Seeded(p)] = @ \union {RoleOf(p)}]
    /\ asked' = [asked EXCEPT ![Seeded(p)] = @ \union {RoleOf(p)}]
    /\ torn' = torn \ {Seeded(p)}
    /\ NextOf(p, Len(Users(p)), "lookup", "done")
    /\ UNCHANGED <<catalog, users, zoned, overlapped, bounds>>

-----------------------------------------------------------------------------
(* What else happens.                                                      *)

\* The process dies, or the database refuses a statement.
Interrupt(p) ==
    /\ p \in Active
    /\ faults < MaxFaults
    /\ faults' = faults + 1
    /\ torn' = IF At(p, "assign") THEN torn \union {Seeded(p)} ELSE torn
    /\ GoTo(p, "interrupted", 1)
    /\ UNCHANGED <<catalog, accounts, asked, overlapped, launches>>

\* AuthService.Register: one transaction, with the role user.
Register(u) ==
    /\ u \notin users /\ "user" \in rows
    /\ users' = users \union {u}
    /\ roles' = [roles EXCEPT ![u] = {"user"}]
    /\ UNCHANGED <<process, catalog, zoned, history, bounds>>

Seed(p) ==
    \/ RunSQLSeeds(p)
    \/ FindRow(p) \/ InsertRow(p) \/ GrantPermission(p)
    \/ GetUserByEmail(p) \/ CreateUser(p) \/ UpdateUserProfile(p)
    \/ FindRole(p) \/ ClearRoles(p) \/ AssignRole(p)

SeedNext ==
    \/ \E p \in Process : Launch(p) \/ Seed(p) \/ Interrupt(p)
    \/ \E u \in User : Register(u)

SeedSpec == SeedInit /\ [][SeedNext]_seedVars

-----------------------------------------------------------------------------
(* Properties.                                                             *)

\* The value of a setting is that of a layer above which none gives it another,
\* the departures from the documented order aside, and the log names that layer:
\* where it departs as well, it says .env of a variable that was not captured,
\* and two fields of a provider have no mark of their own.
Explained(in, c, s) ==
    \E layer \in Layer :
        /\ MayDecide(in, layer, s)
        /\ c.value[s] = Decided(in, layer, s)
        /\ \/ c.source[s] = Mark[layer]
           \/ c.source[s] = "dotenv" /\ Mistaken(in, layer, s)
           \/ s \in {"GOOGLE_CLIENT_SECRET", "GOOGLE_ENABLED"}

\* Every process whose Load succeeded runs with values in the documented order,
\* PORT before YAML before .env before the system before the defaults, and logs
\* where they came from: whatever variables and files it found, nothing but the
\* departures that Configuration names excuses another value or another source.
LoadIsExplained ==
    \A p \in Process : place[p] \notin {"ready", "failed"} =>
        \A s \in Setting : Explained(plan[p].input, config[p], s)

Finishes(p) == place[p] # "done" /\ place'[p] = "done"

\* A seeder that was alone and succeeds leaves the database as configured,
\* whatever seeders that overlapped, failed or died before it have left there.
SeedingHeals ==
    [][\A p \in Process : Finishes(p) /\ p \notin overlapped =>
          /\ rows' = {Rows[i] : i \in DOMAIN Rows}
          /\ grants' = {Assignments[i] : i \in DOMAIN Assignments}
          /\ \A i \in DOMAIN Users(p) :
                /\ Users(p)[i].user \in users'
                /\ roles'[Users(p)[i].user] = {Users(p)[i].role}]_seedVars

\* Once a seeder has given a user its role, and outside of the moment between
\* DELETE and INSERT, the user has a role that a configuration gives it, and none
\* but such: also with seeders that overlap, and disagree.
RolesAreSeeded ==
    \A u \in User :
        \/ asked[u] = {} \/ u \in torn
        \/ \E p \in Process : At(p, "assign") /\ Seeded(p) = u
        \/ roles[u] # {} /\ roles[u] \subseteq asked[u]
=============================================================================
