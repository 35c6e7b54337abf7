------------------------------ MODULE AuthStore ------------------------------
(***************************************************************************)
(* The tables of modules/auth that accounts live in.  First one operator   *)
(* per statement of internal/db/store, as the rows it selects or the table *)
(* it leaves; then the methods of SQLRepository, which add the third       *)
(* outcome, an error of the database.  A column that is NULL holds None.   *)
(***************************************************************************)
EXTENDS Integers, Sequences, FiniteSets

CONSTANTS
    Email,
    Phone,
    Identity,     \* accounts at the providers: (provider, provider_user_id)
    Provider,
    ProviderOf,   \* [Identity -> Provider]
    None,
    MaxStates,    \* bounds: OAuth states, database errors and abandoned requests
    MaxFailures

ASSUME RowAssumption ==
    /\ None \notin Email \union Phone \union Identity \union Provider
    /\ ProviderOf \in [Identity -> Provider]
ASSUME StoreBoundsAssumption == MaxStates \in Nat /\ MaxFailures \in Nat

VARIABLES
    users,        \* auth.users, by id
    pending,      \* auth.pending_contact_changes
    accounts,     \* auth.user_external_accounts, by (provider, provider_user_id)
    states,       \* auth.oauth_states: the rows created so far
    live,         \* those that are there and have not expired
    failures      \* database errors and abandoned requests so far

tables == <<users, pending, accounts>>
oauth == <<states, live>>
storeVars == <<tables, oauth, failures>>

\* What UpdateUserProfile writes is one value: by Register, or by UpdateProfile.
Users == [email : Email \union {None}, phone : Phone \union {None},
          verified : BOOLEAN, profile : {"none", "registered", "updated"}]

\* tokens and profile: are those columns as they were inserted, or updated since?
Accounts == [user : Nat, tokens : {"inserted", "updated"}, profile : {"inserted", "updated"}]

\* user and action: a link for that user, or a login for none (0).
States == [provider : Provider, user : Nat, action : {"login", "link"}]

StoreInit ==
    /\ users = <<>>
    /\ pending = {}
    /\ accounts = <<>>
    /\ states = <<>>
    /\ live = {}
    /\ failures = 0

Ids == DOMAIN users
Linked == DOMAIN accounts

-----------------------------------------------------------------------------
(* Statements.                                                             *)

\* Nothing equals NULL.
SelectUserByEmail(e) == {u \in Ids : e # None /\ users[u].email = e}
SelectUserByPhone(p) == {u \in Ids : p # None /\ users[u].phone = p}
SelectUserByID(u) == Ids \intersect {u}

\* The columns users.email and users.phone are UNIQUE.
UserConflicts(e, p) == SelectUserByEmail(e) \union SelectUserByPhone(p) # {}
InsertUser(e, p) ==
    Append(users, [email |-> e, phone |-> p, verified |-> FALSE, profile |-> "none"])

\* UPDATE ... WHERE id changes nothing when there is no such row.
SetProfile(table, u, profile) ==
    IF u \in DOMAIN table THEN [table EXCEPT ![u].profile = profile] ELSE table
SetEmailVerified(u) == IF u \in Ids THEN [users EXCEPT ![u].verified = TRUE] ELSE users

InsertPendingChange(u, kind, value) ==
    pending \union {[user |-> u, type |-> kind, value |-> value]}

SelectAccount(x) == Linked \intersect {x}
SelectAccountsOfUser(u) == {x \in Linked : accounts[x].user = u}
CountAccounts(u) == Cardinality(SelectAccountsOfUser(u))

NewAccount(u) == [user |-> u, tokens |-> "inserted", profile |-> "inserted"]

\* Mutant: an existing row gets the new owner.
InsertAccount_Upsert(x, u) ==
    accounts' = [y \in Linked \union {x} |->
        IF y = x THEN NewAccount(u) ELSE accounts[y]]

\* UNIQUE (provider, provider_user_id).
InsertAccount(x, u) ==
    /\ x \notin Linked
    /\ accounts' = [y \in Linked \union {x} |->
           IF y = x THEN NewAccount(u) ELSE accounts[y]]

SetAccountTokens(x) ==
    [y \in Linked |-> IF y = x THEN [user |-> accounts[x].user, tokens |-> "updated",
                                    profile |-> accounts[x].profile] ELSE accounts[y]]
SetAccountProfile(x) ==
    [y \in Linked |-> IF y = x THEN [user |-> accounts[x].user, tokens |-> accounts[x].tokens,
                                    profile |-> "updated"] ELSE accounts[y]]
DeleteAccounts(u, p) ==
    LET kept == {x \in Linked : ~(accounts[x].user = u /\ ProviderOf[x] = p)}
    IN  [x \in kept |-> accounts[x]]

InsertState(p, u, action) ==
    Append(states, [provider |-> p, user |-> u, action |-> action])
SelectState(s) == live \intersect {s}
DeleteStateRow(s) == live \ {s}

-----------------------------------------------------------------------------
(* SQLRepository.                                                          *)

Succeeds == UNCHANGED failures
Fails == failures < MaxFailures /\ failures' = failures + 1

\* QueryRow and Scan: a row, ErrNoRows, or another error.  The methods wrap the
\* error, and errors.Is still tells ErrNoRows apart.
QueryRow(rows) ==
    {[err |-> "none", row |-> r] : r \in rows}
    \union (IF rows = {} THEN {[err |-> "no rows", row |-> 0]} ELSE {})
    \union (IF failures < MaxFailures THEN {[err |-> "failed", row |-> 0]} ELSE {})
Charge(answer) ==
    failures' = IF answer.err = "failed" THEN failures + 1 ELSE failures

GetUserByEmail(e) == QueryRow(SelectUserByEmail(e))
GetUserByPhone(p) == QueryRow(SelectUserByPhone(p))
GetUserByID(u) == QueryRow(SelectUserByID(u))

UpdateUserProfile(u, profile) ==
    \/ users' = SetProfile(users, u, profile) /\ Succeeds
    \/ Fails /\ UNCHANGED users

MarkEmailVerified(u) ==
    \/ users' = SetEmailVerified(u) /\ Succeeds
    \/ Fails /\ UNCHANGED users

CreatePendingContactChange(u, kind, value) ==
    pending' = InsertPendingChange(u, kind, value)

GetExternalAccountByProviderUserID(x) == QueryRow(SelectAccount(x))

UpdateExternalAccountTokens(x) ==
    accounts' = SetAccountTokens(x) /\ Succeeds
UpdateExternalAccountProfile(x) ==
    accounts' = SetAccountProfile(x) /\ Succeeds

DeleteExternalAccountByProvider(u, p) ==
    \/ accounts' = DeleteAccounts(u, p) /\ Succeeds
    \/ Fails /\ UNCHANGED accounts

CreateOAuthState(p, u, action) ==
    /\ states' = InsertState(p, u, action)
    /\ live' = live \union {Len(states) + 1}

GetOAuthState(s) == QueryRow(SelectState(s))

DeleteOAuthState(s) ==
    \/ live' = DeleteStateRow(s) /\ Succeeds
    \/ Fails /\ UNCHANGED live

=============================================================================
