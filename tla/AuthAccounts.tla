----------------------------- MODULE AuthAccounts -----------------------------
(***************************************************************************)
(* modules/auth and internal/oauth: registration, contact and profile      *)
(* changes, the verification of an e-mail address, and the external        *)
(* accounts by which a user can log in.  A handler is a sequence of        *)
(* statements of AuthStore; other handlers run between them.               *)
(***************************************************************************)
EXTENDS AuthStore

CONSTANTS
    EmailOf,      \* the e-mail address the provider reports, or None
    OAuthConfig,  \* OAuth.Enabled, Providers.*.Enabled and AutoLinkByEmail
    Handler,      \* requests served at the same time
    MaxUsers,     \* bounds: registrations, the first users who ask for changes, and
    MaxAsking,    \* how many they ask for
    MaxChanges

ASSUME IdentityAssumption ==
    /\ EmailOf \in [Identity -> Email \union {None}]
    /\ OAuthConfig \in [enabled : BOOLEAN, providers : SUBSET Provider, autoLink : BOOLEAN]
ASSUME HandlerAssumption == IsFiniteSet(Handler)
ASSUME BoundsAssumption ==
    MaxUsers \in Nat /\ MaxAsking \in 0..MaxUsers /\ MaxChanges \in Nat

VARIABLES
    outbox,       \* auth events stored in the outbox
    tasks,        \* verification tasks: in the queue, the relay, the bus or its handler
    changes,      \* changes of contact, profile or verification asked for so far
    call,         \* per handler, the request it is in the middle of
    owners,       \* history: users the call's identity belonged to during the call
    issued,       \* history: the token pairs OAuth callbacks have issued
    uses          \* history: how many of them each state has brought

effects == <<outbox, tasks, changes>>
history == <<issued, uses>>
vars == <<storeVars, effects, call, owners, history>>

Requests ==
    [pc : {"idle", "registering", "unlinking", "fetched", "finding", "byEmail",
           "updating", "profile", "creating", "deleting"},
     email : Email \union {None}, phone : Phone \union {None},
     provider : Provider \union {None}, state : 0..MaxStates,
     identity : Identity \union {None}, user : 0..MaxUsers]
Request(pc, email, phone, provider, state, identity, user) ==
    [pc |-> pc, email |-> email, phone |-> phone, provider |-> provider,
     state |-> state, identity |-> identity, user |-> user]
Idle == Request("idle", None, None, None, 0, None, 0)

Init ==
    /\ StoreInit
    /\ outbox = {}
    /\ tasks = {}
    /\ changes = 0
    /\ call = [h \in Handler |-> Idle]
    /\ owners = [h \in Handler |-> {}]
    /\ issued = {}
    /\ uses = [s \in 1..MaxStates |-> 0]

At(h, pc) == call[h].pc = pc
Goto(h, c) == call' = [call EXCEPT ![h] = c]
\* The request h is in, at its next statement.
Onward(h, pc, identity, user) ==
    Request(pc, call[h].email, call[h].phone, call[h].provider, call[h].state, identity, user)
Proceed(h, pc) == Goto(h, Onward(h, pc, call[h].identity, call[h].user))
Asks == changes < MaxChanges /\ changes' = changes + 1

-----------------------------------------------------------------------------
(* Registration, profile and contacts.                                     *)

\* checkUserExists asks for the e-mail address if there is one, else for the phone,
\* and takes an error of the query for "does not exist".
Lookup(e, p) == IF e # None THEN GetUserByEmail(e) ELSE GetUserByPhone(p)

CheckUserExists(h, e, p) ==
    /\ At(h, "idle")
    /\ e # None \/ p # None
    /\ \E answer \in Lookup(e, p) :
          /\ answer.err # "none"
          /\ Charge(answer)
    /\ Goto(h, Request("registering", e, p, None, 0, None, 0))
    /\ UNCHANGED <<tables, oauth, effects, owners, history>>

\* One transaction for the user, profile, role and event: a conflict fails it all.
CreateUser(e, p) ==
    /\ Len(users) < MaxUsers
    /\ ~UserConflicts(e, p)
    /\ users' = SetProfile(InsertUser(e, p), Len(users) + 1, "registered")
    /\ outbox' = outbox \union {[event |-> "user_registered", user |-> Len(users) + 1,
                                 email |-> e, phone |-> p]}

Register(h) ==
    /\ At(h, "registering")
    /\ \/ CreateUser(call[h].email, call[h].phone) /\ Succeeds
       \/ UserConflicts(call[h].email, call[h].phone) /\ UNCHANGED <<users, outbox, failures>>
       \/ Fails /\ UNCHANGED <<users, outbox>>
    /\ Goto(h, Idle)
    /\ UNCHANGED <<pending, accounts, oauth, tasks, changes, owners, history>>

\* ChangeEmail and ChangePhone store the request and the event that sends its code
\* in one transaction; nothing in the repository confirms the change.
ChangeContact(u, kind, value) ==
    /\ u \in Ids
    /\ Asks
    /\ CreatePendingContactChange(u, kind, value)
    /\ outbox' = outbox \union
           {[event |-> "magic_code_requested", user |-> 0,
             email |-> IF kind = "email" THEN value ELSE None,
             phone |-> IF kind = "phone" THEN value ELSE None]}
    /\ UNCHANGED <<users, accounts, oauth, tasks, call, owners, history, failures>>

\* One statement for all three columns: what the request leaves out becomes NULL.
UpdateProfile(u) ==
    /\ u \in Ids
    /\ Asks
    /\ UpdateUserProfile(u, "updated")
    /\ UNCHANGED <<pending, accounts, oauth, outbox, tasks, call, owners, history>>

\* The task goes to the queue outside any transaction; a full queue is only logged,
\* and the answer is the same.
RequestEmailVerification(u) ==
    /\ u \in Ids
    /\ Asks
    /\ ~users[u].verified
    /\ tasks' = tasks \union {u} \/ UNCHANGED tasks
    /\ UNCHANGED <<storeVars, outbox, call, owners, history>>

\* The relay and the bus bring the task to the handler of the module; its error is
\* logged.  An instance that ends takes its tasks with it.
HandleEmailVerificationRequested(u) ==
    /\ u \in tasks
    /\ tasks' = tasks \ {u}
    /\ MarkEmailVerified(u)
    /\ UNCHANGED <<pending, accounts, oauth, outbox, changes, call, owners, history>>

-----------------------------------------------------------------------------
(* OAuth: the states, and a callback up to the identity it is about.       *)

\* NewRegistry and initializeProviders: with OAuth disabled there is no provider.
EnabledProviders == IF OAuthConfig.enabled THEN OAuthConfig.providers ELSE {}
IsProviderEnabled(p) == p \in EnabledProviders

\* BeginAuth saves a state before it sends the client to the provider; with a user in
\* the context it is for a link.
BeginAuth(p, u) ==
    /\ Len(states) < MaxStates
    /\ IsProviderEnabled(p)
    /\ u \in Ids \union {0}
    /\ CreateOAuthState(p, u, IF u = 0 THEN "login" ELSE "link")
    /\ UNCHANGED <<tables, effects, call, owners, history, failures>>

\* Ten minutes pass.
ExpireState(s) ==
    /\ s \in live
    /\ live' = live \ {s}
    /\ UNCHANGED <<tables, states, effects, call, owners, history, failures>>

\* Callback with a state whose signature is right and whose row is found.
GetState(h, s) ==
    /\ At(h, "idle")
    /\ \E answer \in GetOAuthState(s) : answer.err = "none" /\ Charge(answer)
    /\ Goto(h, Request("fetched", None, None, None, s, None, 0))
    /\ UNCHANGED <<tables, oauth, effects, owners, history>>

\* gothic.CompleteUserAuth asks the provider of the state who the user is, or fails.
CompleteUserAuth(h, x) ==
    /\ At(h, "fetched")
    /\ ProviderOf[x] = states[call[h].state].provider
    /\ Goto(h, Onward(h, "finding", x, 0))
    /\ owners' = [owners EXCEPT ![h] = IF x \in Linked THEN {accounts[x].user} ELSE {}]
    /\ UNCHANGED <<storeVars, effects, history>>

AuthFails(h) ==
    /\ At(h, "fetched")
    /\ Proceed(h, "deleting")
    /\ UNCHANGED <<storeVars, effects, owners, history>>

-----------------------------------------------------------------------------
(* OAuthService: logging in with an identity, or linking it.               *)

Action(h) == states[call[h].state].action

\* Mutant: an account that is linked to another user is updated all the same.
FindForLink_AnyOwner(h, answer) ==
    LET pc == IF answer.err = "failed" THEN "deleting"
              ELSE IF answer.err = "none" THEN "updating" ELSE "creating"
    IN  Onward(h, pc, call[h].identity, states[call[h].state].user)

\* handleAccountLinking refuses an account of another user.
FindForLink(h, answer) ==
    LET u == states[call[h].state].user
        another == answer.err = "none" /\ accounts[call[h].identity].user # u
        pc == IF answer.err = "failed" \/ another THEN "deleting"
              ELSE IF answer.err = "none" THEN "updating" ELSE "creating"
    IN  Onward(h, pc, call[h].identity, u)

\* handleLogin knows the account, or goes on to look for its e-mail address, or
\* refuses the login.
FindForLogin(h, answer) ==
    LET x == call[h].identity
        search == answer.err = "no rows" /\ OAuthConfig.autoLink /\ EmailOf[x] # None
    IN  IF answer.err = "none" THEN Onward(h, "updating", x, accounts[x].user)
        ELSE Onward(h, IF search THEN "byEmail" ELSE "deleting", x, 0)

FindAccount(h) ==
    /\ At(h, "finding")
    /\ \E answer \in GetExternalAccountByProviderUserID(call[h].identity) :
          /\ Goto(h, IF Action(h) = "link" THEN FindForLink(h, answer) ELSE FindForLogin(h, answer))
          /\ Charge(answer)
    /\ UNCHANGED <<tables, oauth, effects, owners, history>>

FindUser(h) ==
    /\ At(h, "byEmail")
    /\ \E answer \in GetUserByEmail(EmailOf[call[h].identity]) :
          /\ Goto(h, Onward(h, IF answer.err = "none" THEN "creating" ELSE "deleting",
                            call[h].identity, answer.row))
          /\ Charge(answer)
    /\ UNCHANGED <<tables, oauth, effects, owners, history>>

\* generateTokensForUser; the response carries the tokens.
GenerateTokens(h) ==
    /\ issued' = issued \union {[user |-> call[h].user, identity |-> call[h].identity,
                                 owners |-> owners'[h]]}
    /\ uses' = [uses EXCEPT ![call[h].state] = @ + 1]

\* Two updates of the identity's row, whoever owns it by now and if there is one.  A
\* login goes on after an error of either.
UpdateTokens(h) ==
    /\ At(h, "updating")
    /\ UpdateExternalAccountTokens(call[h].identity)
    /\ Proceed(h, "profile")
    /\ UNCHANGED <<users, pending, oauth, effects, owners, history>>

UpdateAccountProfile(h) ==
    /\ UNCHANGED owners
    /\ \/ /\ At(h, "profile")
          /\ UpdateExternalAccountProfile(call[h].identity)
       \/ /\ At(h, "updating") \/ At(h, "profile")
          /\ Action(h) = "login"
          /\ Fails /\ UNCHANGED accounts
    /\ GenerateTokens(h)
    /\ Proceed(h, "deleting")
    /\ UNCHANGED <<users, pending, oauth, effects>>

\* Every call that is about the identity has seen its new owner.
Witness(x, u) ==
    owners' = [k \in Handler |->
        IF call[k].identity = x THEN owners[k] \union {u} ELSE owners[k]]

CreateExternalAccount(h) ==
    /\ At(h, "creating")
    /\ InsertAccount(call[h].identity, call[h].user)
    /\ Witness(call[h].identity, call[h].user)
    /\ GenerateTokens(h)
    /\ Proceed(h, "deleting")
    /\ UNCHANGED <<users, pending, oauth, effects, failures>>

\* The insert, or an update for a link, fails: an error is redirected.
Refuse(h) ==
    /\ \/ At(h, "creating") /\ call[h].identity \in Linked /\ Succeeds
       \/ At(h, "creating") /\ Fails
       \/ (At(h, "updating") \/ At(h, "profile")) /\ Action(h) = "link" /\ Fails
    /\ Proceed(h, "deleting")
    /\ UNCHANGED <<tables, oauth, effects, owners, history>>

\* Mutant: the state is left for its expiry.
DeleteState_Keeps(h) ==
    /\ At(h, "deleting")
    /\ UNCHANGED <<live, failures>>
    /\ Goto(h, Idle)
    /\ UNCHANGED <<tables, states, effects, owners, history>>

\* The deferred deletion of the state, whose error is logged.
DeleteState(h) ==
    /\ At(h, "deleting")
    /\ DeleteOAuthState(call[h].state)
    /\ Goto(h, Idle)
    /\ UNCHANGED <<tables, states, effects, owners, history>>

-----------------------------------------------------------------------------
(* UnlinkExternalAccount.                                                  *)

\* The user and the number of his accounts are read first.  (Every user has a
\* contact: Register requires one and nothing removes it.)
CheckUnlink(h, u, p) ==
    /\ At(h, "idle")
    /\ \E answer \in GetUserByID(u) :
          /\ answer.err = "none"
          /\ \/ users[u].email # None \/ users[u].phone # None
             \/ CountAccounts(u) > 1
          /\ Charge(answer)
    /\ Goto(h, Request("unlinking", None, None, p, 0, None, u))
    /\ UNCHANGED <<tables, oauth, effects, owners, history>>

\* All of the user's accounts at that provider go, also when there is none.
DeleteByProvider(h) ==
    /\ At(h, "unlinking")
    /\ DeleteExternalAccountByProvider(call[h].user, call[h].provider)
    /\ Goto(h, Idle)
    /\ UNCHANGED <<users, pending, oauth, effects, owners, history>>

\* The process dies, or the client goes away: its context is cancelled, and what
\* is left of the request, deferred deletion included, fails.
Abandon(h) ==
    /\ ~At(h, "idle")
    /\ Fails
    /\ Goto(h, Idle)
    /\ UNCHANGED <<tables, oauth, effects, owners, history>>

-----------------------------------------------------------------------------

HandleOAuthCallback(h) ==
    \/ FindAccount(h) \/ FindUser(h)
    \/ UpdateTokens(h) \/ UpdateAccountProfile(h)
    \/ CreateExternalAccount(h) \/ Refuse(h)

Callback(h) ==
    \/ \E s \in 1..MaxStates : GetState(h, s)
    \/ \E x \in Identity : CompleteUserAuth(h, x)
    \/ AuthFails(h)
    \/ HandleOAuthCallback(h)
    \/ DeleteState(h)

Next ==
    \/ \E h \in Handler :
          \/ \E e \in Email \union {None}, p \in Phone \union {None} : CheckUserExists(h, e, p)
          \/ Register(h)
          \/ Callback(h)
          \/ \E u \in 1..MaxUsers, p \in Provider : CheckUnlink(h, u, p)
          \/ DeleteByProvider(h)
          \/ Abandon(h)
    \/ \E u \in 1..MaxAsking :
          \/ \E e \in Email : ChangeContact(u, "email", e)
          \/ \E p \in Phone : ChangeContact(u, "phone", p)
          \/ UpdateProfile(u)
          \/ RequestEmailVerification(u)
          \/ HandleEmailVerificationRequested(u)
    \/ \E p \in Provider, u \in 0..MaxUsers : BeginAuth(p, u)
    \/ \E s \in 1..MaxStates : ExpireState(s)

Spec == Init /\ [][Next]_vars

-----------------------------------------------------------------------------
(* Properties.                                                             *)

TypeOK ==
    /\ users \in Seq(Users) /\ Len(users) <= MaxUsers
    /\ pending \subseteq [user : Ids, type : {"email", "phone"}, value : Email \union Phone]
    /\ Linked \subseteq Identity
    /\ \A x \in Linked : accounts[x] \in Accounts /\ accounts[x].user \in Ids
    /\ states \in Seq(States) /\ Len(states) <= MaxStates
    /\ live \subseteq DOMAIN states
    /\ outbox \subseteq [event : {"user_registered", "magic_code_requested"},
                         user : Ids \union {0}, email : Email \union {None},
                         phone : Phone \union {None}]
    /\ tasks \subseteq Ids
    /\ changes \in 0..MaxChanges
    /\ call \in [Handler -> Requests]
    /\ owners \in [Handler -> SUBSET Ids]
    /\ issued \subseteq [user : Ids, identity : Identity, owners : SUBSET Ids]
    /\ uses \in [1..MaxStates -> Nat]
    /\ failures \in 0..MaxFailures

\* A callback reads the owner of an identity, or that it has none, and acts on it
\* later.  Still, whoever is given tokens for an identity owned it at some moment of
\* the call: not an owner from before the call, nor one who only tried to link it.
IssuedToOwner == \A t \in issued : t.user \in t.owners

\* No interleaving of logins and links moves an identity from one user to another;
\* the first has to unlink it.
NeverReassigned ==
    [][\A x \in Linked \intersect DOMAIN accounts' : accounts'[x].user = accounts[x].user]_vars

\* A state is read at the start of a callback and deleted at its end, so callbacks
\* that overlap, or follow a deletion that failed, can all use it: this often and no
\* more.
StateUsesBounded ==
    \A s \in 1..MaxStates : uses[s] <= Cardinality(Handler) + failures
=============================================================================
