---------------------------- MODULE AuthSessions ----------------------------
(***************************************************************************)
(* modules/auth: passwordless login, token refresh, logout and session     *)
(* revocation, as AuthService runs them over the auth tables.  A handler   *)
(* is a sequence of database calls: between two of them other handlers run *)
(* and the process may die.  Callers are behind the interceptor, so the    *)
(* claims of a verified token are in the context of the calls that need    *)
(* one.                                                                    *)
(***************************************************************************)
EXTENDS Integers, Sequences, FiniteSets

CONSTANTS
    User,
    Contact,          \* e-mail addresses and phone numbers of the users
    OwnerOf,          \* [Contact -> User]: the row of auth.users that has the contact
    Handler,          \* calls the server runs at the same time
    Bearers,          \* what clients present as bearer, access or refresh tokens,
    Refreshers,       \* and to RefreshSession: the code does not tell the kinds apart
    Nobody,
    MaxCodes,         \* bounds: codes sent, logins and refreshes, logouts and revocations,
    MaxGrants,        \* database errors and abandoned calls
    MaxRevocations,
    MaxFailures,
    MaxAged           \* bound: the grants that are followed until they expire

ASSUME OwnerAssumption == OwnerOf \in [Contact -> User] /\ Nobody \notin User
ASSUME BoundsAssumption ==
    /\ MaxCodes \in Nat /\ MaxGrants \in Nat
    /\ MaxRevocations \in Nat /\ MaxFailures \in Nat
    /\ MaxAged \in 0..MaxGrants
ASSUME KindAssumption ==
    Bearers \subseteq {"access", "refresh"} /\ Refreshers \subseteq {"access", "refresh"}
ASSUME HandlerAssumption == IsFiniteSet(Handler)

VARIABLES
    outboxRepo,       \* does the service have one?  It is set once, by New
    sent,             \* the contact of each magic code created so far
    codes,            \* rows of auth.magic_codes that have not expired
    outbox,           \* auth events stored in the outbox
    grants,           \* the pairs of tokens created so far
    held,             \* those a response has carried to a client
    age,              \* how far the clock has come in the life of each grant
    sessions,         \* rows of auth.sessions, by id
    blacklist,        \* rows of auth.token_blacklist
    call,             \* per handler, the call it is in the middle of
    retired,          \* history: codes and tokens whose removal was committed
    revocations,      \* logouts and revocations so far
    failures          \* database errors and abandoned calls so far

vars == <<outboxRepo, sent, codes, outbox, grants, held, age, sessions, blacklist, call, retired,
          revocations, failures>>

\* What a client exchanges for a grant: a code it was sent or a token.  A token is
\* its jti.
Codes == {<<"code", n>> : n \in 1..MaxCodes}
Tokens == {"access", "refresh"} \X (1..MaxGrants)
RefreshToken(g) == <<"refresh", g>>

\* An access token lives an hour and a refresh token a day, and Validate accepts
\* either for another minute of leeway.  Ages: 0 both are current, 1 the access
\* token is in its leeway, 2 only the refresh token is current, 3 it is in its
\* leeway, 4 neither verifies.
Ages == 0..4
Lifetime(t) == IF t[1] = "access" THEN 1 ELSE 3
Expired(t) == age[t[2]] >= Lifetime(t)
VerifyToken(t) == t[2] \in held /\ age[t[2]] <= Lifetime(t)
Subject(t) == grants[t[2]].user

\* IsTokenBlacklisted looks only at entries that have not expired, and an entry
\* expires with its token.
IsTokenBlacklisted_Inverted(t) == t \in blacklist /\ Expired(t)
IsTokenBlacklisted(t) == t \in blacklist /\ ~Expired(t)

\* token_hash is the key: a second entry for a token changes nothing.
InsertBlacklisted(t) == blacklist' = blacklist \union {t}

\* The call a handler is in the middle of: where it is, for whom, what was
\* presented to it, the grant it has made, and, for the history of that grant,
\* whether the credential was presented after its retirement or after its expiry.
NoCred == <<"none", 0>>
Idle == [pc |-> "idle", user |-> Nobody, cred |-> NoCred, grant |-> 0,
         reused |-> FALSE, late |-> FALSE]
Acting(pc, u, cred) == [Idle EXCEPT !.pc = pc, !.user = u, !.cred = cred]
Exchanging(pc, u, cred, late) ==
    [Acting(pc, u, cred) EXCEPT !.reused = cred \in retired, !.late = late]

Init ==
    /\ outboxRepo \in BOOLEAN
    /\ sent = <<>>
    /\ codes = {}
    /\ outbox = {}
    /\ grants = <<>>
    /\ held = {}
    /\ age = [g \in 1..MaxGrants |-> 0]
    /\ sessions = <<>>
    /\ blacklist = {}
    /\ call = [h \in Handler |-> Idle]
    /\ retired = {}
    /\ revocations = 0
    /\ failures = 0

-----------------------------------------------------------------------------

At(h, pc) == call[h].pc = pc
Goto(h, c) == call' = [call EXCEPT ![h] = c]

CountRevocation == revocations < MaxRevocations /\ revocations' = revocations + 1
Succeeds == UNCHANGED failures
Fails == failures < MaxFailures /\ failures' = failures + 1

\* The new code's row, besides those the contact already has.
CreateMagicCode(c) ==
    /\ sent' = Append(sent, c)
    /\ codes' = codes \union {<<"code", Len(sent) + 1>>}

\* outboxRepo.Store in the transaction of the caller; a service without one, such
\* as auth.Initialize makes, stores nothing.
Store(name, n) == outbox' = IF outboxRepo THEN outbox \union {<<name, n>>} ELSE outbox

\* RequestLogin for a contact some user has: the code and the event that
\* will send it are written by one transaction.  (For an unknown contact, and
\* when the transaction fails, nothing is written.)
RequestLogin(c) ==
    /\ Len(sent) < MaxCodes
    /\ CreateMagicCode(c)
    /\ Store("magic_code_requested", Len(sent) + 1)
    /\ UNCHANGED <<outboxRepo, grants, held, age, sessions, blacklist, call, retired,
                   revocations, failures>>

\* The row of a session: it belongs to the user and is not revoked.
CreateSession(id, u) ==
    sessions' = [s \in DOMAIN sessions \union {id} |->
        IF s = id THEN [user |-> u, revoked |-> FALSE] ELSE sessions[s]]

\* Two tokens for the caller, and a session row whose id is the jti of the
\* refresh token.  Nobody waits for the row: an error is only logged.
NewGrant(h) ==
    /\ Len(grants) < MaxGrants
    /\ LET g == Len(grants) + 1 IN
       /\ grants' = Append(grants, [user |-> call[h].user, from |-> call[h].cred,
                                    reused |-> call[h].reused, late |-> call[h].late])
       /\ \/ CreateSession(RefreshToken(g), call[h].user) /\ Succeeds
          \/ Fails /\ UNCHANGED sessions

\* The codes of a contact, whichever of them was presented.
CodesOf_None(c) == {}
CodesOf(c) == {r \in codes : sent[r[2]] = c}

\* The row of a code, for as long as it has not expired.
GetValidMagicCode(r) == codes \intersect {r}

\* CompleteLogin up to the check of the code.
VerifyCode(h, r) ==
    /\ At(h, "idle") /\ GetValidMagicCode(r) # {}
    /\ Goto(h, Exchanging("verified", OwnerOf[sent[r[2]]], r, FALSE))
    /\ UNCHANGED <<outboxRepo, sent, codes, outbox, grants, held, age, sessions, blacklist, retired,
                   revocations, failures>>

\* Mutant: the event is stored outside the transaction.
InvalidateCodes_EventAlone(h) ==
    /\ At(h, "verified")
    /\ Goto(h, [call[h] EXCEPT !.pc = "invalidated"])
    /\ LET r == call[h].cred
           gone == CodesOf(sent[r[2]]) IN
       /\ Store("user_logged_in", r[2])
       /\ \/ Succeeds /\ codes' = codes \ gone /\ retired' = retired \union gone \union {r}
          \/ Fails /\ UNCHANGED <<codes, retired>>
    /\ UNCHANGED <<outboxRepo, sent, grants, held, age, sessions, blacklist,
                   revocations>>

\* The transaction deletes every code of the contact and stores the login
\* event; when it fails the login goes on all the same.
InvalidateCodes(h) ==
    /\ At(h, "verified")
    /\ Goto(h, [call[h] EXCEPT !.pc = "invalidated"])
    /\ LET r == call[h].cred
           gone == CodesOf(sent[r[2]]) IN
       \/ /\ Succeeds
          /\ codes' = codes \ gone
          /\ retired' = retired \union gone \union {r}
          /\ Store("user_logged_in", r[2])
       \/ /\ Fails
          /\ UNCHANGED <<codes, retired, outbox>>
    /\ UNCHANGED <<outboxRepo, sent, grants, held, age, sessions, blacklist,
                   revocations>>

\* The response carries the tokens, in its body and as cookies.
HandOut(g) == held' = held \union {g}

\* generateLoginResponse, the end of CompleteLogin.
GenerateLoginResponse(h) ==
    /\ At(h, "invalidated")
    /\ NewGrant(h)
    /\ HandOut(Len(grants'))
    /\ Goto(h, Idle)
    /\ UNCHANGED <<outboxRepo, sent, codes, outbox, age, blacklist, retired,
                   revocations>>

-----------------------------------------------------------------------------

\* RefreshSession verifies the token and asks the blacklist; it does not
\* look at the session the token belongs to.
CheckRefresh(h, t) ==
    /\ At(h, "idle")
    /\ VerifyToken(t) /\ ~IsTokenBlacklisted(t)
    /\ Goto(h, Exchanging("checked", Subject(t), t, Expired(t)))
    /\ UNCHANGED <<outboxRepo, sent, codes, outbox, grants, held, age, sessions, blacklist, retired,
                   revocations, failures>>

IssueRefreshed(h) ==
    /\ At(h, "checked")
    /\ NewGrant(h)
    /\ Goto(h, [call[h] EXCEPT !.pc = "issued", !.grant = Len(grants')])
    /\ UNCHANGED <<outboxRepo, sent, codes, outbox, held, age, blacklist, retired,
                   revocations>>

BlacklistToken(t) ==
    /\ Succeeds
    /\ InsertBlacklisted(t)
    /\ retired' = retired \union {t}

\* The old token goes to the blacklist and the new ones to the client, the
\* latter even when the former failed.
RetireRefreshed(h) ==
    /\ At(h, "issued")
    /\ \/ BlacklistToken(call[h].cred)
       \/ Fails /\ UNCHANGED <<blacklist, retired>>
    /\ HandOut(call[h].grant)
    /\ Goto(h, Idle)
    /\ UNCHANGED <<outboxRepo, sent, codes, outbox, grants, age, sessions,
                   revocations>>

-----------------------------------------------------------------------------

\* UPDATE auth.sessions SET revoked_at for the rows in "which".
Revoke(which) ==
    sessions' = [s \in DOMAIN sessions |->
        [sessions[s] EXCEPT !.revoked = @ \/ s \in which]]

SessionsOf(u) == {s \in DOMAIN sessions : sessions[s].user = u}

\* RevokeAllUserSessions, but for the one session to be spared, if any.
RevokeAllUserSessions(u, spared) == Revoke(SessionsOf(u) \ spared)

\* The row of a session, unless it is revoked.
GetSessionByID(s) == {id \in DOMAIN sessions : id = s /\ ~sessions[id].revoked}

\* Logout blacklists the token of the Authorization header (a caller that
\* authenticates with a cookie sends none) and then, if asked to, revokes every
\* session of the user.
Logout(h, t, inHeader, all) ==
    /\ At(h, "idle") /\ VerifyToken(t)
    /\ CountRevocation
    /\ \/ inHeader /\ BlacklistToken(t)
       \/ inHeader /\ Fails /\ UNCHANGED <<blacklist, retired>>
       \/ ~inHeader /\ UNCHANGED <<blacklist, retired, failures>>
    /\ Goto(h, IF all THEN Acting("loggedOut", Subject(t), NoCred) ELSE Idle)
    /\ UNCHANGED <<outboxRepo, sent, codes, outbox, grants, held, age, sessions>>

LogoutEverywhere(h) ==
    /\ At(h, "loggedOut")
    /\ \/ Succeeds /\ RevokeAllUserSessions(call[h].user, {})
       \/ Fails /\ UNCHANGED sessions
    /\ Goto(h, Idle)
    /\ UNCHANGED <<outboxRepo, sent, codes, outbox, grants, held, age, blacklist, retired,
                   revocations>>

\* RevokeSession reads the row, compares its owner with the caller, and revokes
\* it in a second call: one step here, as an id never changes owner and
\* revoking a revoked row changes nothing that is modelled.
RevokeSession(t, s) ==
    /\ VerifyToken(t)
    /\ GetSessionByID(s) # {}
    /\ sessions[s].user = Subject(t)
    /\ Revoke({s})
    /\ CountRevocation
    /\ UNCHANGED <<outboxRepo, sent, codes, outbox, grants, held, age, blacklist, call, retired,
                   failures>>

\* RevokeAllSessions spares the session whose id is the jti of the caller's token.
RevokeAllSessions(t, includeCurrent, inHeader) ==
    /\ VerifyToken(t)
    /\ RevokeAllUserSessions(Subject(t), IF inHeader /\ ~includeCurrent THEN {t} ELSE {})
    /\ CountRevocation
    /\ UNCHANGED <<outboxRepo, sent, codes, outbox, grants, held, age, blacklist, call, retired,
                   failures>>

-----------------------------------------------------------------------------

\* Fifteen minutes pass: no query finds the row any more.
ExpireCode(r) ==
    /\ r \in codes
    /\ codes' = codes \ {r}
    /\ UNCHANGED <<outboxRepo, sent, outbox, grants, held, age, sessions, blacklist, call, retired,
                   revocations, failures>>

\* Time passes for a grant, and no faster than for the older ones.
Tick(g) ==
    /\ g <= Len(grants) /\ g <= MaxAged
    /\ age[g] < 4
    /\ \A old \in 1..(g - 1) : age[old] > age[g]
    /\ age' = [age EXCEPT ![g] = @ + 1]
    /\ UNCHANGED <<outboxRepo, sent, codes, outbox, grants, held, sessions, blacklist, call, retired,
                   revocations, failures>>

\* The process dies, or the client goes away and the rest of the call is not run.
Abandon(h) ==
    /\ ~At(h, "idle")
    /\ Fails
    /\ Goto(h, Idle)
    /\ UNCHANGED <<outboxRepo, sent, codes, outbox, grants, held, age, sessions, blacklist, retired,
                   revocations>>

-----------------------------------------------------------------------------
(* cmd/server admin <task>: another process, over the same tables.  With   *)
(* another name, and when the statement fails, it ends and changes nothing. *)

AdminTasks == {"cleanup:sessions", "cleanup:magic-codes"}

\* DELETE of the rows whose token expired more than seven days ago: those up to
\* the n-th, as no grant is older than the ones before it.
CleanupExpiredSessions(n) ==
    /\ n <= Len(grants) /\ \A g \in 1..n : age[g] = 4
    /\ sessions' = [s \in {id \in DOMAIN sessions : id[2] > n} |-> sessions[s]]
    /\ UNCHANGED <<outboxRepo, sent, codes, outbox, grants, held, age, blacklist, call, retired,
                   revocations, failures>>

\* DELETE of the codes that have expired, which "codes" has no longer.
CleanupExpiredMagicCodes == UNCHANGED vars

RunAdminCommand(task) ==
    /\ task \in AdminTasks
    /\ \/ task = "cleanup:sessions" /\ \E n \in 1..MaxGrants : CleanupExpiredSessions(n)
       \/ task = "cleanup:magic-codes" /\ CleanupExpiredMagicCodes

-----------------------------------------------------------------------------

CompleteLogin(h) ==
    \/ \E r \in Codes : VerifyCode(h, r)
    \/ InvalidateCodes(h)
    \/ GenerateLoginResponse(h)

RefreshSession(h) ==
    \/ \E t \in Refreshers \X (1..MaxGrants) : CheckRefresh(h, t)
    \/ IssueRefreshed(h)
    \/ RetireRefreshed(h)

Bearer == Bearers \X (1..MaxGrants)

LogOut(h) ==
    \/ \E t \in Bearer, inHeader, all \in BOOLEAN : Logout(h, t, inHeader, all)
    \/ LogoutEverywhere(h)

Time ==
    \/ \E r \in Codes : ExpireCode(r)
    \/ \E g \in 1..MaxGrants : Tick(g)

Next ==
    \/ \E c \in Contact : RequestLogin(c)
    \/ \E h \in Handler : CompleteLogin(h) \/ RefreshSession(h) \/ LogOut(h) \/ Abandon(h)
    \/ \E t \in Bearer, includeCurrent, inHeader \in BOOLEAN :
            RevokeAllSessions(t, includeCurrent, inHeader)
    \/ \E task \in AdminTasks : RunAdminCommand(task)
    \/ \E t \in Bearer, g \in 1..MaxGrants : RevokeSession(t, RefreshToken(g))
    \/ Time

Spec == Init /\ [][Next]_vars

-----------------------------------------------------------------------------

Credential == Codes \union Tokens \union {NoCred}

Calls ==
    [pc : {"idle", "verified", "invalidated", "checked", "issued", "loggedOut"},
     user : User \union {Nobody}, cred : Credential, grant : 0..MaxGrants,
     reused : BOOLEAN, late : BOOLEAN]

Grants == [user : User, from : Credential, reused : BOOLEAN, late : BOOLEAN]

TypeOK ==
    /\ outboxRepo \in BOOLEAN
    /\ sent \in Seq(Contact) /\ Len(sent) <= MaxCodes
    /\ codes \subseteq Codes
    /\ outbox \subseteq {"magic_code_requested", "user_logged_in"} \X (1..MaxCodes)
    /\ grants \in Seq(Grants) /\ Len(grants) <= MaxGrants
    /\ held \subseteq 1..Len(grants)
    /\ age \in [1..MaxGrants -> Ages]
    /\ DOMAIN sessions \subseteq {RefreshToken(g) : g \in 1..Len(grants)}
    /\ \A s \in DOMAIN sessions :
          sessions[s] \in [user : User, revoked : BOOLEAN]
    /\ blacklist \subseteq Tokens
    /\ call \in [Handler -> Calls]
    /\ retired \subseteq Codes \union Tokens
    /\ revocations \in 0..MaxRevocations
    /\ failures \in 0..MaxFailures

\* A magic code or a token buys nothing once its removal has been committed: no
\* grant comes from one that was presented afterwards, whichever handler
\* removed it (a login, a login with another code of the same contact, a
\* refresh, a logout).  The exception is the minute of leeway, when a token still
\* verifies although its blacklist entry has lapsed.
SingleUse ==
    \A g \in 1..Len(grants) : grants[g].reused => grants[g].late

\* Nothing makes a login or a refresh exclusive, so one code or token can be
\* exchanged by every handler that presents it before the first of them has
\* removed it, and again after each removal that failed: this many responses and
\* no more.
ForksBounded ==
    \A r \in Codes \union Tokens :
        Cardinality({g \in held : grants[g].from = r /\ ~grants[g].late})
            <= Cardinality(Handler) + failures

\* The codes a client has exchanged for tokens without a login on record.
Unrecorded ==
    {n \in 1..Len(sent) : /\ <<"user_logged_in", n>> \notin outbox
                          /\ \E g \in 1..Len(grants) : grants[g].from = <<"code", n>>}

\* The code of a recorded login is gone together with all that were sent before it
\* to the same contact.  A login that could not be recorded is answered all the
\* same, but with an outbox there are no more codes used in that way than there
\* were failures, whichever handlers shared them.
LoginsAreRecorded ==
    /\ \A n \in 1..Len(sent) : <<"user_logged_in", n>> \in outbox =>
          \A m \in 1..n : sent[m] = sent[n] => <<"code", m>> \notin codes
    /\ outboxRepo => Cardinality(Unrecorded) <= failures
=============================================================================
