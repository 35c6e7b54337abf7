----------------------------- MODULE CallChain -----------------------------
(***************************************************************************)
(* A gRPC call on its way through the interceptors of its binary, to the   *)
(* handler and back: validation, internal/authn, internal/audit and        *)
(* internal/telemetry, with the helpers a handler has in internal/authz    *)
(* and internal/errors.  The audit interceptor hands its record to a       *)
(* goroutine nobody waits for, while the process may stop or die.          *)
(***************************************************************************)
EXTENDS Integers, Sequences, FiniteSets

CONSTANTS
    Call,            \* calls, each made once
    Method,          \* methods of the auth service
    Guards,          \* per method: checks of internal/authz its handler may make
    RolePermissions, \* rolePermissions: the permissions of each role
    Token,           \* [genuine, audiences, id, subject, role]
    Sent,            \* metadata: [via, header, cookie], a token or NoToken each
    Failures,        \* codes of the errors handlers return
    Nobody           \* no user, the empty string

\* Mutant: the audit interceptor is chained before the one that knows the caller.
Chain_AuditFirst ==
    [server |-> <<"i18n", "validation", "audit", "authn", "telemetry">>, auth |-> <<"authn">>]

\* The interceptors of cmd/server and cmd/auth, the outermost first.
Chain ==
    [server |-> <<"i18n", "validation", "authn", "audit", "telemetry">>, auth |-> <<"authn">>]

Binary == DOMAIN Chain

\* The methods that need no token.
PublicMethods ==
    [server |-> {"RequestLogin", "CompleteLogin", "Register", "RefreshSession", "GetOAuthProviders",
                 "InitiateOAuth", "CompleteOAuth", "GetSystemConfig"},
     auth |-> {"RequestLogin", "CompleteLogin"}]

\* The methods whose names isReadOnly takes for reads.
ReadOnly ==
    {"GetProfile", "ListSessions", "GetOAuthProviders", "ListLinkedAccounts", "GetSystemConfig"}

VARIABLES
    rpc,       \* per call: where it is, what it carries and what was answered
    expired,   \* tokens past their expiry and the leeway
    detached,  \* records in goroutines of the audit interceptor
    trail,     \* records the bus took
    unlogged,  \* history: calls whose record was lost with their process
    counted    \* per call: the status that telemetry counted

callVars == <<rpc, expired, detached, trail, unlogged, counted>>

New == [phase |-> "new"]

CallInit ==
    /\ rpc = [c \in Call |-> New]
    /\ expired = {}
    /\ detached = {} /\ trail = {} /\ unlogged = {}
    /\ counted = [c \in Call |-> "nothing"]

-----------------------------------------------------------------------------
(* Domain errors: a type and a code, which is empty unless one was given.  *)

CodesOfType ==
    [NotFound |-> {"NOT_FOUND", "USER_NOT_FOUND"},
     AlreadyExists |-> {"ALREADY_EXISTS", "USER_ALREADY_EXISTS"},
     Validation |-> {"VALIDATION_FAILED"},
     Unauthorized |-> {"AUTH_REQUIRED", "AUTH_INVALID_TOKEN", "AUTH_TOKEN_EXPIRED",
                       "AUTH_INVALID_CREDENTIALS", "AUTH_SESSION_EXPIRED", "AUTH_SESSION_REVOKED",
                       "AUTH_MAGIC_CODE_EXPIRED", "AUTH_MAGIC_CODE_INVALID"},
     Forbidden |-> {"FORBIDDEN", "INSUFFICIENT_PERMISSION", "NOT_RESOURCE_OWNER",
                    "RATE_LIMITED", "QUOTA_EXCEEDED"},
     Conflict |-> {"CONFLICT"},
     Unavailable |-> {"SERVICE_UNAVAILABLE"}]

\* mapCodeToErrorType: every other code, USER_SUSPENDED for one, is internal.
TypeOfCode(code) ==
    IF \E t \in DOMAIN CodesOfType : code \in CodesOfType[t]
    THEN CHOOSE t \in DOMAIN CodesOfType : code \in CodesOfType[t] ELSE "Internal"

WithCode(code) == [type |-> TypeOfCode(code), code |-> code]
Plain(type) == [type |-> type, code |-> ""]

\* Wrap keeps the type and not the code.
Wrap(err) == Plain(err.type)

\* mapErrorTypeToCode
CodeOfType ==
    [NotFound |-> "NOT_FOUND", AlreadyExists |-> "ALREADY_EXISTS", Validation |-> "VALIDATION_FAILED",
     Unauthorized |-> "AUTH_REQUIRED", Forbidden |-> "FORBIDDEN", Conflict |-> "CONFLICT",
     Unavailable |-> "SERVICE_UNAVAILABLE", Internal |-> "INTERNAL_ERROR"]

GetCode(err) == IF err.code # "" THEN err.code ELSE CodeOfType[err.type]

\* mapErrorTypeToGRPCCode
StatusOfType ==
    [NotFound |-> "NotFound", AlreadyExists |-> "AlreadyExists", Validation |-> "InvalidArgument",
     Unauthorized |-> "Unauthenticated", Forbidden |-> "PermissionDenied", Conflict |-> "Aborted",
     Unavailable |-> "Unavailable", Internal |-> "Internal"]

Status(s) == [status |-> s, code |-> ""]

\* ToGRPC
ToGRPC(err) == [status |-> StatusOfType[err.type], code |-> GetCode(err)]

-----------------------------------------------------------------------------
(* internal/authz, for the claims in a call's context.                     *)

NoClaims == [user |-> Nobody, role |-> ""]
NoError == Plain("none")

HasPermission(role, permission) ==
    role \in DOMAIN RolePermissions
      /\ RolePermissions[role] \intersect {"admin:*", permission} # {}

RequirePermission(claims, permission) ==
    CASE claims.role = "" -> Plain("Unauthorized")
      [] claims.role # "" /\ HasPermission(claims.role, permission) -> NoError
      [] OTHER -> Plain("Forbidden")

RequireRole(claims, roles) ==
    CASE claims.role = "" -> Plain("Unauthorized")
      [] claims.role \in roles \ {""} -> NoError
      [] OTHER -> Plain("Forbidden")

RequireOwnership(claims, owner) ==
    CASE claims.user = Nobody -> Plain("Unauthorized")
      [] claims.user # Nobody /\ (claims.role = "admin" \/ claims.user = owner) -> NoError
      [] OTHER -> Plain("Forbidden")

RequireOwnershipOrRole(claims, owner, roles) ==
    CASE claims.user = Nobody -> Plain("Unauthorized")
      [] claims.user # Nobody /\ (claims.user = owner \/ claims.role \in roles \ {""}) -> NoError
      [] OTHER -> Plain("Forbidden")

Check(guard, claims) ==
    CASE guard.kind = "unchecked" -> NoError
      [] guard.kind = "permission" -> RequirePermission(claims, guard.permission)
      [] guard.kind = "role" -> RequireRole(claims, guard.roles)
      [] guard.kind = "owner" -> RequireOwnership(claims, guard.owner)
      [] guard.kind = "ownerOrRole" -> RequireOwnershipOrRole(claims, guard.owner, guard.roles)

-----------------------------------------------------------------------------
(* internal/authn                                                          *)

NoToken == [genuine |-> FALSE, audiences |-> {}, id |-> FALSE, subject |-> Nobody, role |-> ""]

\* The header comes first; an unusable one is passed over, one with a token is
\* final, be the token good or bad.
BearerToken(metadata) == IF metadata.header # NoToken THEN metadata.header ELSE metadata.cookie

\* The metadata of a call over HTTP: the gateway has no matcher of its own, and
\* grpc-gateway passes Authorization, and a cookie under another name only.
Incoming(sent) == IF sent.via = "http" THEN [sent EXCEPT !.cookie = NoToken] ELSE sent

ValidAudience(audiences) ==
    audiences = {} \/ audiences \intersect {"opos-microservices", "opos-frontend"} # {}

\* Signed by the key with RS256 and by the issuer, in time, and complete.
VerifyToken(t) ==
    /\ t.genuine /\ t \notin expired
    /\ ValidAudience(t.audiences)
    /\ t.id /\ t.subject # Nobody

-----------------------------------------------------------------------------
(* A call enters the chain, works inwards, is handled and works outwards.  *)

Arrive(c, b, m, sent) ==
    /\ rpc[c].phase = "new"
    /\ rpc' = [rpc EXCEPT ![c] =
            [phase |-> "inward", at |-> 1, binary |-> b, method |-> m, metadata |-> Incoming(sent),
             claims |-> NoClaims, answer |-> Status("none"), handled |-> FALSE]]
    /\ UNCHANGED <<expired, detached, trail, unlogged, counted>>

Interceptor(call) == Chain[call.binary][call.at]
Innermost(call) == call.at > Len(Chain[call.binary])

Proceed(call) == [call EXCEPT !.at = @ + 1]
Refuse(call, s) == [call EXCEPT !.phase = "outward", !.at = @ - 1, !.answer = Status(s)]

Authenticate(call) ==
    LET token == BearerToken(call.metadata)
    IN  IF call.method \in PublicMethods[call.binary] THEN Proceed(call)
        ELSE IF VerifyToken(token)
        THEN Proceed([call EXCEPT !.claims = [user |-> token.subject, role |-> token.role]])
        ELSE Refuse(call, "Unauthenticated")

\* What an interceptor does before it calls the next: a request that breaks the
\* constraints of its message is refused, and the rest does nothing.
Before(call) ==
    IF Interceptor(call) = "authn" THEN {Authenticate(call)}
    ELSE IF Interceptor(call) = "validation"
    THEN {Proceed(call), Refuse(call, "InvalidArgument")}
    ELSE {Proceed(call)}

Inward(c) ==
    /\ rpc[c].phase = "inward" /\ ~Innermost(rpc[c])
    /\ \E call \in Before(rpc[c]) : rpc' = [rpc EXCEPT ![c] = call]
    /\ UNCHANGED <<expired, detached, trail, unlogged, counted>>

\* Answers of a handler: of its check, be the error wrapped or not, or of its work.
Answers(call, guard) ==
    LET refusal == Check(guard, call.claims)
        errors == IF refusal # NoError THEN {refusal} ELSE {WithCode(code) : code \in Failures}
    IN  {ToGRPC(err) : err \in errors \union {Wrap(e) : e \in errors}}
          \union {Status(s) : s \in {x \in {"OK"} : refusal = NoError}}

Handle(c) ==
    /\ rpc[c].phase = "inward" /\ Innermost(rpc[c])
    /\ \E guard \in Guards[rpc[c].method] : \E answer \in Answers(rpc[c], guard) :
          rpc' = [rpc EXCEPT ![c].phase = "outward", ![c].at = @ - 1,
                             ![c].answer = answer, ![c].handled = TRUE]
    /\ UNCHANGED <<expired, detached, trail, unlogged, counted>>

Record(c) ==
    [call |-> c, user |-> rpc[c].claims.user, success |-> rpc[c].answer.status = "OK"]

\* What an interceptor does after the next one returned.
Outward(c) ==
    /\ rpc[c].phase = "outward" /\ rpc[c].at > 0
    /\ rpc' = [rpc EXCEPT ![c].at = @ - 1]
    /\ detached' = IF Interceptor(rpc[c]) = "audit" /\ rpc[c].method \notin ReadOnly
                   THEN detached \union {Record(c)} ELSE detached
    /\ counted' = IF Interceptor(rpc[c]) = "telemetry"
                  THEN [counted EXCEPT ![c] = rpc[c].answer.status] ELSE counted
    /\ UNCHANGED <<expired, trail, unlogged>>

Answer(c) ==
    /\ rpc[c].phase = "outward" /\ rpc[c].at = 0
    /\ rpc' = [rpc EXCEPT ![c].phase = "answered"]
    /\ UNCHANGED <<expired, detached, trail, unlogged, counted>>

-----------------------------------------------------------------------------
(* Around the calls.                                                       *)

BinaryOf(c) == rpc[c].binary

\* The goroutine of the audit interceptor publishes on the bus.
Log(record) ==
    /\ record \in detached
    /\ detached' = detached \ {record}
    /\ trail' = trail \union {record}
    /\ UNCHANGED <<rpc, expired, unlogged, counted>>

Open(b) == {c \in Call : rpc[c].phase \in {"inward", "outward"} /\ rpc[c].binary = b}

\* The end of a process: GracefulStop waits for the calls and not for these
\* goroutines; a panic in a handler, which nothing recovers, waits for neither.
\* The next process of the binary knows nothing of them.
EndProcess(b) ==
    /\ rpc' = [c \in Call |-> IF c \in Open(b) THEN [rpc[c] EXCEPT !.phase = "lost"] ELSE rpc[c]]
    /\ LET lost == {r \in detached : BinaryOf(r.call) = b}
       IN  detached' = detached \ lost /\ unlogged' = unlogged \union {r.call : r \in lost}
    /\ UNCHANGED <<expired, trail, counted>>

Expire(t) ==
    /\ t.genuine
    /\ expired' = expired \union {t}
    /\ UNCHANGED <<rpc, detached, trail, unlogged, counted>>

CallChainNext ==
    \/ \E c \in Call :
          \/ \E b \in Binary, m \in Method, sent \in Sent : Arrive(c, b, m, sent)
          \/ Inward(c) \/ Handle(c) \/ Outward(c) \/ Answer(c)
    \/ \E record \in detached : Log(record)
    \/ \E b \in Binary : EndProcess(b)
    \/ \E t \in Token : Expire(t)

CallSpec == CallInit /\ [][CallChainNext]_callVars

-----------------------------------------------------------------------------
(* Properties.                                                             *)

Audits(b) == \E i \in DOMAIN Chain[b] : Chain[b][i] = "audit"

\* The caller a record has to name: who the token of the call belongs to, and
\* nobody for a public method, whatever token was sent along.
CallerOf(call) ==
    IF call.method \in PublicMethods[call.binary] THEN Nobody ELSE BearerToken(call.metadata).subject

\* Every change a handler of an auditing server was asked for leaves one record,
\* under the caller's name and with the outcome the caller was told, whatever was
\* refused on the way, expired since or wrapped; only the end of the process loses
\* one.  What never reached a handler leaves none.
AuditTrail ==
    /\ \A record \in detached \union trail :
          LET call == rpc[record.call]
          IN  /\ call.handled /\ call.method \notin ReadOnly
              /\ record.user = CallerOf(call)
              /\ record.success <=> call.answer.status = "OK"
    /\ \A r, s \in detached \union trail : r.call = s.call => r = s
    /\ \A c \in Call :
          rpc[c].phase = "answered" /\ rpc[c].handled /\ Audits(BinaryOf(c))
            /\ rpc[c].method \notin ReadOnly /\ c \notin unlogged =>
              \E record \in detached \union trail : record.call = c
=============================================================================
