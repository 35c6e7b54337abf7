------------------------------ MODULE MCEvents ------------------------------
(* Instances of EventBus, Notifications and CallChain for TLC.  They share *)
(* no state: a behaviour exercises one of them, chosen by its first step.  *)
EXTENDS EventBus, Notifications, CallChain, TLC

CONSTANTS a, b, c

VARIABLE exercised

\* Three different functions.
DistinctCode == a :> "fa" @@ b :> "fb" @@ c :> "fc"

\* Each of them is in use in one part only.
MCSymmetry == Permutations(Publisher) \union Permutations(Notice) \union Permutations(Call)

-----------------------------------------------------------------------------
(* Notifications: e-mail has three providers, a text message one.          *)

CONSTANTS s1, s2, s3, t1

MCEmailProviders == <<s1, s2, s3>>
MCSMSProviders == <<t1>>

-----------------------------------------------------------------------------
(* Calls with an administrator's token, in the header or in a cookie, some  *)
(* of them below a header with a forged one.                               *)

CONSTANTS alice, root, nobody

Genuine ==
    [genuine |-> TRUE, audiences |-> {"opos-frontend"}, id |-> TRUE, subject |-> root, role |-> "admin"]
Forged == [Genuine EXCEPT !.genuine = FALSE, !.subject = alice]

MCToken == {Genuine, Forged}

MCSent ==
    {[via |-> "grpc", header |-> h, cookie |-> Genuine] : h \in {Forged, NoToken}}
      \union {[via |-> "http", header |-> h, cookie |-> Genuine] : h \in {Genuine, NoToken}}

MCGuards ==
    "Register" :> {[kind |-> "unchecked"]}
      @@ "UpdateProfile" :> {[kind |-> "permission", permission |-> "users:write"],
                             [kind |-> "owner", owner |-> alice],
                             [kind |-> "ownerOrRole", owner |-> alice, roles |-> {"user"}]}
      @@ "GetProfile" :> {[kind |-> "role", roles |-> {"platform"}]}

MCRolePermissions == "admin" :> {"admin:*"} @@ "user" :> {"users:read"}

-----------------------------------------------------------------------------

MCInit == Init /\ NoticeInit /\ CallInit /\ exercised = "none"

Choose ==
    /\ exercised = "none"
    /\ exercised' \in {"bus", "notices", "calls"}
    /\ UNCHANGED <<vars, noticeVars, callVars>>

MCNext ==
    \/ Choose
    \/ exercised = "bus" /\ Next /\ UNCHANGED <<noticeVars, callVars, exercised>>
    \/ exercised = "notices" /\ NoticeNext /\ UNCHANGED <<vars, callVars, exercised>>
    \/ exercised = "calls" /\ CallChainNext /\ UNCHANGED <<vars, noticeVars, exercised>>

MCSpec == MCInit /\ [][MCNext]_<<vars, noticeVars, callVars, exercised>>
=============================================================================
