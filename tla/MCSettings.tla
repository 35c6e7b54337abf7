----------------------------- MODULE MCSettings -----------------------------
(* The instances of Configuration with Seeding, and of FeatureFlags, for   *)
(* TLC.  They share no state: a behaviour exercises the ones or the other. *)
EXTENDS Seeding, FeatureFlags, TLC

CONSTANTS p1, p2, u1, u2

MCRows == <<"users:read", "user", "platform">>
MCAssignments == <<<<"user", "users:read">>, <<"platform", "users:read">>>>

\* Two files that disagree about one user.
MCSeedUsers ==
    [yaml |-> <<[user |-> u1, role |-> "platform"], [user |-> u2, role |-> "user"]>>,
     seeds |-> <<[user |-> u1, role |-> "user"]>>]

-----------------------------------------------------------------------------
(* Inputs: settings are varied one at a time, or with those they interact  *)
(* with.                                                                   *)

Variable(s) ==
    CASE s = "ENV" -> {"dev", "prod"}
      [] s \in Number -> {"empty", "given", "bad", "zero"}
      [] s \in Flag -> {"empty", "on", "off"}
      [] s = "CORS_ALLOWED_ORIGINS" -> {"empty", "given", "bad", "*"}
      [] s = "JWT_PUBLIC_KEY" -> {"empty", "given", "short"}
      [] s \in {"GOOGLE_CLIENT_ID", "GOOGLE_CLIENT_SECRET"} -> {"given"}
      [] s \in {"GOOGLE_ENABLED", "SEEDS"} -> {}
      [] OTHER -> {"empty", "given"}

InFile(s) ==
    CASE s \in {"GOOGLE_ENABLED"} -> {"on"}
      [] s = "SEEDS" -> {"given"}
      [] OTHER -> Variable(s) \ {"bad"}

\* Every way to mention some of the settings S.
Entries(S, options(_)) ==
    UNION {{f \in [D -> UNION {options(s) : s \in D}] : \A s \in D : f[s] \in options(s)} : D \in SUBSET S}

\* What makes a process of any environment valid.
Base == [s \in {"DB_DSN", "JWT_PUBLIC_KEY", "OAUTH_BASE_URL"} |-> "given"]

Inputs(S) ==
    [system : {f @@ [s \in DOMAIN Base \ S |-> Base[s]] : f \in Entries(S, Variable)},
     dotenv : Entries(S, Variable), yaml : Entries(S, InFile), seeds : Entries(S, InFile),
     files : SUBSET {"yaml", "seeds"}, broken : {{}}, port : {FALSE}]

Varied ==
    {{s} : s \in Setting \ (Provider \union {"SEEDS"})} \union {Provider, {"ENV", "SEEDS"}}

Plain == [system |-> Base, dotenv |-> <<>>, yaml |-> <<>>, seeds |-> <<>>,
          files |-> {"yaml", "seeds"}, broken |-> {}, port |-> FALSE]

ServeInputs ==
    UNION {Inputs(S) : S \in Varied}
      \union {[in EXCEPT !.port = TRUE] : in \in Inputs({"HTTP_PORT"})}
      \union {[Plain EXCEPT !.broken = B] : B \in SUBSET {"yaml", "seeds"}}

Given == [s \in {"SEEDS"} |-> "given"]

SeedInputs == {[Plain EXCEPT !.yaml = Given], [Plain EXCEPT !.seeds = Given]}

\* One process that loads whatever there may be, two that seed, or none.
MCPlans ==
    {<<>>} \union
    {[p \in {p1} |-> [command |-> "serve", input |-> in]] : in \in ServeInputs}
      \union [{p1, p2} -> [command : {"seed"}, input : SeedInputs]]

-----------------------------------------------------------------------------
(* Feature flags: users in buckets at the borders of the rollouts.         *)

CONSTANTS v0, v1, v50, v51, v99, anonymous, o1, f1, f2

MCBucket == v0 :> 0 @@ v1 :> 1 @@ v50 :> 50 @@ v51 :> 51 @@ v99 :> 99

MCTableMap == "system" :> "admin.system_config" @@ "kyc" :> "kyc.kyc_config" @@ "bets" :> "bets.bets_config"

Beta == <<"b", "e">>

MCRuleLists ==
    {<<>>,
     <<[attribute |-> "team", operator |-> "not_equals", value |-> [type |-> "list", of |-> <<Beta>>]],
       [attribute |-> "email", operator |-> "contains", value |-> Str(Beta)]>>}

MCContexts ==
    [user : DOMAIN MCBucket \union {anonymous}, email : {<<"a", "b", "e">>}, attributes : {"team" :> Str(Beta)}]
      \union [user : {v50}, email : {<<>>},
              attributes : {"context" :> [type |-> "string", of |-> "kyc"],
                            "context" :> [type |-> "string", of |-> "none"],
                            "team" :> [type |-> "list", of |-> <<Beta>>]}]

-----------------------------------------------------------------------------

\* A plan without processes leaves the instance to the flags.
MCInit == SeedInit /\ FlagInit

MCNext ==
    \/ plan # <<>> /\ SeedNext /\ UNCHANGED flagVars
    \/ plan = <<>> /\ FlagNext /\ UNCHANGED seedVars

MCSpec == MCInit /\ [][MCNext]_<<seedVars, flagVars>>
=============================================================================
