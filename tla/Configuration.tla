--------------------------- MODULE Configuration ---------------------------
(***************************************************************************)
(* internal/config/config.go: Load makes the configuration of a process    *)
(* out of the variables of its environment, its .env file, a YAML file,    *)
(* the YAML file of seeds of its environment and PORT, each in a pass over *)
(* what the passes before it left.  The code repeats one pattern per       *)
(* setting; here one setting of each pattern stands for all of it.         *)
(***************************************************************************)
EXTENDS Naturals, FiniteSets

Text == {"ENV", "DB_DSN", "JWT_PUBLIC_KEY", "HTTP_PORT", "REQUEST_TIMEOUT", "OAUTH_BASE_URL"}
Number == {"RATE_LIMIT_RPS", "VALKEY_DB"}
Flag == {"RATE_LIMIT_ENABLED", "OAUTH_ENABLED"}
List == {"CORS_ALLOWED_ORIGINS"}
Provider == {"GOOGLE_CLIENT_ID", "GOOGLE_CLIENT_SECRET", "GOOGLE_ENABLED"}
OAuth == {"OAUTH_ENABLED", "OAUTH_BASE_URL"} \union Provider

\* GOOGLE_ENABLED and SEEDS are fields of the YAML files without a variable.
Setting == Text \union Number \union Flag \union List \union Provider \union {"SEEDS"}

\* What CaptureSystemEnvVars looks at.
Captured == {"ENV", "DB_DSN", "JWT_PUBLIC_KEY", "HTTP_PORT"}

(***************************************************************************)
(* What a process starts with: for each layer the entries of the settings  *)
(* it mentions, the files that exist, those that are no YAML, and whether  *)
(* PORT is set.  An entry is "empty", "given" (any proper value of the     *)
(* setting), "bad" (a number that is none, a list of commas), "zero",      *)
(* "on", "off" (flags), "*" (origins), "short" (a key), or the name of an  *)
(* environment.                                                            *)
(***************************************************************************)
\* What a variable or an entry of a file can say.
Possible(s) ==
    {"empty"} \union
    IF s \in Number THEN {"given", "bad", "zero"}
    ELSE IF s \in Flag \union {"GOOGLE_ENABLED"} THEN {"on", "off"}
    ELSE IF s \in List THEN {"given", "bad", "*"}
    ELSE IF s = "ENV" THEN {"dev", "prod", "test"}
    ELSE IF s = "JWT_PUBLIC_KEY" THEN {"given", "short"}
    ELSE {"given"}

Says(layer, settings, unusable) ==
    /\ DOMAIN layer \subseteq settings
    /\ \A s \in DOMAIN layer : layer[s] \in Possible(s) \ unusable

\* Only files speak of GOOGLE_ENABLED and SEEDS, and no YAML list or number is
\* unreadable on its own.
IsInput(in) ==
    /\ Says(in.system, Setting \ {"GOOGLE_ENABLED", "SEEDS"}, {})
    /\ Says(in.dotenv, Setting \ {"GOOGLE_ENABLED", "SEEDS"}, {})
    /\ Says(in.yaml, Setting, {"bad"}) /\ Says(in.seeds, Setting, {"bad"})
    /\ in.files \subseteq {"yaml", "seeds"} /\ in.port \in BOOLEAN

\* Two layers never give the same value: a "given" one is named for its layer.
Value(layer, entry) == IF entry = "given" THEN layer ELSE entry

Entry(file, s) == IF s \in DOMAIN file THEN file[s] ELSE "empty"

Default(s) ==
    IF s = "ENV" THEN "dev"
    ELSE IF s \in Flag \union {"GOOGLE_ENABLED"} THEN "off"
    ELSE IF s \in {"HTTP_PORT", "REQUEST_TIMEOUT"} \union Number THEN "default"
    ELSE "empty"

Defaults == [value |-> [s \in Setting |-> Default(s)], source |-> [s \in Setting |-> "default"]]

\* os.Getenv after godotenv.Load, which leaves alone what is in the
\* environment already, be it empty.
GivenBy(in, s) == IF s \in DOMAIN in.system THEN "system" ELSE "dotenv"
Getenv(in, s) == Entry(in[GivenBy(in, s)], s)
FromEnv(in, s) == Value(GivenBy(in, s), Getenv(in, s))

-----------------------------------------------------------------------------
(* The passes.                                                             *)

\* c with the settings of `set` as the environment gives them, and `marked` as
\* coming from `layer`.
FromVariables(in, c, set, marked, layer) ==
    [value |-> [s \in Setting |-> IF s \in set THEN FromEnv(in, s) ELSE c.value[s]],
     source |-> [s \in Setting |-> IF s \in marked THEN layer ELSE c.source[s]]]

\* A client id enables its provider.
Enable(c) == [c EXCEPT !.value["GOOGLE_ENABLED"] = "on"]

\* A flag can only be raised.
Usable(in, s) ==
    IF s \in Flag THEN Getenv(in, s) = "on" ELSE Getenv(in, s) \notin {"empty", "bad"}

overrideOAuthEnv(in, c) ==
    LET set == {s \in OAuth : Usable(in, s)}
        overridden == FromVariables(in, c, set, set, "system")
    IN  IF "GOOGLE_CLIENT_ID" \in set THEN Enable(overridden) ELSE overridden

\* Everything found is marked as the system's.
OverrideWithEnv(in, c) ==
    LET set == {s \in Setting \ OAuth : Usable(in, s)}
    IN  overrideOAuthEnv(in, FromVariables(in, c, set, set, "system"))

\* What was not captured with the value it has is marked as the .env file's,
\* whether or not the value is usable.
overrideEnvVar(in, c, S) ==
    LET set == {s \in S : Getenv(in, s) # "empty"}
        captured == {s \in Captured : Entry(in.system, s) # "empty"}
    IN  FromVariables(in, c, {s \in set : Getenv(in, s) # "bad"}, set \ captured, "dotenv")

overrideOAuthEnvFromDotenv(in, c) ==
    LET overridden == overrideEnvVar(in, c, OAuth)
    IN  IF Getenv(in, "GOOGLE_CLIENT_ID") # "empty" THEN Enable(overridden) ELSE overridden

\* The same variables once more.
OverrideWithEnvFromDotenv(in, c) ==
    overrideOAuthEnvFromDotenv(in, overrideEnvVar(in, c, Setting \ OAuth))

\* c with the settings of `set` as a file gives them, and `marked` as YAML's.
FromFile(file, layer, c, set, marked) ==
    [value |-> [s \in Setting |-> IF s \in set THEN Value(layer, Entry(file, s)) ELSE c.value[s]],
     source |-> [s \in Setting |-> IF s \in marked THEN "yaml" ELSE c.source[s]]]

\* A number counts if it is above zero, a flag if it is true.
Stated(file, s) ==
    /\ Entry(file, s) # "empty"
    /\ s \in Number => Entry(file, s) = "given"
    /\ s \in Flag => Entry(file, s) = "on"

\* A provider with a client id replaces the whole structure, and only the id is
\* marked.
applyYAMLOAuthProviders(file, layer, c) ==
    IF Stated(file, "GOOGLE_CLIENT_ID")
    THEN FromFile(file, layer, c, Provider, {"GOOGLE_CLIENT_ID"}) ELSE c

applyYAMLOAuthConfig(file, layer, c) ==
    LET set == {s \in OAuth \ Provider : Stated(file, s)}
    IN  applyYAMLOAuthProviders(file, layer, FromFile(file, layer, c, set, set))

\* The Valkey database counts from zero on, which is also what it is where the
\* file does not mention it.
WithValkeyDB(file, c) ==
    [value |-> [c.value EXCEPT !["VALKEY_DB"] =
                   IF Stated(file, "VALKEY_DB") THEN @ ELSE "zero"],
     source |-> [c.source EXCEPT !["VALKEY_DB"] = "yaml"]]

\* Mutant: a value set before is kept, so that the first layer wins.
applyYAMLConfig_Keeps(file, layer, c) ==
    LET set == {s \in Setting \ OAuth : Stated(file, s) /\ c.source[s] = "default"}
    IN  applyYAMLOAuthConfig(file, layer, WithValkeyDB(file, FromFile(file, layer, c, set, set)))

applyYAMLConfig(file, layer, c) ==
    LET set == {s \in Setting \ OAuth : Stated(file, s)}
    IN  applyYAMLOAuthConfig(file, layer, WithValkeyDB(file, FromFile(file, layer, c, set, set)))

\* A file that does not exist changes nothing.
loadYAMLConfig(in, layer, c) ==
    IF layer \in in.files THEN applyYAMLConfig(in[layer], layer, c) ELSE c

\* The seeds of the environment that the layers below have chosen; the
\* repository has a file for dev.
SeedsAreRead(in, c) == c.value["ENV"] = "dev" /\ "seeds" \in in.files

loadSeeds(in, c) == IF SeedsAreRead(in, c) THEN loadYAMLConfig(in, "seeds", c) ELSE c

applyPort(in, c) ==
    IF in.port THEN [value |-> [c.value EXCEPT !["HTTP_PORT"] = "PORT"],
                     source |-> [c.source EXCEPT !["HTTP_PORT"] = "PORT"]]
    ELSE c

validateJWT(v) == v["JWT_PUBLIC_KEY"] # "short"

validateCORS(v) == v["ENV"] = "prod" => v["CORS_ALLOWED_ORIGINS"] # "*"

validateOAuthConfig(v) ==
    v["OAUTH_ENABLED"] = "on" =>
        /\ v["OAUTH_BASE_URL"] # "empty"
        /\ v["GOOGLE_ENABLED"] = "on" => v["GOOGLE_CLIENT_SECRET"] # "empty"

Validate(v) ==
    /\ v["ENV"] = "prod" => v["DB_DSN"] # "empty" /\ v["JWT_PUBLIC_KEY"] # "empty"
    /\ validateJWT(v) /\ validateCORS(v) /\ validateOAuthConfig(v)

\* The configuration before the seeds' file is looked for.
BeforeSeeds(in) ==
    loadYAMLConfig(in, "yaml",
        OverrideWithEnvFromDotenv(in, OverrideWithEnv(in, Defaults)))

\* Load ends with an error: a file that is read is no YAML, or the result is
\* not valid.
Config(in) == applyPort(in, loadSeeds(in, BeforeSeeds(in)))

LoadFails(in) ==
    \/ "yaml" \in in.files \intersect in.broken
    \/ SeedsAreRead(in, BeforeSeeds(in)) /\ "seeds" \in in.broken
    \/ ~Validate(Config(in).value)

-----------------------------------------------------------------------------
(* What the documentation promises of the layers, and where Load departs   *)
(* from it.                                                                *)

\* docs/ENVIRONMENT.md: PORT > YAML > .env > system ENV vars > defaults.  The
\* file of seeds, which it does not mention, is a YAML file on top of the other.
Priority == [PORT |-> 5, seeds |-> 4, yaml |-> 3, dotenv |-> 2, system |-> 1, default |-> 0]
Layer == DOMAIN Priority

\* How the log names them.
Mark == [l \in Layer |-> IF l = "seeds" THEN "yaml" ELSE l]

\* The files that are read.
FilesRead(in) ==
    LET yaml == {"yaml"} \intersect in.files
        env == IF yaml # {} /\ Entry(in.yaml, "ENV") # "empty" THEN in.yaml["ENV"]
               ELSE IF Getenv(in, "ENV") # "empty" THEN Getenv(in, "ENV") ELSE "dev"
    IN  yaml \union IF env = "dev" THEN {"seeds"} \intersect in.files ELSE {}

\* What a layer says of a setting: a client id from a variable enables its
\* provider.
Word(in, layer, s) ==
    CASE layer = "default" -> Default(s)
      [] layer = "PORT" -> IF s = "HTTP_PORT" /\ in.port THEN "PORT" ELSE "empty"
      [] layer \in {"system", "dotenv"} /\ s = "GOOGLE_ENABLED" ->
            IF Entry(in[layer], "GOOGLE_CLIENT_ID") = "given" THEN "on" ELSE "empty"
      [] OTHER -> Value(layer, Entry(in[layer], s))

IsRead(in, layer) == layer \in {"seeds", "yaml"} => layer \in FilesRead(in)

Gives(in, layer, s) ==
    IsRead(in, layer) /\ (layer = "default" \/ Word(in, layer, s) \notin {"empty", "bad"})

\* The departures.  godotenv.Load leaves alone what the system mentions, so that
\* the .env file overrides nothing.
Hidden(in, layer, s) ==
    LET key == IF s = "GOOGLE_ENABLED" THEN "GOOGLE_CLIENT_ID" ELSE s
    IN  layer = "dotenv" /\ key \in DOMAIN in.system

\* A file that says false or zero is taken for one that says nothing.
Unheard(in, layer, s) ==
    /\ layer \in {"seeds", "yaml"}
    /\ \/ s \in Flag /\ Word(in, layer, s) = "off"
       \/ s \in Number /\ Word(in, layer, s) = "zero"

\* A file speaks of a provider in vain without its client id, and with it for all
\* fields, those included that it does not mention; and a file that does not
\* mention the Valkey database sets it to zero.
Bundled(in, layer, s) ==
    layer \in {"seeds", "yaml"} /\ s \in Provider /\ Entry(in[layer], "GOOGLE_CLIENT_ID") = "empty"

Erased(in, layer, s) ==
    /\ layer \in FilesRead(in) /\ Word(in, layer, s) = "empty"
    /\ s = "VALKEY_DB" \/ (s \in Provider /\ Entry(in[layer], "GOOGLE_CLIENT_ID") # "empty")

PassedOver(in, layer, s) == Hidden(in, layer, s) \/ Unheard(in, layer, s) \/ Bundled(in, layer, s)

\* The layers that may decide a setting: without a departure just the one that
\* the documentation says.
MayDecide(in, layer, s) ==
    /\ Gives(in, layer, s) \/ Erased(in, layer, s)
    /\ \A l \in Layer : Priority[l] > Priority[layer] /\ Gives(in, l, s) => PassedOver(in, l, s)

Decided(in, layer, s) ==
    IF s = "VALKEY_DB" /\ Erased(in, layer, s) THEN "zero" ELSE Word(in, layer, s)

\* A variable that was not captured is marked as the .env file's although the
\* system has it, or although it is not usable.
Mistaken(in, layer, s) ==
    layer \in {"system", "default"} /\ s \notin Captured /\ Getenv(in, s) # "empty"
=============================================================================
