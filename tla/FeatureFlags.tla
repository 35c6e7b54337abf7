---------------------------- MODULE FeatureFlags ----------------------------
(***************************************************************************)
(* internal/feature/flags.go: the in-memory manager and the one over the   *)
(* tables of the database.  Operators read a flag, change their copy and   *)
(* set it.  A copy shares the array of its rules with the manager, because *)
(* Go copies the header of a slice and not what it refers to.              *)
(***************************************************************************)
EXTENDS Integers, Sequences, FiniteSets

CONSTANTS
    FlagName,    \* names of flags
    Operator,    \* goroutines that change flags
    Bucket,      \* hash % 100 of each user ID that is not empty
    NoUser,      \* the empty user ID
    Percentages, \* what an operator may set
    RuleLists,   \* the lists of rules an operator may write
    Contexts,    \* what flags are evaluated for: [user, email, attributes]
    TableMap,    \* context name -> table, as NewSQLManager fills it
    Tables,      \* the tables that exist
    MaxSets      \* bound on the calls that change something

ASSUME BucketAssumption == Bucket \in [DOMAIN Bucket -> 0..99] /\ NoUser \notin DOMAIN Bucket
ASSUME PercentagesAssumption == Percentages \subseteq Int
ASSUME ContextsAssumption == \A ctx \in Contexts : ctx.user \in DOMAIN Bucket \union {NoUser}
ASSUME SystemAssumption == "system" \in DOMAIN TableMap

VARIABLES
    flags,    \* InMemoryManager.flags, without the flags that are not registered
    arrays,   \* the arrays rules live in
    held,     \* per operator: the copy of a flag it got, if any
    stored,     \* per table: key -> value
    changes   \* counts the calls that change something

flagVars == <<flags, arrays, held, stored, changes>>

NoCopy == [name |-> "none"]
System == TableMap["system"]

FlagInit ==
    /\ flags = <<>>
    /\ arrays = <<>>
    /\ held = [o \in Operator |-> NoCopy]
    /\ stored = [t \in Tables |-> <<>>]
    /\ changes = 0

With(f, k, v) == [x \in DOMAIN f \union {k} |-> IF x = k THEN v ELSE f[x]]

-----------------------------------------------------------------------------
(* Rules.  A value is [type, of]: a text is a sequence of characters, a    *)
(* list one of texts.                                                      *)

Nothing == [type |-> "nil", of |-> <<>>]
Str(s) == [type |-> "string", of |-> s]

\* The attribute of a context a rule is about.
GetAttributeValue(attr, ctx) ==
    CASE attr = "user_id" -> Str(IF ctx.user = NoUser THEN <<>> ELSE <<ctx.user>>)
      [] attr = "email" -> Str(ctx.email)
      [] OTHER -> IF attr \in DOMAIN ctx.attributes THEN ctx.attributes[attr] ELSE Nothing

\* Go's == on interfaces: values of different types differ, slices panic.
Equal(v, w) ==
    CASE v.type # w.type -> "off"
      [] v.type = w.type /\ v.type = "list" -> "panic"
      [] OTHER -> IF v = w THEN "on" ELSE "off"

Contains(s, sub) ==
    \E i \in 0..(Len(s) - Len(sub)) : SubSeq(s, i + 1, i + Len(sub)) = sub

Verdict(b) == IF b THEN "on" ELSE "off"

EvaluateOperator(operator, value, ruleValue) ==
    CASE operator = "equals" -> Equal(value, ruleValue)
      [] operator = "not_equals" ->
            CASE Equal(value, ruleValue) = "on" -> "off"
              [] Equal(value, ruleValue) = "off" -> "on"
              [] OTHER -> "panic"
      [] operator = "contains" ->
            Verdict(value.type = "string" /\ ruleValue.type = "string" /\ Contains(value.of, ruleValue.of))
      [] operator = "in" ->
            Verdict(value.type = "string" /\ ruleValue.type = "list"
                      /\ \E i \in DOMAIN ruleValue.of : ruleValue.of[i] = value.of)
      [] OTHER -> "off"

EvaluateRule(rule, ctx) ==
    EvaluateOperator(rule.operator, GetAttributeValue(rule.attribute, ctx), rule.value)

\* The loop over the rules ends at the first that is not fulfilled.
EvaluateRules(rules, ctx) ==
    LET unmet == {i \in DOMAIN rules : EvaluateRule(rules[i], ctx) # "on"}
    IN  IF unmet = {} THEN "on"
        ELSE EvaluateRule(rules[CHOOSE i \in unmet : \A j \in unmet : i <= j], ctx)

-----------------------------------------------------------------------------
(* InMemoryManager.                                                        *)

HashToBucket(user) == IF user = NoUser THEN 0 ELSE Bucket[user]

\* Mutant: the comparison is the other way round.
InRollout_Inverted(user, percentage) ==
    percentage \in 1..99 => HashToBucket(user) >= percentage

\* Percentages outside 1..99, zero included, let everybody in.
InRollout(user, percentage) ==
    percentage \in 1..99 => HashToBucket(user) <= percentage

IsEnabled(name) == name \in DOMAIN flags /\ flags[name].enabled

\* The array 0 is the one of a nil slice.
Rules(array) == IF array = 0 THEN <<>> ELSE arrays[array]

IsEnabledFor(name, ctx) ==
    IF IsEnabled(name) /\ InRollout(ctx.user, flags[name].percentage)
    THEN EvaluateRules(Rules(flags[name].rules), ctx)
    ELSE "off"

Counted == changes < MaxSets /\ changes' = changes + 1

Store(name, enabled, percentage, rules) ==
    flags' = With(flags, name, [enabled |-> enabled, percentage |-> percentage, rules |-> rules])

\* RegisterFlag: a flag for everybody or nobody.
RegisterFlag(f, enabled) ==
    /\ Counted
    /\ Store(f, enabled, 100, 0)
    /\ UNCHANGED <<arrays, held, stored>>

\* SetFlag with a flag the operator composed: its rules are a new slice.
SetNewFlag(f, enabled, percentage, list) ==
    /\ Counted
    /\ arrays' = Append(arrays, list)
    /\ Store(f, enabled, percentage, Len(arrays) + 1)
    /\ UNCHANGED <<held, stored>>

\* GetFlag, and what an element of ListFlags is as well: a copy of the struct.
GetFlag(o, f) ==
    /\ f \in DOMAIN flags
    /\ held' = [held EXCEPT ![o] = [name |-> f, flag |-> flags[f]]]
    /\ UNCHANGED <<flags, arrays, stored, changes>>

\* SetFlag with the copy, changed.
SetHeldFlag(o, enabled, percentage) ==
    /\ held[o] # NoCopy /\ Counted
    /\ Store(held[o].name, enabled, percentage, held[o].flag.rules)
    /\ UNCHANGED <<arrays, held, stored>>

\* The operator writes to the rules of its copy: the array is the manager's.
ChangeRule(o, rule) ==
    /\ held[o] # NoCopy /\ Counted
    /\ Rules(held[o].flag.rules) # <<>>
    /\ arrays' = [arrays EXCEPT ![held[o].flag.rules][1] = rule]
    /\ UNCHANGED <<flags, held, stored>>

-----------------------------------------------------------------------------
(* SQLManager.                                                             *)

\* Without a context attribute that is a string, the context is "system".
TableOf(ctx) ==
    LET named == "context" \in DOMAIN ctx.attributes /\ ctx.attributes["context"].type = "string"
        name == IF named THEN ctx.attributes["context"].of ELSE "system"
    IN  IF name \in DOMAIN TableMap THEN TableMap[name] ELSE "none"

\* A context that is not mapped, a missing table, a missing row: all mean off.
SQLIsEnabledFor(table, name, ctx) ==
    /\ TableOf(ctx) \in DOMAIN table
    /\ name \in DOMAIN table[TableOf(ctx)]
    /\ table[TableOf(ctx)][name] = "true"

\* Mutant: the statement replaces what the table holds.
SQLSetFlag_Replace(f, enabled) ==
    /\ Counted
    /\ System \in Tables
    /\ stored' = [stored EXCEPT ![System] = [x \in {f} |-> IF enabled THEN "true" ELSE "false"]]
    /\ UNCHANGED <<flags, arrays, held>>

\* SetFlag of the SQL manager writes the system table, whatever the context;
\* without that table it fails.  Percentage and rules are not kept.
SQLSetFlag(f, enabled) ==
    /\ Counted
    /\ System \in Tables
    /\ stored' = [stored EXCEPT ![System] = With(@, f, IF enabled THEN "true" ELSE "false")]
    /\ UNCHANGED <<flags, arrays, held>>

FlagNext ==
    \/ \E f \in FlagName, enabled \in BOOLEAN : RegisterFlag(f, enabled) \/ SQLSetFlag(f, enabled)
    \/ \E f \in FlagName, enabled \in BOOLEAN, p \in Percentages, list \in RuleLists :
          SetNewFlag(f, enabled, p, list)
    \/ \E o \in Operator :
          \/ \E f \in FlagName : GetFlag(o, f)
          \/ \E enabled \in BOOLEAN, p \in Percentages : SetHeldFlag(o, enabled, p)
          \/ \E list \in RuleLists : list # <<>> /\ ChangeRule(o, Head(list))

FlagSpec == FlagInit /\ [][FlagNext]_flagVars

-----------------------------------------------------------------------------
(* Properties.                                                             *)

\* Does a step that sets f only widen its rollout?
Widens(f) ==
    /\ f \in DOMAIN flags /\ f \in DOMAIN flags'
    /\ flags'[f].enabled
    /\ (Rules(flags[f].rules))' = Rules(flags[f].rules)
    /\ flags[f].percentage \in 1..flags'[f].percentage

\* A user who has a feature keeps it while its rollout grows, and whoever sets
\* one flag in the database takes away no other: IsEnabledFor depends on a
\* stable bucket (flags.go:119), and SetFlag on one row (flags.go:251).  Zero per
\* cent is excepted, it is everybody.
NobodyFallsOut ==
    [][/\ \A f \in FlagName : Widens(f) =>
             \A ctx \in Contexts : IsEnabledFor(f, ctx) = "on" => IsEnabledFor(f, ctx)' = "on"
       /\ \A f \in FlagName, ctx \in Contexts :
             SQLIsEnabledFor(stored, f, ctx) /\ ~SQLIsEnabledFor(stored', f, ctx)
               => /\ TableOf(ctx) = System
                  /\ \A g \in FlagName \ {f} : SQLIsEnabledFor(stored', g, ctx) <=> SQLIsEnabledFor(stored, g, ctx)
      ]_flagVars
=============================================================================
