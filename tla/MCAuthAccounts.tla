---------------------------- MODULE MCAuthAccounts ----------------------------
(* An instance of AuthAccounts for TLC: an identity whose provider reports *)
(* the e-mail address of a contact, and a provider that is not enabled.    *)
EXTENDS AuthAccounts, TLC

CONSTANTS e1, p1

OneProvider == [x \in Identity |-> p1]
OneEmail == [x \in Identity |-> e1]
OneEnabled == [enabled |-> TRUE, providers |-> {p1}, autoLink |-> TRUE]

Symmetry == Permutations(Handler)

\* A change of a contact, a profile or a verification, or a failure: each meets the
\* logins, links and unlinks of both handlers.
Within == changes' = 0 \/ failures' = 0

MCSpec == Init /\ [][Next /\ Within]_vars
=============================================================================
