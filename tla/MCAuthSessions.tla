--------------------------- MODULE MCAuthSessions ---------------------------
(* Instances of AuthSessions for TLC.                                      *)
EXTENDS AuthSessions, TLC

CONSTANT alice

\* One user with two contacts.
Owner == [c \in Contact |-> alice]

Symmetric == Permutations(Handler) \union Permutations(Contact)

\* The outbox decides nothing about the grants: two of them are enough for a
\* service without one.
Within == outboxRepo \/ Len(grants') <= 2

MCSpec == Init /\ [][Next /\ Within]_vars
=============================================================================
