--------------------------- MODULE MCRequestPath ---------------------------
(* The instance of RequestPath for TLC.                                    *)
EXTENDS RequestPath

\* Limiter and cached data use different keys: one deployment exercises the one,
\* another the other.
LimiterOrCache == {[limited |-> TRUE, cached |-> FALSE], [limited |-> FALSE, cached |-> TRUE]}
=============================================================================
