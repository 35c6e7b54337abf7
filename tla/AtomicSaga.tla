----------------------------- MODULE AtomicSaga -----------------------------
(***************************************************************************)
(* What a saga promises its caller, without steps in an order, retries or  *)
(* a breaker: it ends, and when it does all of its steps are in force or   *)
(* none is.  A saga that reports that compensation failed, and one that a  *)
(* panic ended, promise nothing about the steps.                           *)
(***************************************************************************)

CONSTANTS Client, Steps

VARIABLES
    outcome,    \* per client: "open" while its saga runs, then how it ended
    inForce     \* per client: the steps in force once it has ended

vars == <<outcome, inForce>>

Init ==
    /\ outcome = [c \in Client |-> "open"]
    /\ inForce = [c \in Client |-> {}]

End(c, o, left) ==
    /\ outcome[c] = "open"
    /\ outcome' = [outcome EXCEPT ![c] = o]
    /\ inForce' = [inForce EXCEPT ![c] = left]

Succeed(c) == End(c, "succeeded", Steps)
Fail(c) == End(c, "failed", {})
Tear(c) == \E o \in {"torn", "aborted"}, left \in SUBSET Steps : End(c, o, left)

\* The client starts another one.
Again(c) ==
    /\ outcome[c] # "open"
    /\ outcome' = [outcome EXCEPT ![c] = "open"]
    /\ inForce' = [inForce EXCEPT ![c] = {}]

Next == \E c \in Client : Succeed(c) \/ Fail(c) \/ Tear(c) \/ Again(c)

Ends == \A c \in Client : outcome[c] = "open" ~> outcome[c] # "open"

SafeSpec == Init /\ [][Next]_vars
Spec == SafeSpec /\ Ends
=============================================================================
