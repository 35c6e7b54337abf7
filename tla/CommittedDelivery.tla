------------------------- MODULE CommittedDelivery -------------------------
(***************************************************************************)
(* What the outbox pipeline promises about each event, with none of its    *)
(* machinery: an event can reach a subscriber, or be dropped, only after   *)
(* the business transaction that stored it committed, and a committed      *)
(* event does not stay undecided for ever.                                 *)
(***************************************************************************)

CONSTANT Event

VARIABLES committed, delivered, dropped

vars == <<committed, delivered, dropped>>

Init ==
    /\ committed = {}
    /\ delivered = {}
    /\ dropped = {}

Commit(e) ==
    /\ e \notin committed
    /\ committed' = committed \union {e}
    /\ UNCHANGED <<delivered, dropped>>

\* Delivery is at least once: a delivered event may be delivered again, which
\* leaves the set as it is.
Deliver(e) ==
    /\ e \in committed
    /\ delivered' = delivered \union {e}
    /\ UNCHANGED <<committed, dropped>>

\* One failure (the end of a process) may drop several copies at once.
Drop(E) ==
    /\ E \subseteq committed
    /\ dropped' = dropped \union E
    /\ UNCHANGED <<committed, delivered>>

Next ==
    \/ \E e \in Event : Commit(e) \/ Deliver(e)
    \/ \E E \in SUBSET Event : Drop(E)

Decided == \A e \in Event : e \in committed ~> e \in delivered \union dropped

\* What may happen, and what must in the end.
SafeSpec == Init /\ [][Next]_vars
Spec == SafeSpec /\ Decided
=============================================================================
