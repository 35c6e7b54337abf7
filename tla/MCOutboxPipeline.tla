------------------------- MODULE MCOutboxPipeline -------------------------
(* Instances of OutboxPipeline for TLC.                                    *)
EXTENDS OutboxPipeline, TLC

\* Instances and well-formed routed events are interchangeable: no action
\* orders them.  Used by the safety runs only.
ServerSymmetry == Permutations(Server)
EventSymmetry == Permutations(Event)
Symmetry == ServerSymmetry \union EventSymmetry
=============================================================================
