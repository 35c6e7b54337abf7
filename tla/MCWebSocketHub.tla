--------------------------- MODULE MCWebSocketHub ---------------------------
(* Instances of WebSocketHub for TLC.                                      *)
EXTENDS WebSocketHub, TLC

CONSTANTS a, b, intruder, m1, alice

Plain(header, query) ==
    [origin |-> "https://app", user_id |-> Nobody, header |-> header, query |-> query, cookie |-> NoToken]

\* All connections that get in belong to one user: his inner map is shared,
\* emptied, dropped and allocated again.
MCHandshake ==
    a :> Plain(alice, Forged) @@ b :> Plain(NoToken, alice)
      @@ intruder :> [Plain(Forged, alice) EXCEPT !.user_id = alice]

\* m1 goes to the user, the others to everybody.
MCEvent ==
    [m \in Message |-> [name |-> "user.updated",
                        payload |-> IF m = m1 THEN "userId" :> alice ELSE "user_id" :> Nobody]]
=============================================================================
