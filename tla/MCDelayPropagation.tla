------------------------- MODULE MCDelayPropagation -------------------------
(* Small instances of DelayPropagation for TLC.                            *)
EXTENDS DelayPropagation, TLC

CONSTANTS p1, p2, s, u, v, w, x, y, g1, g2, g3

\* Flight k on aircraft a at gate g, scheduled from d to d + 2.
F(k, a, g, d, delay, ts) ==
    [key |-> k, aircraft |-> a, gate |-> g, dep |-> d, arr |-> d + 2,
     delay |-> delay, timestamp |-> ts]

\* Three flights loaded at one gate with overlapping windows.
CrowdedRows == <<F(s, None, g1, 1, 0, 3), F(u, x, g1, 1, 0, 2), F(v, x, g1, 2, 0, 1)>>

TwoGates == <<g1, g2>>
ThreeGates == <<g1, g2, g3>>

\* Gate and schedule changes and delays of the crowded flights, over two
\* partitions, and a message that does not parse.  With three gates some
\* orders of these use all of them up and leave a conflict; once s has moved
\* out of the others' way a conflict is resolved with a gate to spare.
GateLog == p1 :> <<F(s, None, g1, 1, 4, 4), F(s, None, g2, 5, 0, 6)>>
           @@ p2 :> <<F(u, x, g2, 1, 8, 5), Garbage>>

\* Aircraft rotations with a change of aircraft: s, u and v fly x, then v
\* flies y with w; one message does not parse.
TurnRows == <<F(s, x, None, 1, 0, 3), F(u, x, None, 3, 8, 2), F(v, x, None, 5, 0, 1)>>
TurnLog == p1 :> <<F(v, y, None, 5, 0, 4), Garbage, F(w, y, None, 7, 0, 5),
                   F(s, x, None, 1, 4, 6)>>
=============================================================================
