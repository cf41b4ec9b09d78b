-------------------------- MODULE MCFlightDataHook --------------------------
(* Small instances of FlightDataHook for TLC.                              *)
EXTENDS FlightDataHook

CONSTANTS a, b, p1, p2

Prediction(f, src, gate, delayed) ==
    [flight |-> f, source |-> src, gate |-> gate, delayed |-> delayed]

\* A delay that reaches another flight and moves its gate.
Cascade == <<Prediction(b, a, FALSE, TRUE), Prediction(b, None, TRUE, TRUE)>>

OneGate == SubSeq(Cascade, 2, 2)

\* A flight, a partition.
Apart == [f \in {a, b} |-> IF f = a THEN p1 ELSE p2]

\* What a hook may send.
HookFrames == [c \in Conns |-> {Frame(f) : f \in Focus \cup {None}}]

\* What Silent says has them.
NoBeats == [c \in Conns |-> 0]
=============================================================================
