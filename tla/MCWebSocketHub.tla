--------------------------- MODULE MCWebSocketHub ---------------------------
(* Small instances of WebSocketHub for TLC.                                *)
EXTENDS WebSocketHub, TLC

CONSTANTS a, b, c1, c2, p1, p2

Prediction(flight, source, gate, delayed) ==
    [flight |-> flight, source |-> source, gate |-> gate, delayed |-> delayed]

\* A delay, the flight it reaches, and another update of the first: two
\* entries of one partition, and one that may be read at any place of theirs.
DelayThenUpdate ==
    <<Prediction(a, None, FALSE, TRUE), Prediction(b, a, FALSE, TRUE), Prediction(a, None, FALSE, FALSE)>>

\* A flight, a partition.
Apart == (a :> p1) @@ (b :> p2)

\* One client sets its filter and sends what is not JSON ...
OneTalks == (c1 :> {[action |-> "subscribe", flight |-> b], [action |-> "noise"]}) @@ (c2 :> {})

\* ... the other sits through a heartbeat.
OneBeats == (c1 :> 0) @@ (c2 :> 1)

\* What the predictions say is in the graph before the first is published:
\* none of the run's properties is about a snapshot. The second client comes
\* once something is published: it meets a history, and streams the rest.
Latecomer ==
    /\ Init
    /\ [][/\ Next
          /\ applied < Len(Feed) => Apply
          /\ phase'[c2] # "idle" => published > 0]_vars
=============================================================================
