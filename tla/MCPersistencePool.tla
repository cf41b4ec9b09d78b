------------------------- MODULE MCPersistencePool -------------------------
(* Small instances of PersistencePool for TLC.                             *)
EXTENDS PersistencePool, TLC

CONSTANTS w1, w2, p1, p2, a, b, k1

Msg(f, t) == [flight_id |-> f, flight_key |-> k1, timestamp |-> t, valid |-> TRUE]
Garbage(f) == [flight_id |-> f, flight_key |-> k1, timestamp |-> 0, valid |-> FALSE]

\* Two flight_ids of one flight_key on two partitions, their timestamps
\* interleaved, and a message that does not parse.
TwoPartitionLog == p1 :> <<Msg(a, 1), Msg(a, 3)>> @@ p2 :> <<Msg(b, 2), Garbage(b)>>

\* One partition: a flight published again unchanged, and between the two a
\* message that does not parse.
RepublishLog == p1 :> <<Msg(a, 1), Garbage(a), Msg(a, 1)>>
=============================================================================
