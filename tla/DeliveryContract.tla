-------------------------- MODULE DeliveryContract --------------------------
(***************************************************************************)
(* What a consumer group promises about its topic, with no word about      *)
(* workers, rebalances, stores or graphs: a message is settled once and    *)
(* for good, and a partition is acknowledged one message at a time, only   *)
(* past a message that is settled.  PersistencePool implements it for      *)
(* flight-events, DelayPropagation for processed-flights.                  *)
(***************************************************************************)
EXTENDS Integers

CONSTANTS
    Partitions,     \* partitions of the topic
    Length          \* Length[p], a natural number: messages published to p

VARIABLES
    settled,        \* messages <<p, n>> that have reached a final outcome
    acked           \* acked[p]: the committed offset of partition p

vars == <<settled, acked>>

Messages == UNION {{p} \X (1..Length[p]) : p \in Partitions}

Init ==
    /\ settled = {}
    /\ acked = [p \in Partitions |-> 0]

\* Some messages get their final outcome; an outcome is never withdrawn.
Settle ==
    /\ settled' \in SUBSET Messages
    /\ settled \subseteq settled'
    /\ UNCHANGED acked

\* The partition moves past its next message, which has to be settled.
Ack(p) ==
    /\ <<p, acked[p] + 1>> \in settled
    /\ acked' = [acked EXCEPT ![p] = @ + 1]
    /\ UNCHANGED settled

Next == Settle \/ \E p \in Partitions : Ack(p)

Spec == Init /\ [][Next]_vars

TypeOK ==
    /\ settled \subseteq Messages
    /\ acked \in [Partitions -> Nat]

\* Everything below a committed offset is settled: what the broker will not
\* redeliver is not needed again.
AckedIsSettled ==
    \A p \in Partitions : \A n \in 1..acked[p] : <<p, n>> \in settled
=============================================================================
