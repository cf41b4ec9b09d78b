-------------------------- MODULE DelayPropagation --------------------------
(***************************************************************************)
(* DelayPropagationWorker (flight_tracker/workers/                         *)
(* delay_propagation_worker.py): the one consumer of processed-flights and *)
(* the one owner of the graph.  It applies a message to the graph, then    *)
(* publishes the resulting predictions one awaited call at a time, and     *)
(* commits.  A crashed worker is restarted over the same graph; a          *)
(* restarted process rebuilds the graph from active_flights.               *)
(***************************************************************************)
EXTENDS GraphEngine

CONSTANTS
    Partitions,     \* partitions of processed-flights, all assigned to the worker
    Aircraft,       \* aircraft_id values
    Log,            \* Log[p]: what the persistence pool ever forwards to p
    Snapshot,       \* the rows of active_flights before the first of them
    Garbage,        \* a message that does not parse
    MaxFaults       \* bound on injected faults, of any kind

Event ==
    [key : FlightKeys, aircraft : Aircraft \cup {None}, gate : Gates \cup {None},
     dep : Nat, arr : Nat, delay : Nat, timestamp : Nat]

ASSUME LogAssumption ==
    /\ Log \in [Partitions -> Seq(Event \cup {Garbage})]
    /\ Snapshot \in Seq(Event)
    /\ None \notin Event /\ Garbage \notin Event
    /\ IsFiniteSet(Partitions)
    /\ MaxFaults \in Nat

Messages == UNION {{p} \X (1..Len(Log[p])) : p \in Partitions}
EventOf(m) == Log[m[1]][m[2]]
Parses(m) == EventOf(m) # Garbage

\* The events anybody ever sent.
Sent == ToSet(Snapshot) \cup {EventOf(m) : m \in {x \in Messages : Parses(x)}}

Kinds == {"trigger", "propagated", "reassigned"}

\* A PredictionEvent: the message it came from, the flight it is about as the
\* graph has it, and how many more the same message still owes.
Prediction ==
    [msg : Messages, kind : Kinds, key : FlightKeys, delay : Nat,
     gate : Gates \cup {None}, hops : Nat, left : Nat]

VARIABLES
    pc,             \* where run() is
    cur,            \* the message in hand
    graph,          \* graph_engine.graph
    outbox,         \* predictions of cur still to be published
    pos,            \* consumer positions
    committed,      \* committed offsets
    published,      \* delay-predictions
    dlq,            \* dead-letter-events
    dropped,        \* messages whose dead-lettering itself failed
    faults          \* faults injected so far

consumerVars == <<pos, committed>>
topicVars == <<published, dlq, dropped>>
vars == <<pc, cur, graph, outbox, consumerVars, topicVars, faults>>

Labels == {"idle", "publish", "deadletter", "commit", "down", "dead"}

Init ==
    /\ pc = "idle" /\ cur = None /\ outbox = <<>>
    /\ graph = Load(Snapshot)
    /\ pos = [p \in Partitions |-> 0]
    /\ committed = [p \in Partitions |-> 0]
    /\ published = {} /\ dlq = {} /\ dropped = {}
    /\ faults = 0

Fault == faults < MaxFaults /\ faults' = faults + 1

----------------------------------------------------------------------------
(* process(): everything up to the first await is one step.                *)

\* process_event and resolve_gate_conflicts, for every event.
Applied(g, e) == Resolve(ProcessEvent(g, e))

\* ... and propagate_delay, for a delayed one.
Propagated(g, e) ==
    IF e.delay > 0 THEN Propagate(g, e.key, e.delay) ELSE [graph |-> g, updated |-> <<>>]

\* One prediction for the trigger, one per updated event, one per
\* reassignment, in this order; each holds the flight as it is by then.
Predictions(m, g, updated, moves) ==
    LET about(kind, key, hops, left) ==
          [msg |-> m, kind |-> kind, key |-> key, hops |-> hops, left |-> left,
           delay |-> g.flight[key].delay, gate |-> g.flight[key].gate]
        n == Len(updated)
        o == Len(moves)
    IN  <<about("trigger", EventOf(m).key, 0, n + o)>>
        \o [i \in 1..n |-> about("propagated", updated[i].key, updated[i].hops, n - i + o)]
        \o [i \in 1..o |-> about("reassigned", moves[i].key, 0, o - i)]

\* The consumer hands over the next message of p.
Take(p) ==
    /\ pc = "idle"
    /\ pos[p] < Len(Log[p])
    /\ cur' = <<p, pos[p] + 1>>
    /\ pos' = [pos EXCEPT ![p] = @ + 1]

Receive(p) ==
    /\ Take(p)
    /\ Parses(cur')
    /\ \E r \in {Applied(graph, EventOf(cur'))} :
         \E d \in {Propagated(r.graph, EventOf(cur'))} :
            /\ graph' = d.graph
            /\ outbox' = Predictions(cur', d.graph, d.updated, r.moves)
    /\ pc' = "publish"
    /\ UNCHANGED <<committed, topicVars, faults>>

\* Mutation of ReceiveGarbage: from_json outside the try, so that poison ends run().
ReceiveGarbageRaising(p) ==
    /\ pc = "idle" /\ pos[p] < Len(Log[p]) /\ ~Parses(<<p, pos[p] + 1>>)
    /\ pc' = "down"
    /\ pos' = committed
    /\ UNCHANGED <<cur, graph, outbox, committed, topicVars, faults>>

\* from_json raised.
ReceiveGarbage(p) ==
    /\ Take(p)
    /\ ~Parses(cur')
    /\ pc' = "deadletter"
    /\ UNCHANGED <<graph, outbox, committed, topicVars, faults>>

\* predict_with_confidence raised for the trigger: the graph has the event
\* and the reassignments, but no delay was propagated.
ReceiveUnpredicted(p) ==
    /\ Take(p)
    /\ Parses(cur') /\ EventOf(cur').delay > 0
    /\ Fault
    /\ graph' = Applied(graph, EventOf(cur')).graph
    /\ pc' = "deadletter"
    /\ UNCHANGED <<outbox, committed, topicVars>>

Publish ==
    /\ pc = "publish"
    /\ published' = published \cup {Head(outbox)}
    /\ outbox' = Tail(outbox)
    /\ pc' = IF Len(outbox) = 1 THEN "commit" ELSE "publish"
    /\ UNCHANGED <<cur, graph, consumerVars, dlq, dropped, faults>>

\* Every attempt of publish() failed, the last one appended or not (or the
\* predictor raised for a propagated flight): the rest is abandoned.
PublishFails ==
    /\ pc = "publish"
    /\ Fault
    /\ published' = published \cup {Head(outbox)} \/ UNCHANGED published
    /\ outbox' = <<>>
    /\ pc' = "deadletter"
    /\ UNCHANGED <<cur, graph, consumerVars, dlq, dropped>>

DeadLetter ==
    /\ pc = "deadletter"
    /\ dlq' = dlq \cup {cur}
    /\ pc' = "commit"
    /\ UNCHANGED <<cur, graph, outbox, consumerVars, published, dropped, faults>>

\* Its own publish fails, the record appended or not.
DeadLetterFails ==
    /\ pc = "deadletter"
    /\ Fault
    /\ dropped' = dropped \cup {cur}
    /\ dlq' \in {dlq, dlq \cup {cur}}
    /\ pc' = "commit"
    /\ UNCHANGED <<cur, graph, outbox, consumerVars, published>>

\* Mutation of CommittedNow: one past the position.
CommittedNowAhead == [p \in Partitions |-> Min({pos[p] + 1, Len(Log[p])})]

CommittedNow == pos

Commit ==
    /\ pc = "commit"
    /\ committed' = CommittedNow
    /\ pc' = "idle" /\ cur' = None
    /\ UNCHANGED <<graph, outbox, pos, topicVars, faults>>

----------------------------------------------------------------------------
(* Failures of the worker and of the process.                              *)

\* run() raises: the graph outlives the worker.
Crash ==
    /\ pc \in {"idle", "deadletter", "commit"}
    /\ Fault
    /\ pc' = "down" /\ cur' = None
    /\ pos' = committed
    /\ UNCHANGED <<graph, outbox, committed, topicVars>>

Restart ==
    /\ pc = "down"
    /\ pc' = "idle"
    /\ UNCHANGED <<cur, graph, outbox, consumerVars, topicVars, faults>>

RestartFails ==
    /\ pc = "down"
    /\ Fault
    /\ pc' = "dead"
    /\ UNCHANGED <<cur, graph, outbox, consumerVars, topicVars>>

\* The group rebalances while the only member is slow: it is assigned all
\* partitions again, at their committed offsets.
Rebalance ==
    /\ pc \in {"idle", "publish", "deadletter", "commit"}
    /\ Fault
    /\ pos' = committed
    /\ UNCHANGED <<pc, cur, graph, outbox, committed, topicVars>>

\* What the pool has stored of the messages up to cut, and of the flights before.
Stored(cut) ==
    ToSet(Snapshot) \cup {EventOf(m) : m \in {x \in Messages : x[2] <= cut[x[1]] /\ Parses(x)}}

\* The upsert sets neither scheduled time: those stay of the first event.
Row(newest, oldest) == [newest EXCEPT !.dep = oldest.dep, !.arr = oldest.arr]

\* active_flights by then: a flight's row holds its newest event.
Table(cut) ==
    LET of(k) == {e \in Stored(cut) : e.key = k}
        newest(k) == {e \in of(k) : \A f \in of(k) : f.timestamp <= e.timestamp}
        oldest(k) == {e \in of(k) : \A f \in of(k) : e.timestamp <= f.timestamp}
    IN  UNION {{Row(e, f) : e \in newest(k), f \in oldest(k)} : k \in FlightKeys}

\* ORDER BY last_updated DESC: rows of one time come in any order.
Rows(cut) ==
    {rows \in SetToSeqs(Table(cut)) :
       \A i, j \in DOMAIN rows : i < j => rows[i].timestamp >= rows[j].timestamp}

\* The process dies at any await and a new one starts: load_from_db sees at
\* least what was forwarded and read before.
ProcessRestart ==
    /\ Fault
    /\ \E cut \in [Partitions -> 0..Max({Len(Log[p]) : p \in Partitions})] :
         /\ \A p \in Partitions : cut[p] \in pos[p]..Len(Log[p])
         /\ \E rows \in Rows(cut) : graph' = Load(rows)
    /\ pc' = "idle" /\ cur' = None /\ outbox' = <<>>
    /\ pos' = committed
    /\ UNCHANGED <<committed, topicVars>>

Drained == \A p \in Partitions : committed[p] = Len(Log[p])

Quiescent ==
    /\ (Drained /\ pc = "idle") \/ pc = "dead"
    /\ UNCHANGED vars

Step ==
    \/ \E p \in Partitions : Receive(p) \/ ReceiveGarbage(p)
    \/ Publish \/ DeadLetter \/ Commit

Next ==
    \/ Step
    \/ \E p \in Partitions : ReceiveUnpredicted(p)
    \/ PublishFails \/ DeadLetterFails
    \/ Crash \/ Restart \/ RestartFails \/ Rebalance \/ ProcessRestart
    \/ Quiescent

Spec == Init /\ [][Next]_vars

\* A ready coroutine runs eventually and the supervisor's delay ends.
FairSpec == Spec /\ WF_vars(Step) /\ WF_vars(Restart \/ RestartFails)

----------------------------------------------------------------------------
(* Properties.                                                             *)

TypeOK ==
    /\ pc \in Labels
    /\ cur \in Messages \cup {None}
    /\ \A i \in DOMAIN outbox : outbox[i] \in Prediction
    /\ WellFormed(graph)
    /\ \A k \in FlightKeys : graph.flight[k] \in Event \cup {None}
    /\ pos \in [Partitions -> Nat]
    /\ committed \in [Partitions -> Nat]
    /\ published \subseteq Prediction
    /\ dlq \subseteq Messages
    /\ dropped \subseteq Messages
    /\ faults \in 0..MaxFaults

\* The step that applies the event of the message it takes.
Applies == pc = "idle" /\ cur' # None /\ Parses(cur')

\* engine.py:183-236 looks for conflicts along gate_reuse edges only: no two
\* flights may need one gate at one time without such an edge, whatever
\* updates, reassignments and reloads led here.
GateConflictsAreLinked == ConflictsAreLinked(graph)

\* An applied event leaves no two flights at one gate at one time, whichever
\* of them it was about, unless the loop of resolve_gate_conflicts ran out of
\* gates.
GateConflictsAreResolved ==
    [][Applies =>
         LET used == Resolve(ProcessEvent(graph, EventOf(cur'))).used IN
         FreeGates(used) # {} => ConflictFree(graph')]_vars

\* Decay applied h times.
DecayedBy(d, h) ==
    LET f[i \in 0..h] == IF i = 0 THEN d ELSE Decay(f[i - 1]) IN f[h]

\* docs/ARCHITECTURE.md:65: a delay is merged into every reachable flight, a
\* quarter less per hop: whatever the order of the breadth-first queue, a
\* flight h hops away ends up with at least the h times decayed delay.
DelayReachesEveryFlight ==
    pc = "publish" /\ EventOf(cur).delay > 0 =>
        \A h \in 1..Cardinality(FlightKeys) :
            \A k \in Within(graph, EventOf(cur).key, h) :
                graph.flight[k].delay >= DecayedBy(EventOf(cur).delay, h)

\* Propagation never lowers a delay, raises none above three quarters of the
\* largest delay there was, and touches only flights reachable from the
\* trigger: stated of every step that applies a delayed event.
PropagationIsContained ==
    [][pc = "idle" /\ pc' = "publish" =>
         \A e \in {EventOf(cur')}, after \in {graph'} :
             LET others == Nodes(graph) \ {e.key}
                 reached == Within(after, e.key, Cardinality(FlightKeys))
                 largest == Max({e.delay} \cup {graph.flight[k].delay : k \in others})
             IN  \A k \in others :
                   LET was == graph.flight[k].delay
                       is == after.flight[k].delay
                   IN  /\ was <= is
                       /\ is # was => e.delay > 0 /\ is <= Decay(largest) /\ k \in reached]_vars

\* A message is settled when the last prediction it owes is out, or it was
\* dead-lettered, or dead-lettering failed.
Settled(m) ==
    \/ \E x \in published : x.msg = m /\ x.left = 0
    \/ m \in dlq
    \/ m \in dropped

\* The predictor keeps the same contract with processed-flights as the pool
\* with flight-events: what is committed has its outcome.
Contract == INSTANCE DeliveryContract WITH
    Length <- [p \in Partitions |-> Len(Log[p])],
    settled <- {m \in Messages : Settled(m)},
    acked <- committed

ContractHolds == Contract!Spec

\* Every forwarded message is eventually committed, unless the supervised
\* loop has ended.
EventuallyDrained == <>(Drained \/ pc = "dead")
=============================================================================
