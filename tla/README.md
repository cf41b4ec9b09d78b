# A TLA+ model of Flight Tracker

Flight Tracker polls flight data, persists it and propagates delays over a graph
of flights, with Kafka between the stages and one asyncio process around them.
These modules model the parts of it in which order, failure and concurrency
decide the outcome. Paths below are relative to the repository; a path without a
directory in front of `workers/`, `graph/`, `db/`, `events/`, `cache/` or
`server.py` is under `flight_tracker/`.

## Inventory

```
client -> ingestion worker -> [flight-events] -> persistence pool -> PostgreSQL, Redis
                                                      |
                                              [processed-flights]
                                                      |
                                       delay propagation worker (graph)
                                                      |
                                              [delay-predictions] -> one consumer
                                                                     per WebSocket -> browser
failures of either consumer -> [dead-letter-events]
```

| component | state | operations | interacts by | correct when |
|---|---|---|---|---|
| Ingestion (`ingestion/`) | the poll in progress; the mock's flights | poll, wrap, publish each flight | flight-events | a key names one content; the newest state of every flight arrives |
| Persistence pool (`workers/worker_pool.py`, `event_processor.py`, `failure_handler.py`, `retry.py`, `events/kafka_producer.py`, `db/writer.py`) | per worker: message in hand, attempt; group: assignment, positions, committed offsets; `flight_events`, `active_flights`; Redis idempotency keys | fetch, check key, write, forward, set key, dead-letter, commit, crash, restart | one consumer group, shared tables, shared keys | nothing committed is lost; the store is ahead of the topic; a row never goes back in time |
| Graph engine (`graph/engine.py`) | the directed graph: attributes, `aircraft_turn` and `gate_reuse` edges, insertion order | add flight, add edges, load, propagate, resolve conflicts, prune (called by nothing) | called by the worker below | conflicts have edges and get resolved; a delay reaches what it should, and no more |
| Delay propagation worker (`workers/delay_propagation_worker.py`) | the graph, message in hand, predictions still to publish, offsets | apply, publish one by one, dead-letter, commit, crash, restart; process restart | processed-flights, delay-predictions, `active_flights` at start | as the pool: nothing committed without its outcome |
| Supervisor and shutdown (`workers/supervisor.py`, `server.py` 269-395) | one task per worker, counters, Kafka clients, `_stopping` | catch a crash, close, wait, restart; cancel, await, close | asyncio tasks and cancellation | no worker lost or resurrected, no client leaked |
| REST and cache-aside (`server.py` 227-254, `cache/`, `db/reader.py`) | Redis entries with a TTL | get, miss, load, fill | shared with the pool's writes | an answer is old by a TTL and a fill at most; entries become right |
| WebSocket hub (`server.py` 398-549, `websocket/`) | shared bounded history; per connection: filter, outbox, consumer | snapshot, replay, stream, heartbeat, subscribe, disconnect | topic and shared history | the stream is complete and each flight's part of it in order; connections and consumers end when and only when they should |
| Browser hook (`frontend/src/hooks/useFlightData.js`) | flights map, pending batch, connection state | apply, batch, reconnect, watchdog | the WebSocket | the maps converge to what was published and the connection comes back |
| Predictor, configuration, metrics, DLQ reader, scripts | - | - | - | outside: numeric, constant or read-only |

Hard behaviours: a rebalance hands a partition over while its old owner still
works on a message; a commit without arguments covers whatever is owned by then;
any of five awaited calls per message fails, with or without its effect; a
producer retry duplicates; the graph changes before anything is published; a
restart of the worker keeps the graph and one of the process rebuilds it from
rows; a crash, its cleanup and a shutdown meet; a cached value is older than the
row it was read from; a message reaches a browser from a snapshot, a shared history
and a stream, over connections that end at one end before the other. `PROJECT.json` lists these
hazards line by line with the properties that cover them.

## Modules

| module | models | state against the code |
|---|---|---|
| `DeliveryContract` | the promise of both consumers: an offset is acknowledged only over settled messages, and neither fact is taken back | abstract: `settled`, `acked` |
| `PersistencePool` | `Worker.run` and everything it calls | `pc[w]` is the await `run()` is suspended at, `cur[w]` its `message`, `attempt[w]` the loop variable of `retry_with_backoff`; `owner`, `pos`, `committed` are the group coordinator's and the consumers'; `rows`, `active`, `idem`, `forwarded`, `dlq` are the tables, keys and topics |
| `GraphEngine` | `GraphEngine` of the code as operators from a graph value to a graph value; no method awaits | `order`, `adj` keep networkx's insertion orders, `link` the one edge per ordered pair |
| `DelayPropagation` | `DelayPropagationWorker.run` and its processor, over `GraphEngine` | `graph` is `graph_engine.graph`, `outbox` the publishes that `process()` still has before it |
| `Supervisor` | `_supervised_loop`, `Supervisor.stop`, `Worker.start/stop` as they treat clients, `shutdown()` | `loop[w]` is the await the task is at, `open[w]` the two client attributes, `cut` the workers whose `stop()` did not finish, `server` the place in `shutdown()` |
| `StaleReads` | the promise of the cached endpoints: no answer is older than a bound, and "not found" is never old | abstract: `rows`, `answer` |
| `CacheAside` | `get_or_set()` under the three cached endpoints, against `write_events()` | `req[r]` is the await a call is at, with the value it has read; `cache` is Redis with the time an entry has left; `rows[k]` is what the query of a key has returned over time |
| `WebSocketHub` | `websocket_endpoint()` from accept to return, and its four tasks | `phase[c]` is where the endpoint is, `outbox`, `filter`, `replay` its local variables, `history` is `recent_ws_messages`, `consumers` the started Kafka consumers, `sent` the socket |
| `FlightDataHook` | `useFlightData()` composed with `WebSocketHub`, whose client actions it replaces | `socket`, `pending`, `wanted`, `ever` are the hook's refs, `ui` its four maps, `cut` the connections the network has dropped |
| `Ingestion` | `IngestionWorker.run()` over the live or the mock client | `source` is AeroAPI's records or the mock's flights, `todo` what is left of the poll, `topic` and `last` flight-events |
| `MC...` | the instances TLC runs | |
| `..._proofs` | the theorems and their proofs | |

Modelling decisions that matter:

- One action is one stretch of code between two awaits, together with the effect
  of the call it awaits. A failing call is a second action which may or may not
  have had its effect (a lost answer), where the callee can do so.
- `Log` holds what is ever published to a consumed topic. Partition, flight and
  timestamp are all an event keeps in the pool; the graph adds aircraft, gate,
  schedule and delay. Field contents that nothing here decides upon, wording,
  metrics and the backpressure delay are left out.
- Kafka is modelled as the code uses it: positions, committed offsets, an
  assignment that can change between any two steps, no ordering beyond append
  within a partition. Publishing is keyed by `flight_id`, so a partition has all of
  a flight or nothing of it: `KeyAssumption` in the pool, `Home` in the hub.
  A commit by a worker that no longer owns anything has no effect; one that the
  broker refuses is a crash of `run()`. PostgreSQL transactions are atomic.
- In the supervisor a cancelled task has one step left, its end, because nothing
  in the code keeps a `CancelledError`. `wait_for` has no effect of its own while
  `stop()` awaits a task: it cancels that task again and `stop()` goes on when
  the task has ended.
- In `CacheAside` a value is the number of the write that made it and has an age,
  the ticks since the next write replaced it; the newest has none. Time is counted
  in ticks because a TTL compares with nothing else. `Slow` bounds the ticks a
  value spends between the query and the SET: the code sets no limit there, and
  the bound of the promise names it.
- In `WebSocketHub` a message is the number of an entry of `Feed`, all that the
  predictor is going to publish; of an entry only the flight, its source, and
  whether it moves a gate or a delay are kept, which is what the filter and the
  classification look at. The graph reflects an entry before it is in the topic.
  An entry is in the partition of its flight, and a position in a partition is the
  last entry before it; a consumer starts at the end of every partition and may
  read any of them next, so two flights have no order, and two connections may get
  them in different ones. The ends are found together, as `start()` returns.
  Streamer, heartbeat, receiver and sender interleave freely; the one that ends
  turns the endpoint to `ending`, after which the others may still take a step.
- In `FlightDataHook` a connection is one of `Conns`, never used again, and
  `Connect` takes a fresh one. Either end may stay on a connection that carries
  nothing. Heartbeats are left to `Silent`: a connection that carries messages
  carries one every 30 s, the watchdog waits longer, so it acts on a connection
  that carries nothing. Of the server's failures the consumer's is the one kept
  in the composition; the others are checked in the hub alone.
- In `Ingestion` a flight's content is a revision number, and the clock counts
  polls: two polls never share a `datetime.now()`.
- Where a result depends on an order the code leaves open, every order is a choice:
  `Load` takes rows of one `last_updated` in any order.
- An aiokafka client that is told to stop marks itself closed first and ignores any
  further `stop()`. So a client whose `stop()` is cut short, by an exception, a
  cancellation or the time limit, may be lost whatever is called later: `leaked`
  has it, and `cut` its worker. Nothing in an action reads either.

## Runs

Bounds: every injected fault (failed call, crash, unforced rebalance, expiry,
process restart) counts against `MaxFaults`, except in `CacheAside`, where failures
are free; `Log` and `Feed` are finite, and `MaxWrites`, `MaxFrames`, `MaxBeats` and
`MaxClock` bound the writes, unread frames, heartbeats and polls told apart.
Nothing else is bounded. They are enough for what the properties are about:

- `MaxAttempts` is 2 instead of 3: the retry loop has a first, a last and no
  different middle attempt. Two workers and two partitions let a commit concern a
  partition other than the message's.
- Three flights let a conflict move along a chain. With three gates for them some
  orders of the messages leave a conflict without a gate, and others, in which a
  flight moves out of the others' way first, resolve one with a gate to spare.
  Four flights let a delay arrive over paths of different lengths.
- Three faults are a crash, its failed cleanup and a failed restart.
- Two requests on one key fill over each other; `Ttl` 2 and `Slow` 1 let an entry
  be hit at two ages and a fill span a tick; two writes let a fill be two versions
  late.
- Two connections share the history. The three entries of `hub_streams` are two of
  one partition, whose order counts, and one of another, which may be read at any
  place among them; one client sets a filter and sends what is not JSON, the other
  sits through a heartbeat. Neither sends JSON that is not an object there, so
  `ConnectionsEndForAReason` is checked without its exception (the theorem has it).
  The run begins with all three entries in the graph, as those of one event are
  before the first is published (none of its properties is about a snapshot), and
  the second client comes once something is published, while the first may come at
  any moment.
- Two connections of one hook are one that fails and one to return to; a batch of
  2 is smaller than what a connection can deliver.

| run | instance | shows |
|---|---|---|
| `pool_two_partitions` | 2 workers, 2 partitions, one active row, a message that does not parse, 2 faults | `PositionMatchesHand`, `CommittedIsSettled`, `ForwardedIsStored`, `ActiveIsNewest` |
| `pool_republish` | 1 partition, an event published twice around one that does not parse, 4 faults: enough to end both loops | `TypeOK`, `CacheHitMeansProcessed`, `DuplicatesArePaidFor`, `ContractHolds`, `EventuallyDrained` |
| `graph_gates` | 3 flights, 3 gates, of which the passes use up all or leave one, 2 partitions, 2 faults | `TypeOK`, `GateConflictsAreLinked`, `GateConflictsAreResolved`, `ContractHolds` |
| `graph_turns` | 4 flights changing aircraft, a message that does not parse, 2 faults: enough to end the loop | `DelayReachesEveryFlight`, `PropagationIsContained`, `EventuallyDrained` |
| `supervision` | 2 + 1 workers, 3 faults | `TypeOK`, `RestartsMatchFailures`, `RunsOnOpenClients`, `LeaksTakeACutStop`, `CleanShutdown`, `StoppedLoopsEnd`, `ShutdownEnds` |
| `cache_aside` | 2 requests, a flight's row and its list of delays, 2 writes of each | `TypeOK`, `EntriesExpireInTime`, `ContractHolds` (of `StaleReads`), `CacheCatchesUp` |
| `hub_streams` | 2 connections, 2 partitions, a delay, its propagation and an update, history of 1, one connection failing | `StreamIsFaithful`, `ConsumersEndWithConnections`, `ConnectionsEndForAReason` |
| `live_map` | one hook, 2 connections one of which may fail, a delay and a gate change, history of 1 | `HookTypeOK`, `MapsConverge`, `OnlyReplayGoesBack`, `UpdatesReachTheMap` |
| `live_focus` | the same with one message and a user who subscribes and unsubscribes | `SubscriptionAgrees`, `AlwaysReconnects`, `EndpointsEnd` |
| `ingestion` | 2 flights, either client, 3 polls told apart, 2 faults | `TypeOK`, `KeysIdentifyContents`, `NewestArrives` |

Each remaining run checks one sentence of the documentation and finds the code
not keeping it; the quotations are under `findings` in `PROJECT.json`.

| run | sentence | what happens |
|---|---|---|
| `supervisor_restart` | a crashed worker is restarted for ever | a failed `start()` ends the loop |
| `live_map_gap` | snapshot and history cover what a late client missed | an entry published after the snapshot and before the client's consumer starts, while nobody else is connected, reaches neither |

More of the kind shows in the models and has no run:

- pool: a failed send that was appended, or a redelivery to the other worker, puts
  an older event behind a newer one on processed-flights (`ForwardFails`); a failed
  GET dead-letters an event that was never stored (`CacheFails`); a dead-letter
  that fails is dropped, its offset committed (`DeadLetterFails`: `Settled` counts
  both as outcomes);
  `errors_processed` starts over with every restart of a worker, because `start()`
  makes a new `FailureHandler`.
- graph: an update keeps the `aircraft_turn` edges of an aircraft the flight no
  longer has (`AddFlight`); a `gate_reuse` edge moves a flight although the two
  gates differ by now (`ResolveEdge` compares schedules only); a second handling of
  a redelivered message can raise delays further (`Propagate`); the rows a
  restarted process loads lack both scheduled times (`Load`); one message can
  publish several predictions about one flight (`Predictions`); a message that is
  dead-lettered half way leaves raises and gate moves in the graph that nothing
  announces (`PublishFails`); a flight queued for propagation passes on the delay
  it had when it was queued, also if another path has raised it since (`BfsTurn`).
- supervisor: a message in hand is cancelled, not finished (`EndCancelled`);
  awaiting a task that had failed raises out of `shutdown()` (`AwaitTask`).
- cache: an answer can be older than the TTL, by the length of the fill that
  stored it (`Oldest`); a Redis call that raises fails the request
  (`RequestFails`), it does not fall back on the database.
- hub: a frame that is JSON but no object ends the connection (`Heed`); a record
  that does not parse ends every connection that streams it (`StreamFails`); a
  consumer outlives its endpoint if its `start()` or `stop()` raises (`StartFails`,
  `EndFails`).
- hook: the snapshot may be ahead of the topic, and the replay behind both, so a
  flight on the map can go back for a moment (`OnlyReplayGoesBack` says where).
- ingestion: every poll of the live client is stamped anew, so no repetition of
  its is recognized by the pool (`LiveSnapshot`).

Deadlock is checked in every run: `Quiescent`, `Gone` and `Resting` name the only
states in which a system may rest.

### Fairness

Weak fairness of a worker's step: the asyncio loop resumes a ready coroutine, and
client calls return or raise. Weak fairness of recovery: the supervisor's delay is
a finite sleep. Weak fairness of `RebalanceOrphans`: the broker assigns partitions
without an owner to a live member once the session of the old one has timed out.
For shutdown: a cancelled task is resumed, and closing a client ends. Faults,
unforced rebalances, arrivals of a stop and messages have no fairness, so a
liveness property never counts on them.

The cache: time passes, and a call to Redis or PostgreSQL returns or raises. The
hub, in the composition: each endpoint's tasks are resumed (`Serving`), the server
learns of a connection that is closed or dead (`Notice`), since TCP gives up on it.
The hook: timers fire and events are delivered (`HookStep`), accepting included
(`AcceptSocket`). What is published, said, wanted or broken has no fairness.
Ingestion: the poll loop is resumed; at the bound of the clock it goes on polling.

## Proofs

TLAPS checks, for any workers, partitions, logs, flights, connections and bounds:

| theorem | states |
|---|---|
| `DeliveryContract_proofs!ContractSettlesAcked` | what the abstract contract promises: every acknowledged message is settled |
| `PersistencePool_proofs!TypeCorrect` | `TypeOK` |
| `...!CommittedMessagesAreSettled` | `CommittedIsSettled` |
| `...!SkippedMessagesAreProcessed` | `CacheHitMeansProcessed` |
| `...!PositionsMatchHands` | `PositionMatchesHand` |
| `...!ActiveRowIsNewest` | `ActiveIsNewest` |
| `...!ForwardedEventsAreStored` | `ForwardedIsStored` |
| `...!CopiesArePaidFor` | `DuplicatesArePaidFor`: copies on processed-flights of one `(flight_id, timestamp)`, published once or repeatedly (what is stored more than once is the tables' to refuse, and not counted) |
| `...!PoolImplementsContract` | `ContractHolds`: `Spec` implements `DeliveryContract` under the refinement mapping `acked <- committed`, `settled <-` the messages with an outcome |
| `DelayPropagation_proofs!TypeCorrect` | `TypeOK`, with the graph's shape |
| `...!ConflictsStayLinked` | `GateConflictsAreLinked` |
| `...!ConflictsAreResolved` | `GateConflictsAreResolved` |
| `...!DelaysAreComplete` | `DelayReachesEveryFlight`, for any number of hops |
| `...!PropagationStaysContained` | `PropagationIsContained` |
| `...!WorkerImplementsContract` | `ContractHolds`, with the same mapping |
| `Supervisor_proofs!TypeCorrect` | `TypeOK` |
| `...!CountersAgree` | `RestartsMatchFailures` |
| `...!RunningClientsAreOpen` | `RunsOnOpenClients` |
| `...!LostClientsWereCut` | `LeaksTakeACutStop`: for any number of crashes, restarts and cancellations |
| `...!ShutdownIsClean` | `CleanShutdown` |
| `CacheAside_proofs!TypeCorrect` | `TypeOK`, for any keys, requests, `Ttl` and `Slow` |
| `...!StalenessIsBounded` | `EntriesExpireInTime` |
| `...!CacheKeepsPromise` | `ContractHolds`: `Spec` implements `StaleReads` with the bound `Ttl + Slow` |
| `WebSocketHub_proofs!ConsumersAreStopped` | `ConsumersEndWithConnections` |
| `...!EndsHaveReasons` | `ConnectionsEndForAReason` |
| `...!StreamsAreFaithful` | `StreamIsFaithful`: partition by partition, for any number of them |
| `FlightDataHook_proofs!HookTypeCorrect` | `HookTypeOK` |
| `...!HookRefinesHub` | `HookSpec => Spec`: the client that `useFlightData()` is, on any network, is one `WebSocketHub` allows, so what is proved of the hub holds of the composition |
| `...!SubscriptionsAgree` | `SubscriptionAgrees` |
| `...!MapsAreCurrent` | `MapsConverge` |
| `...!MapsGoForward` | `OnlyReplayGoesBack` |
| `Ingestion_proofs!TypeCorrect` | `TypeOK` |
| `...!KeysAreSafe` | `KeysIdentifyContents` |

So every invariant of a passing run is proved, and every property of one that is
not about liveness.

### Assumptions

The proofs rest on the named assumptions of the modules and on nothing else; TLC
evaluates them in the runs.

- `PersistencePool`: `Log` maps partitions to sequences of events, all events of
  one `flight_id` are in one partition, `MaxAttempts` is positive, `None` is not a
  value of anything else.
- `GraphEngine`, `DelayPropagation`: the gate pool is a sequence of gates, there
  are finitely many flights and partitions, `Log` and `Snapshot` are sequences of
  events, `Garbage` and `None` are not events. A Python dictionary is finite; the
  search below needs it.
- `Supervisor`: the pools are sequences that are not empty and between them hold
  every worker.
- `CacheAside`: `Lists` and `Touched` are made of keys, `Ttl` is positive, `None`
  is neither an entry nor an answer.
- `WebSocketHub`: `Feed` is a sequence of predictions, every flight has a
  partition, the history holds at least
  one message, frames are what `receiver()` tells apart.
- `FlightDataHook`: the batch holds at least one message, there are finitely many
  connections, more than can fail, and a client may send what the hook sends.
- `Ingestion`: `Listing` is a sequence of flights, the clock has a bound.

### Arguments

**Pool.** `CommittedIsSettled` is not inductive, since `Commit` advances to the
owner's position and says nothing of the messages in between. The invariant `IInv`
adds that a position is at most one past the committed offset, and then its owner
has that very message in hand (`PositionMatchesHand`), that a message in hand at
`commit` is settled (`HandMatchesLabel`), that committed offsets stay within the
log, and that a cached key means a stored and forwarded event
(`CacheHitMeansProcessed`), which is what settles a skipped message. What makes
the argument go through under rebalances is that `Assign` resets every position
to the committed offset, so a worker that lost its partition commits nothing for
it. `ActiveIsNewest` has an invariant of its own over `rows` and `active`.
`ForwardInv` says of a worker about to forward what `ForwardedIsStored` says of a
forwarded event (`InTables`), and no step takes it back, since tables only grow.
`CopiesInv` counts for each idempotency key: the copies that are there, the workers a
rebalance or a new owner left behind with the event (`Stale`), and what the
partition's owner may still add (`Owes`) are together at most one more than the
faults so far. The owner owes a copy while it is past the check with the event, or
while the key is not set (`MayForward`), and one more while an orphan elsewhere is
about to bring a rebalance that would make the owner one of those left behind
(`Again`): the crash that made the orphan has paid for it. Publishing turns a copy
owed or held into one that is there (`PublicationStep`), every other step adds to
the sum only what it injects of faults (`OwesStep`); that all events of a key are in
one partition is what keeps two owners from owing it. The proof that a step keeps an invariant has one lemma per kind of step; the refinement
needs besides that no action unsettles a message.

**Predictor.** `IInv` is the pool's idea with one worker: the position is at most
one ahead of the commit and then the message is in hand (`OneAhead`), what the
outbox holds is what that message still owes (`OutboxInv`), and at `commit` nothing
is owed (`CommitInv`).

**Graph.** A graph is `Shaped` when successor lists and edge types describe the same
edges, `Sound` when also every two flights in conflict have an edge. Adding a flight,
resolving and propagating keep a sound graph sound, and a load builds one, so the
runs' invariants follow whatever the messages were. That conflicts are resolved goes
through the successors in order: an edge that is `Done` (gone, without an overlap, or
met when no gate was free) stays so, because a later turn only moves gates, removes
edges and uses up gates (`Keeps`, `Later`).
For the delays there are two facts about one turn of the search. `Level` says that
the queue holds entries of L hops and then of L + 1, each with at least the delay
decayed once per hop, that visited flights have theirs and lead to flights visited or
queued, and that whoever is within L hops is visited or queued at L; when the queue
is empty, whoever can be reached is visited (`DelaysReach`). `Contained` says that no delay exceeds the largest before the
search and no flight is touched that no path leads to. That the search ends: `Work`,
the length of the queue plus the number of flights for each one not visited, falls
with every turn, and `Turns` are enough for where it starts. `ReachInv` carries the
result from the step that applies an event to the last prediction published, since
nothing changes the graph in between.

**Supervisor.** `TypeInv` adds to the types that the shutdown has a supervisor in
hand exactly while it is under way (`PhaseOK`). `CountInv` relates each counter to
the place of the loop. `RunsOnOpenClients` needs that `stop()` closes the clients of
workers only that are cancelled or have ended (`StoppedAreCancelled`), and that an
ended loop stays so. A client is lost in two ways: by a `stop()` cut short, which
puts its worker in `cut`, or by a `start()` that replaces one that is open.
`LeakInv` adds that a worker between its cleanup and its restart has none open
unless it is in `cut`, so the second way needs the first. `CleanShutdown` follows the
two loops of `shutdown()`: the workers up to the index have ended
(`AwaitedHaveEnded`), those swept are closed or in `cut` (`SweptAreClosed`), and the
shared clients come last (`SharedComeLast`).

**Cache.** `EntriesExpireInTime` says nothing of a value that a request has read and
not yet stored. `IInv` adds that such a value is out of date no longer than the
request has held it (`FillsAreRecent`), that the newest value is not out of date
(`NewestIsFresh`), which is what a load gives a request, and that what is cached was
found (`CachedWasFound`), which is why "not found" is never answered from the cache.
A tick adds one to an age and to the time spent and takes one from the time left; a
write changes no value that is there. The refinement follows: an answer from the
cache has a tick left, so its age is below the bound, and one from a fill is no
older than `Slow`.

**Ingestion.** `StampInv` is about all events that are out: published or waiting in
the poll. Two of one flight and one stamp have one revision (`OutIdentified`). For
the live client that needs that stamps are of polls before, or of this one and then
of the source as it is (`LiveInv`); for the mock, that stamp and revision move
together (`MockInv`).

**Hub.** `ControlInv` says that an endpoint that has no tasks yet has no consumer
and one that has them has one, so an early end leaves nothing behind. `StreamInv`
says that what was written followed by what waits in the outbox is `Faithful` to what
was read of each partition, and that before the stream starts neither holds anything
live. Reading the next entry of one partition leaves what was read of the others as
it is (`NextOf`), and that entry is newer than all of its own. The stream is proved for
every filter the client had while a message passed (`filters`), not for the last.

**Hook.** `HookStepIsHubStep` maps every action of the composition to one of the hub
or to a stutter. `AskInv`: while the server can still be reached, the last unread
frame, or the filter if there is none, is what the user wants. `LineInv`: what is
written on a connection is ordered, and what waits in its outbox is live. `TrackInv`:
the batch ends with what arrived on the connection, and the maps show what of it was
applied; with nothing left to arrive or to apply, `ConvergeAt` says that each map has
the newest: all entries of a flight are of one partition, so the last of them to
arrive is the newest. `RiseInv`: of each flight, everything on its way
from the topic to the maps (outbox, socket, batch) is in an order in which only a
replayed message may be older than what stands before it, an update is newer than
anything shown or replayed, a snapshot no older than any earlier state, and nothing
is from beyond what has been read of the flight's partition. A batch without a replayed message then takes the maps
forward, by induction over the batch (`Stage`, `BatchRaises`).

The inductions over data (the folds over messages, the loops over successors, the
turns of the search, a batch) use no induction theorem with an operator for its
parameter. `Least` and `Induct` get induction over a *set* of numbers from the
well-foundedness of `Nat`; `Iteration` gets from it that a recursive function over
`0..n` exists and what it returns. That is why loops are recursive functions or folds
in the modules that have proofs.

Model-checked only: `EventuallyDrained` (both), `StoppedLoopsEnd`, `ShutdownEnds`,
`CacheCatchesUp`, `UpdatesReachTheMap`, `EndpointsEnd`, `AlwaysReconnects` and
`NewestArrives`. They are liveness properties under fairness, which needs `ENABLED`;
the prover has no support for it.

## Not modelled

- `prune_expired_flights` and `cleanup_stale_active_flights`: no code calls them.
- Backpressure: a sleep between two awaits that are separate steps already. That
  `lag()` may raise for a revoked partition is one of the reasons of `Crash`.
- The two periodic metrics tasks, but for an exception of theirs that ends
  `shutdown()` (`ShutdownFails`); startup before the supervisors exist; the two
  producers that `startup()` opens for the workers (server.py 300-303), which belong
  to no worker and which `shutdown()` does not stop: `CleanShutdown` is about the
  workers' own clients.
- A restart of the server in the hub and the composition: a reconnect to a process
  that has rebuilt its graph may bring a snapshot older than what is on the map,
  and the history is empty again.
- The predictor's arithmetic: it returns, or it raises (`ReceiveUnpredicted`,
  `PublishFails`).
- Cache: `invalidate()`, which nothing calls; the configuration, health and metrics
  endpoints, which keep no state. The queries are the tables' content at the moment
  they run.
- Hook: the discovery of the airport before the first connection and the
  `hardFailure` flag, which decide what is rendered; the components themselves.
  Closing codes are not told apart: the hook does not.
- Ingestion: a restart of its process, which begins another poll; that the
  `flight_id` of a record without `fa_flight_id` is its ident, which may come again
  on another day (it is taken as the flight's own here).
- The components with status `not_modelled`: the predictor's arithmetic, the
  dead-letter reader, constants and metrics, and the scripts, which drive the
  system from outside. `PersistencePool` takes the ingestion worker's output as
  `Log`, `DelayPropagation` the pool's, `WebSocketHub` the predictor's as `Feed`.

## Plan

Done: every module above, and the proofs of all that its runs check but liveness.

Next, `Pipeline`: the contracts of the pool and of the predictor one behind the
other, from an event that is ingested to its prediction, with faults on both
sides. Today each stage is checked against any input its bound allows, and both
are proved to implement `DeliveryContract`, so the composition adds only the
end-to-end statement, which can be proved from the contracts alone.
