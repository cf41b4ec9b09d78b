-------------------------- MODULE PersistencePool --------------------------
(***************************************************************************)
(* The persistence pool: Workers of one Kafka consumer group read          *)
(* flight-events, check the Redis idempotency key, write PostgreSQL,       *)
(* forward to processed-flights, set the key, and commit the offset        *)
(* whether the message succeeded or was dead-lettered.  Source:            *)
(* flight_tracker/workers/{worker_pool,event_processor,failure_handler,    *)
(* retry,supervisor}.py, events/kafka_producer.py, db/writer.py.           *)
(*                                                                         *)
(* Every await is a point where another worker may run, so a handler is    *)
(* one action per awaited call.  The broker (group membership, committed   *)
(* offsets, topics), PostgreSQL and Redis are modelled as the code uses    *)
(* them.  Log is what ingestion ever publishes; a consumer that has not    *)
(* reached a message cannot tell it from one not published yet.            *)
(***************************************************************************)
EXTENDS Integers, Sequences, FiniteSets

CONSTANTS
    Workers,        \* worker_count coroutines of one pool
    Partitions,     \* partitions of flight-events (and of processed-flights)
    Flights,        \* flight_id values
    FlightKeys,     \* flight_key values, the primary key of active_flights
    Log,            \* Log[p]: the messages published to partition p, in order
    MaxAttempts,    \* worker_retry_max_attempts
    MaxFaults,      \* bound on injected faults, of any kind
    None

Event ==
    [flight_id : Flights, flight_key : FlightKeys, timestamp : Nat,
     valid : BOOLEAN]    \* valid: the payload parses as a FlightEventEnvelope

ASSUME LogAssumption == Log \in [Partitions -> Seq(Event)]
ASSUME BoundsAssumption == MaxAttempts \in Nat \ {0} /\ MaxFaults \in Nat

\* The message at offset n of partition p is <<p, n>>; offsets start at 1,
\* so a committed offset is also the number of messages it covers.
Messages == UNION {{p} \X (1..Len(Log[p])) : p \in Partitions}
EventOf(m) == Log[m[1]][m[2]]
IdemKey(m) == <<EventOf(m).flight_id, EventOf(m).timestamp>>
RowKey(e) == <<e.flight_id, e.timestamp>>

\* Ingestion publishes with the flight_id for the key: a partition has all
\* messages of a flight_id it has one of.
ASSUME KeyAssumption ==
    \A m, n \in Messages : EventOf(m).flight_id = EventOf(n).flight_id => m[1] = n[1]

VARIABLES
    pc,             \* pc[w]: where worker w's run() is
    cur,            \* cur[w]: the message w holds
    attempt,        \* attempt[w]: attempt number of the retried call
    error,          \* error[w]: why w's message failed
    owner,          \* owner[p]: the group member partition p is assigned to
    pos,            \* pos[p]: its owner's position, messages handed out
    committed,      \* committed[p]: the group's committed offset
    rows,           \* flight_events
    active,         \* active_flights: the event each row was last set from
    idem,           \* idempotency keys present in Redis
    forwarded,      \* processed-flights: offsets of the forwarded messages
    dlq,            \* dead-letter-events
    dropped,        \* messages whose dead-lettering itself failed
    faults          \* faults injected so far

workerVars == <<pc, cur, attempt, error>>
groupVars == <<owner, pos, committed>>
storeVars == <<rows, active, idem, forwarded, dlq, dropped>>
vars == <<workerVars, groupVars, storeVars, faults>>

Reasons == {"parse", "cache", "db", "kafka"}
Busy == {"check", "write", "forward", "remember", "deadletter", "commit"}
Gone == {"down", "dead"}

ASSUME NoneAssumption == None \notin Workers \cup Event \cup Messages \cup Reasons

Live == {w \in Workers : pc[w] \notin Gone}

TypeOK ==
    /\ pc \in [Workers -> {"idle"} \cup Busy \cup Gone]
    /\ cur \in [Workers -> Messages \cup {None}]
    /\ attempt \in [Workers -> 1..MaxAttempts]
    /\ error \in [Workers -> Reasons \cup {None}]
    /\ owner \in [Partitions -> Workers \cup {None}]
    /\ pos \in [Partitions -> Nat]
    /\ committed \in [Partitions -> Nat]
    /\ rows \subseteq Event
    /\ active \in [FlightKeys -> Event \cup {None}]
    /\ idem \subseteq Flights \X Nat
    /\ forwarded \in [Partitions -> Seq(Nat)]
    /\ dlq \subseteq [msg : Messages, reason : Reasons]
    /\ dropped \subseteq Messages
    /\ faults \in 0..MaxFaults

Init ==
    /\ pc = [w \in Workers |-> "idle"]
    /\ cur = [w \in Workers |-> None]
    /\ attempt = [w \in Workers |-> 1]
    /\ error = [w \in Workers |-> None]
    /\ owner = [p \in Partitions |-> None]
    /\ pos = [p \in Partitions |-> 0]
    /\ committed = [p \in Partitions |-> 0]
    /\ rows = {}
    /\ active = [k \in FlightKeys |-> None]
    /\ idem = {}
    /\ forwarded = [p \in Partitions |-> <<>>]
    /\ dlq = {}
    /\ dropped = {}
    /\ faults = 0

Fault == faults < MaxFaults /\ faults' = faults + 1

----------------------------------------------------------------------------
(* One message through Worker.run() and process_flight_event().            *)

\* w's coroutine moves to label l with the same message in hand.
Goto(w, l) ==
    /\ pc' = [pc EXCEPT ![w] = l]
    /\ attempt' = [attempt EXCEPT ![w] = 1]
    /\ UNCHANGED cur

Advance(w, l) == Goto(w, l) /\ UNCHANGED error

\* process_flight_event caught an exception (or from_json raised one).
Fail(w, why) ==
    /\ Goto(w, "deadletter")
    /\ error' = [error EXCEPT ![w] = why]

\* Mutation of MayRetry: one attempt too many.
MayRetryOneMore(w) == attempt[w] <= MaxAttempts

MayRetry(w) == attempt[w] < MaxAttempts

\* @retry_with_backoff: the same call again, or the exception is re-raised.
Retry(w) ==
    /\ MayRetry(w)
    /\ attempt' = [attempt EXCEPT ![w] = @ + 1]
    /\ UNCHANGED <<pc, cur, error>>

RetryOrFail(w, why) == Retry(w) \/ (~MayRetry(w) /\ Fail(w, why))

\* Mutation of Fetch: from_json outside the try, so that poison ends run().
FetchParsingOutsideTry(w, p) ==
    /\ pc[w] = "idle" /\ owner[p] = w /\ pos[p] < Len(Log[p])
    /\ IF EventOf(<<p, pos[p] + 1>>).valid
         THEN /\ pc' = [pc EXCEPT ![w] = "check"]
              /\ cur' = [cur EXCEPT ![w] = <<p, pos[p] + 1>>]
              /\ pos' = [pos EXCEPT ![p] = @ + 1]
              /\ UNCHANGED owner
         ELSE /\ pc' = [pc EXCEPT ![w] = "down"]
              /\ owner' = [q \in Partitions |-> IF owner[q] = w THEN None ELSE owner[q]]
              /\ UNCHANGED <<cur, pos>>
    /\ UNCHANGED <<attempt, error, committed, storeVars, faults>>

\* async for message in self._consumer, then from_json: a payload that does
\* not parse goes straight to the dead-letter path.
Fetch(w, p) ==
    /\ pc[w] = "idle"
    /\ owner[p] = w
    /\ pos[p] < Len(Log[p])
    /\ LET m == <<p, pos[p] + 1>> IN
         /\ cur' = [cur EXCEPT ![w] = m]
         /\ pos' = [pos EXCEPT ![p] = @ + 1]
         /\ IF EventOf(m).valid
              THEN /\ pc' = [pc EXCEPT ![w] = "check"]
                   /\ UNCHANGED error
              ELSE /\ pc' = [pc EXCEPT ![w] = "deadletter"]
                   /\ error' = [error EXCEPT ![w] = "parse"]
    /\ UNCHANGED <<attempt, owner, committed, storeVars, faults>>

CacheHit(w) ==
    /\ pc[w] = "check"
    /\ IdemKey(cur[w]) \in idem
    /\ Advance(w, "commit")
    /\ UNCHANGED <<groupVars, storeVars, faults>>

\* Mutation of CacheMiss: the key is set when it is checked.
CacheMissClaiming(w) ==
    /\ pc[w] = "check"
    /\ IdemKey(cur[w]) \notin idem
    /\ idem' = idem \cup {IdemKey(cur[w])}
    /\ Advance(w, "write")
    /\ UNCHANGED <<groupVars, rows, active, forwarded, dlq, dropped, faults>>

\* Mutation of CacheMiss: published before it is written.
CacheMissForwardingFirst(w) ==
    /\ pc[w] = "check"
    /\ IdemKey(cur[w]) \notin idem
    /\ Advance(w, "forward")
    /\ UNCHANGED <<groupVars, storeVars, faults>>

CacheMiss(w) ==
    /\ pc[w] = "check"
    /\ IdemKey(cur[w]) \notin idem
    /\ Advance(w, "write")
    /\ UNCHANGED <<groupVars, storeVars, faults>>

\* redis.get raised: caught by process_flight_event like any other failure.
CacheFails(w) ==
    /\ pc[w] = "check"
    /\ Fault
    /\ Fail(w, "cache")
    /\ UNCHANGED <<groupVars, storeVars>>

\* Mutation of WriteEvents: no staleness guard on the upsert.
WriteEventsUnguarded(e) ==
    /\ rows' = IF \E r \in rows : RowKey(r) = RowKey(e)
                 THEN rows ELSE rows \cup {e}
    /\ active' = [active EXCEPT ![e.flight_key] = e]

\* The transaction of write_events: the row is inserted unless its
\* (flight_id, captured_at) exists, the active row is replaced only by a
\* strictly newer event.
WriteEvents(e) ==
    /\ rows' = IF \E r \in rows : RowKey(r) = RowKey(e)
                 THEN rows ELSE rows \cup {e}
    /\ active' = IF \/ active[e.flight_key] = None
                    \/ active[e.flight_key].timestamp < e.timestamp
                   THEN [active EXCEPT ![e.flight_key] = e] ELSE active

Write(w) ==
    /\ pc[w] = "write"
    /\ WriteEvents(EventOf(cur[w]))
    /\ Advance(w, "forward")
    /\ UNCHANGED <<groupVars, idem, forwarded, dlq, dropped, faults>>

\* write_events raised; the transaction may have committed all the same
\* (the connection was lost before the answer).
WriteFails(w) ==
    /\ pc[w] = "write"
    /\ Fault
    /\ RetryOrFail(w, "db")
    /\ WriteEvents(EventOf(cur[w])) \/ UNCHANGED <<rows, active>>
    /\ UNCHANGED <<groupVars, idem, forwarded, dlq, dropped>>

\* The message goes to the partition its flight_id hashes to: its own.
Publish(m) ==
    forwarded' = [forwarded EXCEPT ![m[1]] = Append(@, m[2])]

Forward(w) ==
    /\ pc[w] = "forward"
    /\ Publish(cur[w])
    /\ Advance(w, "remember")
    /\ UNCHANGED <<groupVars, rows, active, idem, dlq, dropped, faults>>

\* send_and_wait raised, the record appended or not.  A KafkaError is
\* retried as a new send; any other exception is not.
ForwardFails(w) ==
    /\ pc[w] = "forward"
    /\ Fault
    /\ RetryOrFail(w, "kafka") \/ Fail(w, "kafka")
    /\ Publish(cur[w]) \/ UNCHANGED forwarded
    /\ UNCHANGED <<groupVars, rows, active, idem, dlq, dropped>>

\* Mutation of Remember: the key is not set.
RememberNothing(w) ==
    /\ pc[w] = "remember"
    /\ Advance(w, "commit")
    /\ UNCHANGED <<groupVars, storeVars, faults>>

Remember(w) ==
    /\ pc[w] = "remember"
    /\ idem' = idem \cup {IdemKey(cur[w])}
    /\ Advance(w, "commit")
    /\ UNCHANGED <<groupVars, rows, active, forwarded, dlq, dropped, faults>>

\* redis.set raised after the event was stored and forwarded.
RememberFails(w) ==
    /\ pc[w] = "remember"
    /\ Fault
    /\ Fail(w, "cache")
    /\ idem' = idem \cup {IdemKey(cur[w])} \/ UNCHANGED idem
    /\ UNCHANGED <<groupVars, rows, active, forwarded, dlq, dropped>>

\* FailureHandler.handle_failure.
DeadLetter(w) ==
    /\ pc[w] = "deadletter"
    /\ dlq' = dlq \cup {[msg |-> cur[w], reason |-> error[w]]}
    /\ Advance(w, "commit")
    /\ UNCHANGED <<groupVars, rows, active, idem, forwarded, dropped, faults>>

\* Its own publish fails, the record appended or not: the KafkaError is
\* printed and swallowed.
DeadLetterFails(w) ==
    /\ pc[w] = "deadletter"
    /\ Fault
    /\ dropped' = dropped \cup {cur[w]}
    /\ dlq' \in {dlq, dlq \cup {[msg |-> cur[w], reason |-> error[w]]}}
    /\ Advance(w, "commit")
    /\ UNCHANGED <<groupVars, rows, active, idem, forwarded>>

\* Mutation of CommittedBy: the message's own offset, its partition owned or not.
CommittedByHand(w) == [committed EXCEPT ![cur[w][1]] = cur[w][2]]

\* commit() without arguments: the position of every partition w owns now,
\* which need not include the one its message came from.
CommittedBy(w) ==
    [p \in Partitions |-> IF owner[p] = w THEN pos[p] ELSE committed[p]]

\* run() lets go of the message in hand and continues at l.
LetGo(w, l) ==
    /\ pc' = [pc EXCEPT ![w] = l]
    /\ cur' = [cur EXCEPT ![w] = None]
    /\ error' = [error EXCEPT ![w] = None]
    /\ attempt' = [attempt EXCEPT ![w] = 1]

\* Mutation of Commit: a dead-lettered message is not committed.
CommitSuccess(w) ==
    /\ pc[w] = "commit"
    /\ committed' = IF error[w] = None THEN CommittedBy(w) ELSE committed
    /\ LetGo(w, "idle")
    /\ UNCHANGED <<owner, pos, storeVars, faults>>

\* The offset is committed on success and on failure alike.
Commit(w) ==
    /\ pc[w] = "commit"
    /\ committed' = CommittedBy(w)
    /\ LetGo(w, "idle")
    /\ UNCHANGED <<owner, pos, storeVars, faults>>

----------------------------------------------------------------------------
(* What happens to a worker and to the group.                              *)

\* Mutation of LeaveGroup: a consumer that commits its position as it closes.
LeaveGroupCommitting(w) ==
    /\ owner' = [p \in Partitions |-> IF owner[p] = w THEN None ELSE owner[p]]
    /\ committed' = CommittedBy(w)
    /\ UNCHANGED pos

\* consumer.stop() with enable_auto_commit=False: w's partitions wait for a
\* new owner at their committed offsets.
LeaveGroup(w) ==
    /\ owner' = [p \in Partitions |-> IF owner[p] = w THEN None ELSE owner[p]]
    /\ pos' = [p \in Partitions |-> IF owner[p] = w THEN committed[p] ELSE pos[p]]
    /\ UNCHANGED committed

\* run() raises (commit refused, consumer error, a non-Kafka error out of
\* handle_failure), is cancelled, or the process is killed: the message in
\* hand is forgotten and w leaves the group.
Crash(w) ==
    /\ pc[w] \notin Gone
    /\ Fault
    /\ LetGo(w, "down")
    /\ LeaveGroup(w)
    /\ UNCHANGED storeVars

\* The supervised loop restarts a crashed worker ...
Restart(w) ==
    /\ pc[w] = "down"
    /\ pc' = [pc EXCEPT ![w] = "idle"]
    /\ UNCHANGED <<cur, attempt, error, groupVars, storeVars, faults>>

\* ... unless start() itself raises, which ends the loop for good.
RestartFails(w) ==
    /\ pc[w] = "down"
    /\ Fault
    /\ pc' = [pc EXCEPT ![w] = "dead"]
    /\ UNCHANGED <<cur, attempt, error, groupVars, storeVars>>

\* A rebalance gives every partition to a live member, whose position
\* restarts at the committed offset.  Nothing waits for a message in hand.
Assign(a) ==
    /\ owner' = a
    /\ pos' = committed
    /\ UNCHANGED <<workerVars, committed, storeVars>>

RebalanceOrphans ==
    /\ \E p \in Partitions : owner[p] = None
    /\ \E a \in [Partitions -> Live] : Assign(a)
    /\ UNCHANGED faults

\* A rebalance nobody's absence asked for: a member joined, or one was slow.
RebalanceAnew ==
    /\ \A p \in Partitions : owner[p] # None
    /\ Fault
    /\ \E a \in [Partitions -> Live] : Assign(a)

\* The key's TTL passes, or Redis restarts without it.
Expire ==
    /\ Fault
    /\ \E k \in idem : idem' = idem \ {k}
    /\ UNCHANGED <<workerVars, groupVars, rows, active, forwarded, dlq, dropped>>

Drained == \A p \in Partitions : committed[p] = Len(Log[p])

\* Nothing left to read, or nobody left to read it.
Quiescent ==
    /\ \/ Drained /\ \A w \in Workers : pc[w] \notin Busy
       \/ Live = {}
    /\ UNCHANGED vars

Step(w) ==
    \/ \E p \in Partitions : Fetch(w, p)
    \/ CacheHit(w) \/ CacheMiss(w) \/ Write(w) \/ Forward(w)
    \/ Remember(w) \/ DeadLetter(w) \/ Commit(w)

Disturb(w) ==
    \/ CacheFails(w) \/ WriteFails(w) \/ ForwardFails(w) \/ RememberFails(w)
    \/ DeadLetterFails(w) \/ Crash(w)

Recover(w) == Restart(w) \/ RestartFails(w)

Next ==
    \/ \E w \in Workers : Step(w) \/ Disturb(w) \/ Recover(w)
    \/ RebalanceOrphans \/ RebalanceAnew \/ Expire
    \/ Quiescent

Spec == Init /\ [][Next]_vars

\* The event loop runs a ready coroutine eventually, the supervisor's delay
\* ends, and the broker assigns an orphan partition to a live member.
Fairness ==
    /\ \A w \in Workers : WF_vars(Step(w)) /\ WF_vars(Recover(w))
    /\ WF_vars(RebalanceOrphans)

FairSpec == Spec /\ Fairness

----------------------------------------------------------------------------
(* Properties.                                                             *)

Stored(m) == \E r \in rows : RowKey(r) = IdemKey(m)

Forwarded(m) ==
    \E q \in Partitions : \E i \in 1..Len(forwarded[q]) :
        IdemKey(<<q, forwarded[q][i]>>) = IdemKey(m)

DeadLettered(m) == \E d \in dlq : d.msg = m

\* A message needs nothing more: its event is stored and forwarded, or it
\* was dead-lettered, or dead-lettering failed and the log line is all there is.
Settled(m) ==
    \/ Stored(m) /\ Forwarded(m)
    \/ DeadLettered(m)
    \/ m \in dropped

\* At-least-once: no message below a committed offset is left unsettled,
\* whatever rebalances, crashes and failed calls came between its fetch and
\* the commit.
CommittedIsSettled ==
    \A p \in Partitions : \A n \in 1..committed[p] : Settled(<<p, n>>)

\* event_processor.py:99-106: a cache hit means some worker fully processed
\* this (flight_id, timestamp), so the skipping worker may commit.
CacheHitMeansProcessed ==
    \A m \in Messages : EventOf(m).valid /\ IdemKey(m) \in idem
                          => Stored(m) /\ Forwarded(m)

\* processed-flights never runs ahead of the database: whoever reads a
\* forwarded event finds it in flight_events, and in active_flights it or
\* a newer one.
ForwardedIsStored ==
    \A p \in Partitions : \A i \in 1..Len(forwarded[p]) :
        LET e == EventOf(<<p, forwarded[p][i]>>) IN
        /\ Stored(<<p, forwarded[p][i]>>)
        /\ active[e.flight_key] # None
        /\ active[e.flight_key].timestamp >= e.timestamp

\* Whatever order workers write in, the active row is the newest stored one.
ActiveIsNewest ==
    /\ \A r \in rows : /\ active[r.flight_key] # None
                       /\ r.timestamp <= active[r.flight_key].timestamp
    /\ \A k \in FlightKeys : active[k] # None =>
          /\ active[k].flight_key = k
          /\ \E r \in rows : RowKey(r) = RowKey(active[k])

\* The places of processed-flights that have a copy of an event.
Copies(key) ==
    {c \in UNION {{p} \X (1..Len(forwarded[p])) : p \in Partitions} :
        IdemKey(<<c[1], forwarded[c[1]][c[2]]>>) = key}

\* Copies of an event, published to flight-events once or again and again,
\* are paid for by faults: without any, its (flight_id, timestamp) is
\* forwarded at most once (commit, fetch position and idempotency key
\* together, event_processor.py:99-124), and each fault adds one at most.
DuplicatesArePaidFor ==
    \A m \in Messages : Cardinality(Copies(IdemKey(m))) <= 1 + faults

\* The group's bookkeeping against the coroutines': an owner's position is
\* its committed offset, or one past it while that very message is in hand.
PositionMatchesHand ==
    \A p \in Partitions :
        \/ pos[p] = committed[p]
        \/ /\ owner[p] # None
           /\ pos[p] = committed[p] + 1
           /\ pc[owner[p]] \in Busy
           /\ cur[owner[p]] = <<p, pos[p]>>

HandMatches(w) ==
    /\ pc[w] \in Busy <=> cur[w] # None
    /\ pc[w] \in {"check", "write", "forward", "remember"}
          => EventOf(cur[w]).valid
    /\ pc[w] = "forward" => Stored(cur[w])
    /\ pc[w] = "remember" => Stored(cur[w]) /\ Forwarded(cur[w])
    /\ pc[w] = "deadletter" => error[w] # None
    /\ pc[w] = "commit" => Settled(cur[w])

\* What a coroutine relies on when it resumes at its label, other workers
\* having run in between: the message in hand parses, is stored, forwarded,
\* or settled, as far as the calls behind it promise.
HandMatchesLabel == \A w \in Workers : HandMatches(w)

\* The pool implements the delivery contract.
Contract == INSTANCE DeliveryContract WITH
    Length <- [p \in Partitions |-> Len(Log[p])],
    settled <- {m \in Messages : Settled(m)},
    acked <- committed

ContractHolds == Contract!Spec

\* Every published message is eventually committed, unless every supervised
\* loop has ended.
EventuallyDrained == <>(Drained \/ \A w \in Workers : pc[w] = "dead")
=============================================================================
