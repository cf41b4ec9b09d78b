------------------------------ MODULE Ingestion ------------------------------
(***************************************************************************)
(* The ingestion worker and its two clients (flight_tracker/ingestion/),   *)
(* up to flight-events.  Everything downstream takes for granted what this *)
(* module is about: that flight_id and timestamp name an event             *)
(* (the idempotency key, the unique index of flight_events), and that the  *)
(* newest state of every flight arrives.                                   *)
(***************************************************************************)
EXTENDS Integers, Sequences

CONSTANTS
    Flights,        \* the flights of the airport
    Listing,        \* the order in which a poll returns them
    MaxClock,       \* bound on the polls that are told apart
    MaxFaults,      \* bound on failed fetches and sends
    None

ASSUME IngestionAssumption ==
    /\ Listing \in Seq(Flights)
    /\ MaxClock \in Nat \ {0} /\ MaxFaults \in Nat

VARIABLES
    live,           \* settings.live_api_enabled
    clock,          \* the poll in progress; polls differ in datetime.now()
    source,         \* source[f]: AeroAPI's record of f, or the mock's FlightEvent
    pc,             \* where run() is: "fetch", "publish", "sleep"
    todo,           \* what is left of snapshot.flights
    topic,          \* the events in flight-events
    last,           \* last[f]: the last of f appended there
    faults

vars == <<live, clock, source, pc, todo, topic, last, faults>>

Events == [flight : Flights, rev : 0..MaxClock, stamp : 0..MaxClock]

TypeOK ==
    /\ live \in BOOLEAN
    /\ clock \in 1..MaxClock
    /\ source \in [Flights -> [rev : 0..clock, stamp : 0..clock, complete : BOOLEAN]]
    /\ pc \in {"fetch", "publish", "sleep"}
    /\ todo \in Seq(Events) /\ Len(todo) <= Len(Listing)
    /\ todo # <<>> => pc = "publish"
    /\ topic \subseteq Events
    /\ last \in [Flights -> topic \cup {None}]
    /\ faults \in 0..MaxFaults

\* startup() makes the client; the mock has seeded its flights.
Init ==
    /\ live \in BOOLEAN
    /\ clock = 1
    /\ source = [f \in Flights |-> [rev |-> 0, stamp |-> 0, complete |-> TRUE]]
    /\ pc = "fetch" /\ todo = <<>>
    /\ topic = {} /\ last = [f \in Flights |-> None]
    /\ faults = 0

Fault == faults < MaxFaults /\ faults' = faults + 1

----------------------------------------------------------------------------
(* The clients.                                                            *)

\* AeroAPI has something new on f, perhaps without a time that is required.
Revise(f) ==
    /\ live /\ clock < MaxClock /\ source[f].rev < clock
    /\ \E complete \in BOOLEAN :
         source' = [source EXCEPT ![f].rev = @ + 1, ![f].complete = complete]
    /\ UNCHANGED <<live, clock, pc, todo, topic, last, faults>>

Event(f, rev, stamp) == [flight |-> f, rev |-> rev, stamp |-> stamp]

\* Mutation of LiveSnapshots: a poll is stamped one after its own time.
LiveSnapshotsAhead ==
    {[i \in DOMAIN Listing |-> Event(Listing[i], source[Listing[i]].rev, clock + 1)]}

\* The positions of the complete records in increasing order, as the one
\* function that lists them.
Complete ==
    {at \in UNION {[1..n -> DOMAIN Listing] : n \in 0..Len(Listing)} :
        /\ \A i, j \in DOMAIN at : i < j => at[i] < at[j]
        /\ \A k \in DOMAIN Listing :
              source[Listing[k]].complete <=> \E i \in DOMAIN at : at[i] = k}

\* FlightAwareClient: every complete record, captured now.
LiveSnapshots ==
    {[i \in DOMAIN at |-> Event(Listing[at[i]], source[Listing[at[i]]].rev, clock)] : at \in Complete}

FetchLive ==
    /\ pc = "fetch" /\ live
    /\ todo' \in LiveSnapshots /\ pc' = "publish"
    /\ UNCHANGED <<live, clock, source, topic, last, faults>>

\* Mutation of Drift: a drifting flight keeps its timestamp.
DriftUnstamped(f) == [source[f] EXCEPT !.rev = @ + 1]

\* A delay grows, in place.
Drift(f) == [source[f] EXCEPT !.rev = @ + 1, !.stamp = clock]

\* Mutation of FetchMock: flights that are known and unchanged are left out.
FetchMockChanges ==
    /\ pc = "fetch" /\ ~live
    /\ \E drifting \in IF clock = MaxClock THEN {{}} ELSE SUBSET Flights :
         LET news == SelectSeq(Listing, LAMBDA f : f \in drifting \/ last[f] = None) IN
         /\ source' = [f \in Flights |-> IF f \in drifting THEN Drift(f) ELSE source[f]]
         /\ todo' = [i \in DOMAIN news |-> Event(news[i], source'[news[i]].rev, source'[news[i]].stamp)]
    /\ pc' = "publish"
    /\ UNCHANGED <<live, clock, topic, last, faults>>

\* MockFlightAwareClient: some flights drift, all are returned.
FetchMock ==
    /\ pc = "fetch" /\ ~live
    /\ \E drifting \in SUBSET Flights :
         /\ clock = MaxClock => drifting = {}
         /\ source' = [f \in Flights |-> IF f \in drifting THEN Drift(f) ELSE source[f]]
    /\ todo' = [i \in DOMAIN Listing |->
                  Event(Listing[i], source'[Listing[i]].rev, source'[Listing[i]].stamp)]
    /\ pc' = "publish"
    /\ UNCHANGED <<live, clock, topic, last, faults>>

\* The request timed out, or was answered with an error.
FetchFails ==
    /\ pc = "fetch" /\ live
    /\ Fault
    /\ pc' = "sleep"
    /\ UNCHANGED <<live, clock, source, todo, topic, last>>

----------------------------------------------------------------------------
(* run().                                                                  *)

Deliver(e) ==
    /\ topic' = topic \cup {e}
    /\ last' = [last EXCEPT ![e.flight] = e]

Publish ==
    /\ pc = "publish" /\ todo # <<>>
    /\ Deliver(Head(todo))
    /\ todo' = Tail(todo)
    /\ UNCHANGED <<live, clock, source, pc, faults>>

\* A send raised, although the broker may have the record, and is tried again.
SendFails ==
    /\ pc = "publish" /\ todo # <<>>
    /\ Fault
    /\ Deliver(Head(todo)) \/ UNCHANGED <<topic, last>>
    /\ UNCHANGED <<live, clock, source, pc, todo>>

\* The last try raised: the rest of the poll is dropped.
PublishFails ==
    /\ pc = "publish" /\ todo # <<>>
    /\ Fault
    /\ Deliver(Head(todo)) \/ UNCHANGED <<topic, last>>
    /\ pc' = "sleep" /\ todo' = <<>>
    /\ UNCHANGED <<live, clock, source>>

PollEnds ==
    /\ pc = "publish" /\ todo = <<>>
    /\ pc' = "sleep"
    /\ UNCHANGED <<live, clock, source, todo, topic, last, faults>>

\* asyncio.sleep(poll_interval): the next poll is at another time.  At the
\* bound nothing changes any more, and polls are not told apart.
Wake ==
    /\ pc = "sleep"
    /\ pc' = "fetch"
    /\ clock' = IF clock < MaxClock THEN clock + 1 ELSE clock
    /\ UNCHANGED <<live, source, todo, topic, last, faults>>

Run == FetchLive \/ FetchMock \/ Publish \/ PollEnds \/ Wake

Next ==
    \/ Run
    \/ FetchFails \/ SendFails \/ PublishFails
    \/ \E f \in Flights : Revise(f)

\* The loop is resumed, and calls return or raise.
Spec == Init /\ [][Next]_vars /\ WF_vars(Run)

----------------------------------------------------------------------------
(* Properties.                                                             *)

\* Two events of one key are the same event, so that dropping one of them as
\* a duplicate loses nothing, across polls, retries and revisions; and the
\* mock's events of one content have one key, so that what it repeats is
\* recognized.  (The live client stamps every poll anew: nothing of it is.)
KeysIdentifyContents ==
    \A x, y \in topic : x.flight = y.flight =>
        /\ x.stamp = y.stamp => x.rev = y.rev
        /\ ~live /\ x.rev = y.rev => x.stamp = y.stamp

\* Once there is nothing new, the topic ends with the current state of every
\* flight whose record is complete, whichever polls failed half way.
NewestArrives ==
    \A f \in Flights :
        <>[](source[f].complete => last[f] # None /\ last[f].rev = source[f].rev)
=============================================================================
