---------------------------- MODULE WebSocketHub ----------------------------
(***************************************************************************)
(* The server's side of the WebSocket connections (flight_tracker/         *)
(* server.py 214-224 and 398-549, websocket/messages.py).                  *)
(*                                                                         *)
(* Feed is everything the predictor is going to publish, one after the     *)
(* other; the graph is changed by entry n when n is applied, and entry n   *)
(* is in the topic once it is published: in the partition of its flight,   *)
(* behind what was published there before.  Entries of different           *)
(* partitions have no order for a consumer.  Each connection is served     *)
(* once, by an endpoint that sends the snapshot and the history itself     *)
(* and then lives as long as its four tasks: receiver, streamer, heartbeat *)
(* and sender.                                                             *)
(***************************************************************************)
EXTENDS Integers, Sequences, FiniteSets

CONSTANTS
    Conns,          \* connections ever made
    Flights,        \* flight_ids
    Partitions,     \* partitions of delay-predictions
    Home,           \* Home[f]: the one that has what is keyed by f
    Feed,           \* the predictions: [flight, source, gate, delayed]
    Cap,            \* WS_HISTORY_MAX_MESSAGES
    Frames,         \* Frames[c]: what c's client may send
    MaxFrames,      \* bound on the unread frames of a connection
    MaxBeats,       \* MaxBeats[c]: bound on the heartbeats of c
    MaxFaults,      \* bound on the connections whose consumer fails
    None

ASSUME HubAssumption ==
    /\ Feed \in Seq([flight : Flights, source : Flights \cup {None},
                     gate : BOOLEAN, delayed : BOOLEAN])
    /\ Home \in [Flights -> Partitions]
    /\ Cap \in Nat \ {0}
    /\ MaxFrames \in Nat /\ MaxBeats \in [Conns -> Nat] /\ MaxFaults \in Nat
    /\ None \notin Flights
    /\ \A c \in Conns : \A frame \in Frames[c] :
          /\ frame.action \in {"subscribe", "unsubscribe", "noise", "list"}
          /\ frame.action = "subscribe" => frame.flight \in Flights

VARIABLES
    applied,        \* entries of Feed the graph reflects
    published,      \* entries of Feed in delay-predictions
    history,        \* recent_ws_messages
    phase,          \* phase[c]: where c's endpoint is
    replay,         \* replay[c]: what is left of its copy of the history
    start,          \* start[c][p]: end of partition p when its consumer started
    pos,            \* pos[c][p]: what its streamer has read of p
    outbox,         \* outbox[c]: the queue between streamer, heartbeat and sender
    filter,         \* filter[c]: sub_state["flight_id"]
    filters,        \* filters[c]: every value of that while c was live
    sent,           \* sent[c]: all that was written to c's socket for a client still there
    up,             \* up[c]: frames the receiver has not read
    gone,           \* connections whose client is known to have left
    consumers,      \* connections with a started Kafka consumer
    failed          \* connections at which something was made to fail

topicVars == <<applied, published>>
clientVars == <<up, gone>>
streamVars == <<start, pos, filter, filters>>
vars == <<topicVars, history, phase, replay, streamVars, outbox, sent, clientVars,
          consumers, failed>>

Phases == {"idle", "greeted", "replay", "live", "ending", "closed"}

\* WSMessages: the snapshot after n entries, a heartbeat, an entry of Feed
\* from the history or from the stream.
Snapshot(n) == [what |-> "snapshot", n |-> n]
Heartbeat == [what |-> "beat", n |-> 0]
Past(n) == [what |-> "past", n |-> n]
Update(n) == [what |-> "update", n |-> n]
Messages == [what : {"snapshot", "beat", "past", "update"}, n : 0..Len(Feed)]

\* The partition of entry n.  A position in a partition is the last entry
\* before it, of whatever partition; Ends(n) is the end of each when n
\* entries are published, and Between what lies in between.
Part(n) == Home[Feed[n].flight]
Ends(n) == [p \in Partitions |-> n]
Between(from, to) == {n \in 1..Len(Feed) : from[Part(n)] < n /\ n <= to[Part(n)]}

TypeOK ==
    /\ published \in 0..applied /\ applied \in 0..Len(Feed)
    /\ history \in Seq(1..published) /\ Len(history) <= Cap
    /\ phase \in [Conns -> Phases]
    /\ replay \in [Conns -> Seq(1..published)]
    /\ start \in [Conns -> [Partitions -> 0..published]]
    /\ pos \in [Conns -> [Partitions -> 0..published]]
    /\ outbox \in [Conns -> Seq(Messages)] /\ sent \in [Conns -> Seq(Messages)]
    /\ filter \in [Conns -> Flights \cup {None}]
    /\ filters \in [Conns -> SUBSET (Flights \cup {None})]
    /\ DOMAIN up = Conns /\ \A c \in Conns : up[c] \in Seq(Frames[c])
    /\ gone \subseteq Conns /\ consumers \subseteq Conns
    /\ failed \subseteq Conns /\ Cardinality(failed) <= MaxFaults

Init ==
    /\ applied = 0 /\ published = 0 /\ history = <<>>
    /\ phase = [c \in Conns |-> "idle"]
    /\ replay = [c \in Conns |-> <<>>]
    /\ start = [c \in Conns |-> Ends(0)] /\ pos = [c \in Conns |-> Ends(0)]
    /\ outbox = [c \in Conns |-> <<>>] /\ sent = [c \in Conns |-> <<>>]
    /\ filter = [c \in Conns |-> None] /\ filters = [c \in Conns |-> {None}]
    /\ up = [c \in Conns |-> <<>>]
    /\ gone = {} /\ consumers = {} /\ failed = {}

Fault(c) ==
    /\ c \in failed \/ Cardinality(failed) < MaxFaults
    /\ failed' = failed \cup {c}

Goto(c, p) == phase' = [phase EXCEPT ![c] = p]

\* The endpoint returns: what it kept in local variables is no more.
Return(c) ==
    /\ Goto(c, "closed")
    /\ replay' = [replay EXCEPT ![c] = <<>>] /\ outbox' = [outbox EXCEPT ![c] = <<>>]
    /\ up' = [up EXCEPT ![c] = <<>>]
    /\ filter' = [filter EXCEPT ![c] = None] /\ filters' = [filters EXCEPT ![c] = {None}]
    /\ start' = [start EXCEPT ![c] = Ends(0)] /\ pos' = [pos EXCEPT ![c] = Ends(0)]

\* send_text(); what is written to a client that has left is lost.
Write(c, m) == sent' = IF c \in gone THEN sent ELSE [sent EXCEPT ![c] = Append(@, m)]
Put(c, m) == outbox' = [outbox EXCEPT ![c] = Append(@, m)]

----------------------------------------------------------------------------
(* The predictor: the graph first, the topic afterwards.                   *)

Apply ==
    /\ applied < Len(Feed)
    /\ applied' = applied + 1
    /\ UNCHANGED <<published, history, phase, replay, streamVars, outbox, sent, clientVars,
                   consumers, failed>>

\* publish(): to the end of the flight's partition.
Publish ==
    /\ published < applied
    /\ published' = published + 1
    /\ UNCHANGED <<applied, history, phase, replay, streamVars, outbox, sent, clientVars,
                   consumers, failed>>

----------------------------------------------------------------------------
(* The endpoint until its tasks run.                                       *)

\* accept(), and the snapshot of the graph as it is when that returns.
Accept(c) ==
    /\ phase[c] = "idle"
    /\ Goto(c, "greeted")
    /\ Write(c, Snapshot(applied))
    /\ UNCHANGED <<topicVars, history, replay, streamVars, outbox, clientVars,
                   consumers, failed>>

\* The snapshot is sent; list(recent_ws_messages).
CopyHistory(c) ==
    /\ phase[c] = "greeted"
    /\ Goto(c, "replay")
    /\ replay' = [replay EXCEPT ![c] = history]
    /\ UNCHANGED <<topicVars, history, streamVars, outbox, sent, clientVars,
                   consumers, failed>>

Replay(c) ==
    /\ phase[c] = "replay" /\ replay[c] # <<>>
    /\ Write(c, Past(Head(replay[c])))
    /\ replay' = [replay EXCEPT ![c] = Tail(@)]
    /\ UNCHANGED <<topicVars, history, phase, streamVars, outbox, clientVars,
                   consumers, failed>>

\* send_text() to a client that has left raises: no consumer exists yet.
GreetingFails(c) ==
    /\ phase[c] \in {"greeted", "replay"} /\ c \in gone
    /\ Return(c)
    /\ UNCHANGED <<topicVars, history, sent, gone, consumers, failed>>

\* kafka_consumer.start(): a new group, from the end of every partition.
Start(c) ==
    /\ phase[c] = "replay" /\ replay[c] = <<>>
    /\ Goto(c, "live")
    /\ start' = [start EXCEPT ![c] = Ends(published)]
    /\ pos' = [pos EXCEPT ![c] = Ends(published)]
    /\ consumers' = consumers \cup {c}
    /\ UNCHANGED <<topicVars, history, replay, filter, filters, outbox, sent, clientVars,
                   failed>>

\* It raised, perhaps after it had connected: outside the try that stops it.
StartFails(c) ==
    /\ phase[c] = "replay" /\ replay[c] = <<>>
    /\ Fault(c)
    /\ Return(c)
    /\ consumers' \in {consumers, consumers \cup {c}}
    /\ UNCHANGED <<topicVars, history, sent, gone>>

----------------------------------------------------------------------------
(* Its tasks.  One that ends makes the endpoint cancel the others, which   *)
(* may still take a step before that.                                      *)

Working(c) == phase[c] \in {"live", "ending"}

\* _passes_filter(): a flight's own messages, and those its delay causes.
Passes(f, n) == f = None \/ f = Feed[n].flight \/ f = Feed[n].source

\* Mutation of Remember: the history is not bounded.
RememberAll(n) == history' = Append(history, n)

\* recent_ws_messages.append(): the oldest falls out.
Remember(n) ==
    history' = IF Len(history) < Cap THEN Append(history, n)
               ELSE Append(Tail(history), n)

\* n is the next of its partition; of several partitions any may come first.
NextOf(c, n) == \A m \in 1..n : Part(m) = Part(n) => (m <= pos[c][Part(m)] <=> m # n)

\* Mutation of Stream: a message is dropped while another waits to be sent.
StreamDropping(c) ==
    /\ Working(c)
    /\ \E n \in 1..published :
         /\ NextOf(c, n)
         /\ pos' = [pos EXCEPT ![c] = [@ EXCEPT ![Part(n)] = n]]
         /\ Remember(n)
         /\ IF Passes(filter[c], n) /\ outbox[c] = <<>> THEN Put(c, Update(n)) ELSE UNCHANGED outbox
    /\ UNCHANGED <<topicVars, phase, replay, start, filter, filters, sent, clientVars,
                   consumers, failed>>

\* stream_events().
Stream(c) ==
    /\ Working(c)
    /\ \E n \in 1..published :
         /\ NextOf(c, n)
         /\ pos' = [pos EXCEPT ![c] = [@ EXCEPT ![Part(n)] = n]]
         /\ Remember(n)
         /\ IF Passes(filter[c], n) THEN Put(c, Update(n)) ELSE UNCHANGED outbox
    /\ UNCHANGED <<topicVars, phase, replay, start, filter, filters, sent, clientVars,
                   consumers, failed>>

\* The consumer raised, or the record is not a PredictionEvent.
StreamFails(c) ==
    /\ phase[c] = "live"
    /\ Fault(c)
    /\ Goto(c, "ending")
    /\ UNCHANGED <<topicVars, history, replay, streamVars, outbox, sent, clientVars,
                   consumers>>

Beats(c) == Len(SelectSeq(sent[c] \o outbox[c], LAMBDA m : m = Heartbeat))

\* send_heartbeats().
Beat(c) ==
    /\ phase[c] = "live" /\ Beats(c) < MaxBeats[c]
    /\ Put(c, Heartbeat)
    /\ UNCHANGED <<topicVars, history, phase, replay, streamVars, sent, clientVars,
                   consumers, failed>>

\* drain_outbox().
Send(c) ==
    /\ Working(c) /\ outbox[c] # <<>>
    /\ outbox' = [outbox EXCEPT ![c] = Tail(@)]
    /\ \/ Write(c, Head(outbox[c])) /\ UNCHANGED phase
       \/ c \in gone /\ Goto(c, "ending") /\ UNCHANGED sent
    /\ UNCHANGED <<topicVars, history, replay, streamVars, clientVars, consumers, failed>>

Subscribe(c, f) ==
    /\ filter' = [filter EXCEPT ![c] = f]
    /\ filters' = [filters EXCEPT ![c] = @ \cup {f}]

\* Mutation of Heed: what is not JSON raises.
HeedStrictly(c, frame) ==
    CASE frame.action = "subscribe" -> Subscribe(c, frame.flight) /\ UNCHANGED phase
      [] frame.action = "unsubscribe" -> Subscribe(c, None) /\ UNCHANGED phase
      [] OTHER -> Goto(c, "ending") /\ UNCHANGED <<filter, filters>>

\* What a frame does: "noise" is not JSON, or an object that asks for
\* nothing, or for no flight; "list" is JSON without a method get().
Heed(c, frame) ==
    CASE frame.action = "subscribe" -> Subscribe(c, frame.flight) /\ UNCHANGED phase
      [] frame.action = "unsubscribe" -> Subscribe(c, None) /\ UNCHANGED phase
      [] frame.action = "noise" -> UNCHANGED <<phase, filter, filters>>
      [] frame.action = "list" -> Goto(c, "ending") /\ UNCHANGED <<filter, filters>>

\* watch_for_disconnect().
Receive(c) ==
    /\ phase[c] = "live" /\ up[c] # <<>>
    /\ Heed(c, Head(up[c]))
    /\ up' = [up EXCEPT ![c] = Tail(@)]
    /\ UNCHANGED <<topicVars, history, replay, start, pos, outbox, sent, gone,
                   consumers, failed>>

\* Mutation of Disconnected: there is no reader, sends have to fail.
DisconnectedUnread(c) == FALSE

\* receive_text() raises WebSocketDisconnect.
Disconnected(c) ==
    /\ phase[c] = "live" /\ c \in gone /\ up[c] = <<>>
    /\ Goto(c, "ending")
    /\ UNCHANGED <<topicVars, history, replay, streamVars, outbox, sent, clientVars,
                   consumers, failed>>

\* Mutation of End: the consumer is left to itself.
EndOnly(c) ==
    /\ phase[c] = "ending" /\ Return(c)
    /\ UNCHANGED <<topicVars, history, sent, gone, consumers, failed>>

\* The tasks are cancelled and gathered, kafka_consumer.stop().
End(c) ==
    /\ phase[c] = "ending"
    /\ Return(c)
    /\ consumers' = consumers \ {c}
    /\ UNCHANGED <<topicVars, history, sent, gone, failed>>

\* stop() raised.
EndFails(c) ==
    /\ phase[c] = "ending"
    /\ Fault(c)
    /\ Return(c)
    /\ UNCHANGED <<topicVars, history, sent, gone, consumers>>

----------------------------------------------------------------------------
(* Clients.                                                                *)

Present(c) == phase[c] # "idle" /\ c \notin gone

Say(c, frame) ==
    /\ Present(c) /\ phase[c] # "closed"
    /\ Len(up[c]) < MaxFrames
    /\ up' = [up EXCEPT ![c] = Append(@, frame)]
    /\ UNCHANGED <<topicVars, history, phase, replay, streamVars, outbox, sent, gone,
                   consumers, failed>>

\* It leaves, or is found to have left.
Leave(c) ==
    /\ Present(c)
    /\ gone' = gone \cup {c}
    /\ sent' = [sent EXCEPT ![c] = <<>>]
    /\ UNCHANGED <<topicVars, history, phase, replay, streamVars, outbox, up,
                   consumers, failed>>

Quiescent ==
    /\ published = Len(Feed)
    /\ \A c \in Conns : phase[c] = "closed" /\ c \in gone
    /\ UNCHANGED vars

----------------------------------------------------------------------------
Greet(c) == CopyHistory(c) \/ Replay(c) \/ GreetingFails(c) \/ Start(c)
Wind(c) == Disconnected(c) \/ End(c)
Serve(c) == Greet(c) \/ Stream(c) \/ Send(c) \/ Receive(c) \/ Wind(c)
Disturb(c) == StartFails(c) \/ StreamFails(c) \/ EndFails(c)

Next ==
    \/ Apply \/ Publish
    \/ \E c \in Conns : Accept(c) \/ Serve(c) \/ Beat(c) \/ Disturb(c)
    \/ \E c \in Conns : Leave(c) \/ \E frame \in Frames[c] : Say(c, frame)
    \/ Quiescent

Spec == Init /\ [][Next]_vars

----------------------------------------------------------------------------
(* Properties.                                                             *)

\* What a client gets live is the topic from where its consumer started, each
\* partition and so each flight in its order, nothing twice and nothing
\* missing but what its filter held back, in whatever order the partitions are
\* read and wherever the stretch from the consumer over the queue to the socket
\* is interrupted by heartbeats, changes of the filter and the end of a task.
StreamIsFaithful ==
    \A c \in Conns : Working(c) /\ c \notin gone =>
        LET line == sent[c] \o outbox[c]
            updates == {i \in DOMAIN line : line[i].what = "update"}
            streamed == {line[i].n : i \in updates}
            read == Between(start[c], pos[c])
        IN
        /\ \A i, j \in updates :
              i < j /\ Part(line[i].n) = Part(line[j].n) => line[i].n < line[j].n
        /\ streamed \subseteq {n \in read : \E f \in filters[c] : Passes(f, n)}
        /\ {n \in read : \A f \in filters[c] : Passes(f, n)} \subseteq streamed

\* A consumer outlives its endpoint only if Kafka failed that very
\* connection, at whatever moment the client left, and no endpoint is at
\* work without one.
ConsumersEndWithConnections ==
    \A c \in Conns :
        /\ Working(c) => c \in consumers
        /\ c \in consumers /\ phase[c] = "closed" => c \in failed

\* Only its client's departure or a failure of its own ends a connection,
\* never a frame that makes no sense or what another connection does: as long
\* as its client keeps to JSON objects, or to what is not JSON at all.
ConnectionsEndForAReason ==
    \A c \in Conns : phase[c] \in {"ending", "closed"}
        => c \in gone \cup failed \/ \E frame \in Frames[c] : frame.action = "list"
=============================================================================
