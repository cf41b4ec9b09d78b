--------------------------- MODULE FlightDataHook ---------------------------
(***************************************************************************)
(* The browser's end of the WebSocket (frontend/src/hooks/                 *)
(* useFlightData.js), composed with the server's: the client actions of    *)
(* WebSocketHub are replaced by those of one hook that connects, batches,  *)
(* subscribes, watches over its connection and reconnects, over a network  *)
(* that may stop carrying a connection without telling either end.         *)
(***************************************************************************)
EXTENDS WebSocketHub, FiniteSetsExt

CONSTANTS
    Batch,          \* BATCH_MAX_PER_TICK
    Focus           \* flights somebody may subscribe to

\* What the hook asks for.
Frame(f) == IF f = None THEN [action |-> "unsubscribe"] ELSE [action |-> "subscribe", flight |-> f]

ASSUME HookAssumption ==
    /\ Batch \in Nat \ {0} /\ Focus \subseteq Flights
    /\ IsFiniteSet(Conns) /\ None \notin Conns
    /\ Cardinality(Conns) > MaxFaults       \* a connection to go on with is left
    /\ \A c \in Conns, f \in Focus \cup {None} : Frame(f) \in Frames[c]

VARIABLES
    mounted,        \* ~stopped
    status,         \* connectionStatus
    ever,           \* everConnectedRef.current
    socket,         \* socketRef.current, or None
    ready,          \* its readyState
    timer,          \* a call of connect() is due
    received,       \* messages of the socket that onmessage has had
    pending,        \* pendingRef.current
    ui,             \* the four maps, flight to entry of Feed
    wanted,         \* subscribedFlightRef.current
    cut             \* connections the network carries no more

hookVars == <<mounted, status, ever, socket, ready, timer, received, pending, ui, wanted>>
allVars == <<vars, hookVars, cut>>

Statuses == {"CONNECTING", "CONNECTED", "DISCONNECTED", "RECONNECTING"}

\* Entries of a map are the entries of Feed they come from, 0 if there is none.
Maps == [flights : [Flights -> 0..Len(Feed)], predictions : [Flights -> 0..Len(Feed)],
         chains : [Flights \X Flights -> 0..Len(Feed)], gates : [Flights -> 0..Len(Feed)]]
EmptyMaps ==
    [flights |-> [f \in Flights |-> 0], predictions |-> [f \in Flights |-> 0],
     chains |-> [e \in Flights \X Flights |-> 0], gates |-> [f \in Flights |-> 0]]

HookTypeOK ==
    /\ TypeOK
    /\ mounted \in BOOLEAN /\ timer \in BOOLEAN /\ ever \in BOOLEAN
    /\ status \in Statuses
    /\ socket \in Conns \cup {None}
    /\ ready \in {"none", "connecting", "open", "closing"}
    /\ socket = None <=> ready = "none"
    /\ received \in Nat
    /\ pending \in Seq(Messages)
    /\ ui \in Maps
    /\ wanted \in Flights \cup {None}
    /\ cut \subseteq Conns
    /\ Cardinality(cut \cup failed) <= MaxFaults

\* The page is loaded and knows its airport: connect() is about to be called.
HookInit ==
    /\ Init
    /\ mounted = TRUE /\ status = "CONNECTING" /\ ever = FALSE
    /\ socket = None /\ ready = "none" /\ timer = TRUE
    /\ received = 0 /\ pending = <<>> /\ ui = EmptyMaps
    /\ wanted = None /\ cut = {}

----------------------------------------------------------------------------
(* applyMessage().                                                         *)

\* Mutation of Classify: a delayed flight's gate change is shown as a delay.
ClassifyDelayFirst(p) ==
    CASE p.source # None -> "PROPAGATION_EVENT"
      [] p.source = None /\ p.delayed -> "DELAY_PREDICTION"
      [] p.source = None /\ ~p.delayed /\ p.gate -> "GATE_REASSIGNMENT"
      [] OTHER -> "FLIGHT_UPDATE"

\* classify_prediction_event().
Classify(p) ==
    CASE p.gate -> "GATE_REASSIGNMENT"
      [] ~p.gate /\ p.source # None -> "PROPAGATION_EVENT"
      [] ~p.gate /\ p.source = None /\ p.delayed -> "DELAY_PREDICTION"
      [] OTHER -> "FLIGHT_UPDATE"

\* The newest entry about f among ns, or 0.
NewestOf(ns, f) == Max({0} \cup {n \in ns : Feed[n].flight = f})

ApplyUpdate(maps, n) ==
    LET p == Feed[n]
        type == Classify(p)
    IN  [maps EXCEPT
           !.flights[p.flight] = n,
           !.predictions[p.flight] = n,
           !.chains = IF type = "PROPAGATION_EVENT" THEN [@ EXCEPT ![<<p.source, p.flight>>] = n] ELSE @,
           !.gates = IF type = "GATE_REASSIGNMENT" THEN [@ EXCEPT ![p.flight] = n] ELSE @]

ApplyMessage(maps, m) ==
    CASE m.what = "beat" -> maps
      [] m.what = "snapshot" ->
           [maps EXCEPT !.flights = [f \in Flights |-> NewestOf(1..m.n, f)]]
      [] m.what \in {"past", "update"} -> ApplyUpdate(maps, m.n)

\* One after the other, on top of what the maps show.
ApplyBatch(maps, batch) ==
    LET after[i \in 0..Len(batch)] ==
          IF i = 0 THEN maps ELSE ApplyMessage(after[i - 1], batch[i])
    IN  after[Len(batch)]

\* Mutation of Flush: the newest messages of the backlog go first.
FlushNewest ==
    /\ mounted /\ pending # <<>>
    /\ \E k \in {Max({0, Len(pending) - Batch})} :
         /\ ui' = ApplyBatch(ui, SubSeq(pending, k + 1, Len(pending)))
         /\ pending' = SubSeq(pending, 1, k)
    /\ UNCHANGED <<vars, mounted, status, ever, socket, ready, timer, received, wanted, cut>>

\* The batch timer: up to Batch messages, whichever socket they came from.
Flush ==
    /\ mounted /\ pending # <<>>
    /\ \E k \in {Min({Batch, Len(pending)})} :
         /\ ui' = ApplyBatch(ui, SubSeq(pending, 1, k))
         /\ pending' = SubSeq(pending, k + 1, Len(pending))
    /\ UNCHANGED <<vars, mounted, status, ever, socket, ready, timer, received, wanted, cut>>

----------------------------------------------------------------------------
(* The connection.                                                         *)

Reachable == socket \notin cut

\* socket.send(): a frame for an endpoint that has ended, or over a dead
\* connection, is lost.
SendFrame(f) ==
    IF Reachable /\ phase[socket] # "closed" THEN Say(socket, Frame(f)) ELSE UNCHANGED vars

\* connect().
Connect ==
    /\ mounted /\ timer
    /\ \E c \in Conns : phase[c] = "idle" /\ c \notin cut
    /\ socket' = CHOOSE c \in Conns : phase[c] = "idle" /\ c \notin cut
    /\ ready' = "connecting" /\ received' = 0 /\ timer' = FALSE
    /\ status' = IF ever THEN "RECONNECTING" ELSE "CONNECTING"
    /\ UNCHANGED <<vars, mounted, ever, pending, ui, wanted, cut>>

\* Mutation of OnOpen: a new connection is not told of the subscription.
OnOpenForgetting ==
    /\ mounted /\ ready = "connecting" /\ Reachable /\ phase[socket] # "idle"
    /\ ready' = "open" /\ status' = "CONNECTED" /\ ever' = TRUE
    /\ UNCHANGED <<vars, mounted, socket, timer, received, pending, ui, wanted, cut>>

OnOpen ==
    /\ mounted /\ ready = "connecting" /\ Reachable /\ phase[socket] # "idle"
    /\ ready' = "open" /\ status' = "CONNECTED" /\ ever' = TRUE
    /\ IF wanted # None THEN SendFrame(wanted) ELSE UNCHANGED vars
    /\ UNCHANGED <<mounted, socket, timer, received, pending, ui, wanted, cut>>

OnMessage ==
    /\ mounted /\ ready = "open" /\ Reachable /\ received < Len(sent[socket])
    /\ pending' = Append(pending, sent[socket][received + 1])
    /\ received' = received + 1
    /\ UNCHANGED <<vars, mounted, status, ever, socket, ready, timer, ui, wanted, cut>>

\* Nothing has arrived and been applied for HEARTBEAT_TIMEOUT_MS: with a
\* heartbeat every 30 s, that takes a connection that carries nothing.  (An
\* endpoint that stays that long without one, waiting for Kafka, counts as one.)
Silent == pending = <<>> /\ ~Reachable

\* Mutation of Watchdog: no heartbeat is expected.
WatchdogAsleep == FALSE /\ UNCHANGED allVars

\* The watchdog closes the socket.
Watchdog ==
    /\ mounted /\ status = "CONNECTED" /\ ready = "open" /\ Silent
    /\ ready' = "closing"
    /\ UNCHANGED <<vars, mounted, status, ever, socket, timer, received, pending, ui, wanted, cut>>

\* The connection could not be made, has been closed by the hook, or by the
\* server after everything it had sent.
Closed ==
    \/ ready = "connecting" /\ (~Reachable \/ phase[socket] = "closed")
    \/ ready = "closing"
    \/ ready = "open" /\ Reachable /\ phase[socket] = "closed" /\ received = Len(sent[socket])

\* Mutation of OnClose: reconnecting is left to the next render.
OnCloseOnly ==
    /\ mounted /\ socket # None /\ Closed
    /\ status' = "DISCONNECTED" /\ socket' = None /\ ready' = "none" /\ received' = 0
    /\ UNCHANGED <<vars, mounted, ever, timer, pending, ui, wanted, cut>>

\* onclose: connect() after RECONNECT_DELAY_MS.  pendingRef is not emptied.
OnClose ==
    /\ mounted /\ socket # None /\ Closed
    /\ status' = "DISCONNECTED"
    /\ socket' = None /\ ready' = "none" /\ received' = 0
    /\ timer' = TRUE
    /\ UNCHANGED <<vars, mounted, ever, pending, ui, wanted, cut>>

----------------------------------------------------------------------------
(* Its user.                                                               *)

\* subscribeToFlight(f), unsubscribeFromFlight().
Want(f) ==
    /\ mounted /\ wanted # f
    /\ wanted' = f
    /\ IF ready = "open" THEN SendFrame(f) ELSE UNCHANGED vars
    /\ UNCHANGED <<mounted, status, ever, socket, ready, timer, received, pending, ui, cut>>

\* The effect's cleanup: every handler and timer is dead from here on.
Unmount ==
    /\ mounted
    /\ mounted' = FALSE /\ timer' = FALSE
    /\ socket' = None /\ ready' = "none" /\ received' = 0 /\ pending' = <<>>
    /\ UNCHANGED <<vars, status, ever, ui, wanted, cut>>

----------------------------------------------------------------------------
(* Network and server.                                                     *)

MayFail(c) == c \in cut \cup failed \/ Cardinality(cut \cup failed) < MaxFaults

\* Nothing gets through any more, in either direction.
Cut(c) ==
    /\ phase[c] \notin {"idle", "closed"} \/ socket = c
    /\ c \notin cut /\ MayFail(c)
    /\ cut' = cut \cup {c}
    /\ UNCHANGED <<vars, hookVars>>

\* The server learns that a client has closed, or TCP gives up on it.
Notice(c) ==
    /\ c # socket \/ ready = "closing" \/ c \in cut
    /\ Leave(c)
    /\ UNCHANGED <<hookVars, cut>>

AcceptSocket(c) ==
    /\ c = socket /\ ready = "connecting" /\ Reachable
    /\ Accept(c)
    /\ UNCHANGED <<hookVars, cut>>

\* What the server does.  Of its failures one is enough here; its heartbeats
\* are in what Silent says.
Server ==
    \/ Apply \/ Publish
    \/ \E c \in Conns : Serve(c) \/ (MayFail(c) /\ StreamFails(c))

\* Nothing is left to do but for the user.
Resting ==
    /\ published = Len(Feed)
    /\ \A c \in Conns : phase[c] \in {"idle", "closed"}
    /\ ~mounted
    /\ UNCHANGED allVars

Serving(c) == Serve(c) /\ UNCHANGED <<hookVars, cut>>

HookStep == Connect \/ OnOpen \/ OnMessage \/ Flush \/ Watchdog \/ OnClose

HookNext ==
    \/ HookStep \/ Unmount \/ \E f \in Focus \cup {None} : Want(f)
    \/ \E c \in Conns : AcceptSocket(c) \/ Notice(c) \/ Cut(c)
    \/ Server /\ UNCHANGED <<hookVars, cut>>
    \/ Resting

HookSpec == HookInit /\ [][HookNext]_allVars

\* Besides the server's tasks: the browser's timers fire, its events are
\* delivered, and a connection that is closed or dead ends at both ends.
HookFairSpec ==
    /\ HookSpec
    /\ WF_allVars(HookStep)
    /\ \A c \in Conns :
          /\ WF_allVars(AcceptSocket(c)) /\ WF_allVars(Notice(c))
          /\ WF_allVars(Serving(c))

----------------------------------------------------------------------------
(* Properties.                                                             *)

Connected(c) ==
    /\ mounted /\ socket = c /\ ready = "open" /\ Reachable
    /\ phase[c] = "live"

\* Once the server has read every frame, its filter is what the hook was last
\* asked for, whenever that was: before the connection, while it was being
\* made, or on an earlier one.
SubscriptionAgrees ==
    \A c \in Conns : Connected(c) /\ up[c] = <<>> => filter[c] = wanted

\* Everything between the topic and the maps is empty.
Drained(c) ==
    /\ Connected(c) /\ filters[c] = {None}
    /\ \A n \in 1..published : n <= pos[c][Part(n)]
    /\ outbox[c] = <<>>
    /\ received = Len(sent[c]) /\ pending = <<>>

\* When the stream has been drained, each map shows the newest of what was
\* published since the connection is live: flights, and their predictions,
\* the reach of delays, and the gates.  What an earlier connection left in
\* the batch, the snapshot and the replay cannot hide it.
MapsConverge ==
    \A c \in Conns : Drained(c) =>
        LET since == Between(start[c], Ends(published))
            Shows(map, f, ns) == ns # {} => map = NewestOf(ns, f)
            About(f) == {n \in since : Feed[n].flight = f}
        IN  \A f \in Flights :
              /\ Shows(ui.flights[f], f, About(f))
              /\ Shows(ui.predictions[f], f, About(f))
              /\ Shows(ui.gates[f], f, {n \in About(f) : Feed[n].gate})
              /\ \A src \in Flights :
                    Shows(ui.chains[<<src, f>>], f,
                          {n \in About(f) : Feed[n].source = src /\ ~Feed[n].gate})

\* What is on the map goes back to something older by the replay of the
\* history, or where a flight had come from a snapshot ahead of the topic:
\* never by a reconnect as such, or by what an earlier connection had left
\* in the batch.
OnlyReplayGoesBack ==
    [][(\A i \in 1..(Len(pending) - Len(pending')) : mounted' => pending[i].what # "past") =>
          \A f \in Flights :
             /\ ui'.predictions[f] >= ui.predictions[f]
             /\ ui'.gates[f] >= ui.gates[f]
             /\ ui'.flights[f] < ui.flights[f] => ui.flights[f] > ui.predictions[f]]_allVars

\* A mounted hook gets back to a connection that carries messages.
AlwaysReconnects == []<>(~mounted \/ \E c \in Conns : Connected(c))

\* Again and again everything published while the hook is connected has
\* reached its map, through the server's consumer, queue and socket and the
\* hook's batch, unless the connection has ended or asked for less.
UpdatesReachTheMap ==
    []<>(\A c \in Conns : Connected(c) /\ filters[c] = {None} =>
            \A n \in Between(start[c], Ends(published)) : ui.predictions[Feed[n].flight] >= n)

\* An unmounted hook, or one that has gone on to another connection, leaves
\* no endpoint behind on the server.
EndpointsEnd ==
    \A c \in Conns : phase[c] # "idle" /\ socket # c ~> phase[c] = "closed"

----------------------------------------------------------------------------
(* A claim of the documentation that the code does not keep.               *)

\* server.py:446-448: snapshot and history already cover the current state,
\* so that a client need not see more of the topic than from its end.
LateClientsMissNothing ==
    \A c \in Conns : Drained(c) =>
        \A f \in Flights : ui.flights[f] >= NewestOf(1..published, f)
=============================================================================
