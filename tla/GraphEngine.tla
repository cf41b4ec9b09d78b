----------------------------- MODULE GraphEngine -----------------------------
(***************************************************************************)
(* GraphEngine (flight_tracker/graph/engine.py) as operators on a graph    *)
(* value: the directed graph of flights, its aircraft_turn and gate_reuse  *)
(* edges, breadth-first delay propagation and gate reassignment.  The      *)
(* methods never await, so each is one value to another.                   *)
(*                                                                         *)
(* A networkx DiGraph iterates nodes and neighbours in insertion order and *)
(* keeps one edge, so one type, per ordered pair; both matter to the       *)
(* outcome and are kept.                                                   *)
(***************************************************************************)
EXTENDS Integers, Sequences, FiniteSets, SequencesExt

CONSTANTS
    FlightKeys,     \* flight_key values, the node keys
    Gates,          \* gate_id values
    GatePool,       \* _gate_pool(): the airport's gates, in order
    None            \* no aircraft_id, no gate_id; no node for a key

ASSUME PoolAssumption ==
    GatePool \in Seq(Gates) /\ None \notin Gates /\ IsFiniteSet(FlightKeys)

----------------------------------------------------------------------------
(* Loops, as recursive functions.                                          *)

\* Op applied to each element of a sequence in turn.
InTurn(Op(_, _), start, seq) ==
    LET after[i \in 0..Len(seq)] ==
          IF i = 0 THEN start ELSE Op(after[i - 1], seq[i])
    IN  after[Len(seq)]

KeepIn(S, kept, x) == IF x \in S THEN Append(kept, x) ELSE kept

\* The elements of a sequence that are in S, in their order.
Among(seq, S) == InTurn(LAMBDA kept, x : KeepIn(S, kept, x), <<>>, seq)

----------------------------------------------------------------------------
(* The graph.                                                              *)

LinkTypes == {"none", "aircraft_turn", "gate_reuse"}

\* order: node keys in insertion order.  flight[k]: the attributes of node k.
\* adj[k]: its successors in insertion order.  link[<<j, k>>]: the edge's type.
EmptyGraph ==
    [order |-> <<>>,
     flight |-> [k \in FlightKeys |-> None],
     adj |-> [k \in FlightKeys |-> <<>>],
     link |-> [e \in FlightKeys \X FlightKeys |-> "none"]]

Nodes(g) == ToSet(g.order)

Overlaps(a, b) == ~(a.arr < b.dep \/ b.arr < a.dep)

SameGate(a, b) == a.gate # None /\ a.gate = b.gate
SameAircraft(a, b) == a.aircraft # None /\ a.aircraft = b.aircraft
Conflict(a, b) == SameGate(a, b) /\ Overlaps(a, b)

\* Mutation of AddFlight: a known flight becomes a second node.
AddFlightAgain(g, f) ==
    [g EXCEPT !.order = Append(@, f.key), !.flight[f.key] = f]

\* add_node of an existing key replaces its attributes and keeps its edges.
AddFlight(g, f) ==
    [g EXCEPT !.order = IF f.key \in Nodes(g) THEN @ ELSE Append(@, f.key),
              !.flight[f.key] = f]

\* The edge add_edges_for_flight leaves between a node and the new flight:
\* gate_reuse is added last and overwrites aircraft_turn.
LinkFor(a, f) ==
    IF Conflict(a, f) THEN "gate_reuse"
    ELSE IF SameAircraft(a, f) THEN "aircraft_turn" ELSE "none"

\* Mutation of AddEdges: edges only to flights seen for the first time.
AddEdgesOnce(g, f) ==
    LET linked == {j \in Nodes(g) \ {f.key} :
                     LinkFor(g.flight[j], f) # "none" /\ g.link[<<j, f.key>>] = "none"} IN
    IF \E j \in FlightKeys : g.link[<<j, f.key>>] # "none" THEN g
    ELSE [g EXCEPT !.adj = [j \in FlightKeys |->
                              IF j \in linked THEN Append(@[j], f.key) ELSE @[j]],
                   !.link = [e \in DOMAIN @ |->
                              IF e[2] = f.key /\ e[1] \in linked
                              THEN LinkFor(g.flight[e[1]], f) ELSE @[e]]]

\* Every other node related to f gets an edge to f; no edge is ever removed here.
AddEdges(g, f) ==
    LET linked == {j \in Nodes(g) \ {f.key} : LinkFor(g.flight[j], f) # "none"} IN
    [g EXCEPT !.adj = [j \in FlightKeys |->
                         IF j \in linked /\ g.link[<<j, f.key>>] = "none"
                         THEN Append(@[j], f.key) ELSE @[j]],
              !.link = [e \in DOMAIN @ |->
                         IF e[2] = f.key /\ e[1] \in linked
                         THEN LinkFor(g.flight[e[1]], f) ELSE @[e]]]

ProcessEvent(g, f) == AddEdges(AddFlight(g, f), f)

\* load_from_db: the rows of active_flights in the order the query returns them.
Load(rows) == InTurn(ProcessEvent, EmptyGraph, rows)

----------------------------------------------------------------------------
(* propagate_delay.                                                        *)

\* int(delay * 0.75)
Decay(d) == (3 * d) \div 4

\* Mutation of Merge: the propagated delay replaces the flight's own.
Replace(own, propagated) == propagated

Merge(own, propagated) == Max({own, propagated})

\* One turn of the while loop: pop an entry, visit it unless visited, raise
\* its unvisited successors and queue them with the delay they have now.
BfsTurn(g, s) ==
    LET e == Head(s.queue)
        next == Among(g.adj[e.key], FlightKeys \ (s.visited \cup {e.key}))
        new(k) == Merge(s.delay[k], Decay(e.delay))
        raised == Among(next, {k \in FlightKeys : new(k) # s.delay[k]})
    IN  IF s.queue = <<>> THEN s
        ELSE IF e.key \in s.visited THEN [s EXCEPT !.queue = Tail(@)]
        ELSE [visited |-> s.visited \cup {e.key},
              delay |-> [k \in FlightKeys |->
                           IF k \in ToSet(next) THEN new(k) ELSE s.delay[k]],
              updated |-> s.updated \o
                            [i \in DOMAIN raised |-> [key |-> raised[i], hops |-> e.hops + 1]],
              queue |-> Tail(s.queue) \o
                            [i \in DOMAIN next |->
                               [key |-> next[i], delay |-> new(next[i]), hops |-> e.hops + 1]]]

\* The loop ends with the queue: a node is expanded once, so at most
\* |FlightKeys|^2 + 1 entries are popped.
Bfs(g, key, delay) ==
    LET turns == Cardinality(FlightKeys) * Cardinality(FlightKeys) + 1
        start == [queue |-> <<[key |-> key, delay |-> delay, hops |-> 0]>>,
                  visited |-> {}, updated |-> <<>>,
                  delay |-> [k \in FlightKeys |->
                               IF k \in Nodes(g) THEN g.flight[k].delay ELSE 0]]
        after[i \in 0..turns] ==
          IF i = 0 THEN {start} ELSE {BfsTurn(g, s) : s \in after[i - 1]}
    IN  CHOOSE s \in after[turns] : TRUE

\* The graph with the merged delays, and the updated events with their hops.
Propagate(g, key, delay) ==
    LET final == Bfs(g, key, delay) IN
    [graph |-> [g EXCEPT !.flight = [k \in FlightKeys |->
                  IF k \in Nodes(g) THEN [@[k] EXCEPT !.delay = final.delay[k]] ELSE @[k]]],
     updated |-> final.updated]

----------------------------------------------------------------------------
(* resolve_gate_conflicts.                                                 *)

UsedGates(g) == {g.flight[k].gate : k \in Nodes(g)} \ {None}

\* The positions of the pool whose gate nobody uses.
FreeGates(used) == {i \in DOMAIN GatePool : GatePool[i] \notin used}

FreeGateFor(used) == GatePool[Min(FreeGates(used))]

\* One edge of the loop: the destination of a gate_reuse edge whose windows
\* still overlap moves to the first unused gate, if any; the gates the two
\* flights have by now are not compared.
ResolveEdge(s, edge) ==
    LET g == s.graph
        dst == g.flight[edge[2]]
        gate == FreeGateFor(s.used)
    IN  IF \/ g.link[edge] # "gate_reuse"
           \/ ~Overlaps(g.flight[edge[1]], dst)
           \/ FreeGates(s.used) = {}
        THEN s
        ELSE [graph |-> [g EXCEPT !.flight[edge[2]].gate = gate,
                                  !.adj[edge[1]] = Among(@, FlightKeys \ {edge[2]}),
                                  !.link[edge] = "none"],
              used |-> s.used \cup {gate},
              moves |-> Append(s.moves, [key |-> edge[2], old |-> dst.gate, new |-> gate])]

\* Mutation of ResolveFrom: only the first of a flight's conflicts.
ResolveFirst(s, src, successors) ==
    IF successors = <<>> THEN s ELSE ResolveEdge(s, <<src, Head(successors)>>)

\* The edges of list(self.graph.edges(data=True)), a list made before the
\* loop: by source node, then by successor.
ResolveFrom(s, src, successors) ==
    InTurn(LAMBDA r, dst : ResolveEdge(r, <<src, dst>>), s, successors)

Resolve(g) ==
    InTurn(LAMBDA s, src : ResolveFrom(s, src, g.adj[src]),
           [graph |-> g, used |-> UsedGates(g), moves |-> <<>>], g.order)

----------------------------------------------------------------------------
(* What may be said of a graph.                                            *)

HasEdge(g, j, k) == g.link[<<j, k>>] # "none"

\* Two flights that need the same gate at the same time are joined by a
\* gate_reuse edge one way or the other: what resolve_gate_conflicts relies on.
ConflictsAreLinked(g) ==
    \A j, k \in Nodes(g) :
        j # k /\ Conflict(g.flight[j], g.flight[k])
            => g.link[<<j, k>>] = "gate_reuse" \/ g.link[<<k, j>>] = "gate_reuse"

\* No two flights need the same gate at the same time.
ConflictFree(g) ==
    \A j, k \in Nodes(g) : j # k => ~Conflict(g.flight[j], g.flight[k])

\* The successor lists and the edge types describe the same edges.
WellFormed(g) ==
    /\ \A i, j \in DOMAIN g.order : g.order[i] = g.order[j] => i = j
    /\ \A k \in FlightKeys : k \in Nodes(g) <=> g.flight[k] # None
    /\ \A k \in FlightKeys : \A i, j \in DOMAIN g.adj[k] :
          g.adj[k][i] = g.adj[k][j] => i = j
    /\ \A j, k \in FlightKeys : k \in ToSet(g.adj[j]) <=> HasEdge(g, j, k)
    /\ \A k \in FlightKeys : ~HasEdge(g, k, k)
    /\ \A j, k \in FlightKeys : HasEdge(g, j, k) => {j, k} \subseteq Nodes(g)

\* Flights at most h edges away from k.
Within(g, k, h) ==
    LET near[i \in 0..h] ==
          IF i = 0 THEN {k}
          ELSE UNION {{n} \cup {j \in FlightKeys : HasEdge(g, n, j)} : n \in near[i - 1]}
    IN  near[h]
==============================================================================
