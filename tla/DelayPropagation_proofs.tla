------------------------ MODULE DelayPropagation_proofs ------------------------
(***************************************************************************)
(* Proofs about DelayPropagation and the graph it owns: how a message is   *)
(* accounted for, and what no sequence of events, reassignments, failures  *)
(* and reloads can do to the graph.                                        *)
(***************************************************************************)
EXTENDS DelayPropagation, FiniteSetTheorems, WellFoundedInduction, TLAPS

----------------------------------------------------------------------------
(* Induction, from the well-foundedness of Nat.                            *)

LEMMA Least ==
    ASSUME NEW T \in SUBSET Nat, T # {}
    PROVE  \E x \in T : \A y \in T : x <= y
<1> DEFINE R == OpToRel(<, Nat)
<1>1. IsWellFoundedOn(R, Nat)
  BY NatLessThanWellFounded
<1> HIDE DEF R
<1>2. PICK x \in T : \A y \in T : ~ (<<y, x>> \in R)
  BY <1>1, WFMin
<1>3. \A y \in T : ~ (y < x)
  BY <1>2 DEF R, OpToRel
<1> QED BY <1>3

LEMMA Induct ==
    ASSUME NEW S, 0 \in S, \A n \in Nat : n \in S => n + 1 \in S
    PROVE  Nat \subseteq S
<1> SUFFICES ASSUME NEW k \in Nat, k \notin S PROVE FALSE
  OBVIOUS
<1> DEFINE T == {n \in Nat : n \notin S}
<1>1. PICK x \in T : \A y \in T : x <= y
  <2> HIDE DEF T
  <2>1. T \in SUBSET Nat /\ T # {}
    BY DEF T
  <2> QED BY <2>1, Least
<1>2. x # 0 /\ x - 1 \in Nat
  BY <1>1
<1>3. x - 1 \in S
  BY <1>1, <1>2
<1> QED BY <1>1, <1>2, <1>3

IsIteration(f, X, x0, n, step) ==
    f \in [0..n -> X] /\ f[0] = x0 /\ \A i \in 1..n : f[i] = step[i][f[i - 1]]

\* Every step function has its sequence of results.
LEMMA Iteration ==
    ASSUME NEW X, NEW x0 \in X, NEW n \in Nat, NEW step \in [1..n -> [X -> X]]
    PROVE  \E f : IsIteration(f, X, x0, n, step)
<1> DEFINE S == {k \in Nat : k <= n => \E f : IsIteration(f, X, x0, k, step)}
<1>1. 0 \in S
  <2>1. IsIteration([i \in 0..0 |-> x0], X, x0, 0, step)
    BY DEF IsIteration
  <2> QED BY <2>1
<1>2. \A k \in Nat : k \in S => k + 1 \in S
  <2>1. SUFFICES ASSUME NEW k \in Nat, k \in S, k + 1 <= n
                 PROVE  \E f : IsIteration(f, X, x0, k + 1, step)
    OBVIOUS
  <2>2. PICK f : IsIteration(f, X, x0, k, step)
    BY <2>1
  <2>3. f \in [0..k -> X] /\ f[0] = x0 /\ \A i \in 1..k : f[i] = step[i][f[i - 1]]
    BY <2>2 DEF IsIteration
  <2>4. k + 1 \in 1..n /\ f[k] \in X
    BY <2>1, <2>3
  <2>5. step[k + 1][f[k]] \in X
    BY <2>4
  <2> DEFINE h == [i \in 0 .. k + 1 |-> IF i = k + 1 THEN step[k + 1][f[k]] ELSE f[i]]
  <2>6. \A i \in 0 .. k + 1 : i = k + 1 \/ i \in 0..k
    OBVIOUS
  <2>7. h \in [0 .. k + 1 -> X]
    BY <2>3, <2>5, <2>6
  <2>8. h[0] = x0
    BY <2>3
  <2>9. h[k + 1] = step[k + 1][f[k]] /\ \A i \in 0..k : h[i] = f[i]
    OBVIOUS
  <2> HIDE DEF h
  <2>10. \A i \in 1 .. k + 1 : h[i] = step[i][h[i - 1]]
    <3> TAKE i \in 1 .. k + 1
    <3>1. CASE i = k + 1
      <4>1. i - 1 = k /\ k \in 0..k
        BY <3>1
      <4>2. h[i - 1] = f[k]
        BY <2>9, <4>1
      <4> QED BY <2>9, <3>1, <4>2
    <3>2. CASE i # k + 1
      <4>1. i \in 1..k /\ i \in 0..k /\ i - 1 \in 0..k
        BY <3>2
      <4>2. h[i] = f[i] /\ h[i - 1] = f[i - 1]
        BY <2>9, <4>1
      <4> QED BY <2>3, <4>1, <4>2
    <3> QED BY <3>1, <3>2
  <2>11. IsIteration(h, X, x0, k + 1, step)
    BY <2>7, <2>8, <2>10 DEF IsIteration
  <2> QED BY <2>11
<1> HIDE DEF S
<1>3. n \in S
  BY <1>1, <1>2, Induct
<1> QED BY <1>3 DEF S

\* Induction up to a bound.
LEMMA UpTo ==
    ASSUME NEW n \in Nat, NEW S, 0 \in S,
           \A i \in 1..n : i - 1 \in S => i \in S
    PROVE  0..n \subseteq S
<1> DEFINE R == {k \in Nat : k <= n => k \in S}
<1>1. 0 \in R
  OBVIOUS
<1>2. \A k \in Nat : k \in R => k + 1 \in R
  <2> SUFFICES ASSUME NEW k \in Nat, k \in R, k + 1 <= n PROVE k + 1 \in S
    OBVIOUS
  <2>1. k \in S /\ k + 1 \in 1..n /\ (k + 1) - 1 = k
    OBVIOUS
  <2> QED BY <2>1
<1> HIDE DEF R
<1>3. Nat \subseteq R
  BY <1>1, <1>2, Induct
<1> QED BY <1>3 DEF R

----------------------------------------------------------------------------
(* Loops.                                                                  *)

Distinct(seq) == \A i, j \in DOMAIN seq : seq[i] = seq[j] => i = j

LEMMA Appended ==
    ASSUME NEW T, NEW seq \in Seq(T), NEW x \in T
    PROVE  /\ Append(seq, x) \in Seq(T)
           /\ ToSet(Append(seq, x)) = ToSet(seq) \cup {x}
           /\ Distinct(seq) /\ x \notin ToSet(seq) => Distinct(Append(seq, x))
<1>1. /\ Append(seq, x) \in Seq(T)
      /\ Len(Append(seq, x)) = Len(seq) + 1
      /\ Append(seq, x)[Len(seq) + 1] = x
      /\ \A i \in 1..Len(seq) : Append(seq, x)[i] = seq[i]
      /\ DOMAIN seq = 1..Len(seq) /\ Len(seq) \in Nat
      /\ DOMAIN Append(seq, x) = 1 .. Len(seq) + 1
  OBVIOUS
<1> DEFINE a == Append(seq, x)
           n == Len(seq)
<1> HIDE DEF a, n
<1>2. \A i \in 1 .. n + 1 : i \in 1..n \/ i = n + 1
  BY <1>1 DEF n
<1>3. \A i \in 1..n : i \in 1 .. n + 1
  BY <1>1 DEF n
<1>4. n + 1 \in 1 .. n + 1
  BY <1>1 DEF n
<1>5. ToSet(a) = ToSet(seq) \cup {x}
  BY <1>1, <1>2, <1>3, <1>4 DEF ToSet, a, n
<1>6. ASSUME Distinct(seq), x \notin ToSet(seq) PROVE Distinct(a)
  <2>1. SUFFICES ASSUME NEW i \in 1 .. n + 1, NEW j \in 1 .. n + 1, a[i] = a[j] PROVE i = j
    BY <1>1 DEF Distinct, a, n
  <2>2. \A k \in 1..n : a[k] = seq[k] /\ a[k] # x
    BY <1>1, <1>6 DEF a, n, ToSet
  <2>3. a[n + 1] = x
    BY <1>1 DEF a, n
  <2>4. CASE i \in 1..n /\ j \in 1..n
    BY <1>1, <1>6, <2>1, <2>2, <2>4 DEF Distinct, n
  <2> QED BY <1>2, <2>1, <2>2, <2>3, <2>4
<1> QED BY <1>1, <1>5, <1>6 DEF a

LEMMA KeepInTypes ==
    ASSUME NEW T, NEW S, NEW kept \in Seq(T), NEW x \in T
    PROVE  KeepIn(S, kept, x) \in Seq(T)
BY DEF KeepIn

LEMMA AmongSteps ==
    ASSUME NEW T, NEW seq \in Seq(T), NEW S
    PROVE  \E after :
              /\ after[0] = <<>>
              /\ \A i \in 1..Len(seq) : after[i] = KeepIn(S, after[i - 1], seq[i])
              /\ Among(seq, S) = after[Len(seq)]
<1> DEFINE n == Len(seq)
           step == [i \in 1..n |-> [x \in Seq(T) |-> KeepIn(S, x, seq[i])]]
           Eq(f) == f = [i \in 0..n |-> IF i = 0 THEN <<>> ELSE KeepIn(S, f[i - 1], seq[i])]
           after == CHOOSE f : Eq(f)
<1>1. n \in Nat /\ \A i \in 1..n : seq[i] \in T
  OBVIOUS
<1>2. step \in [1..n -> [Seq(T) -> Seq(T)]]
  BY <1>1, KeepInTypes
<1>3. \A i \in 1..n : \A x \in Seq(T) : step[i][x] = KeepIn(S, x, seq[i])
  OBVIOUS
<1>4. Among(seq, S) = after[n]
  BY DEF Among, InTurn
<1> HIDE DEF n, step
<1>5. <<>> \in Seq(T)
  OBVIOUS
<1>6. PICK f : IsIteration(f, Seq(T), <<>>, n, step)
  BY <1>1, <1>2, <1>5, Iteration
<1>7. f \in [0..n -> Seq(T)] /\ f[0] = <<>> /\ \A i \in 1..n : f[i] = step[i][f[i - 1]]
  BY <1>6 DEF IsIteration
<1>8. \A i \in 1..n : i - 1 \in 0..n /\ i # 0 /\ i \in 0..n
  BY <1>1
<1>9. \A i \in 1..n : f[i] = KeepIn(S, f[i - 1], seq[i])
  BY <1>3, <1>7, <1>8
<1>10. 0 \in 0..n /\ \A i \in 0..n : i = 0 \/ i \in 1..n
  BY <1>1
<1>11. Eq(f)
  BY <1>7, <1>8, <1>9, <1>10
<1>12. Eq(after)
  BY <1>11
<1> HIDE DEF after
<1>13. after[0] = <<>> /\ \A i \in 1..n : after[i] = KeepIn(S, after[i - 1], seq[i])
  BY <1>8, <1>10, <1>12
<1> QED BY <1>4, <1>13 DEF n

\* Among keeps exactly the elements in S, and no more of each than there were.
LEMMA AmongKeeps ==
    ASSUME NEW T, NEW seq \in Seq(T), NEW S
    PROVE  /\ Among(seq, S) \in Seq(T)
           /\ ToSet(Among(seq, S)) = ToSet(seq) \cap S
           /\ Distinct(seq) => Distinct(Among(seq, S))
<1>1. PICK after : /\ after[0] = <<>>
                   /\ \A i \in 1..Len(seq) : after[i] = KeepIn(S, after[i - 1], seq[i])
                   /\ Among(seq, S) = after[Len(seq)]
  BY AmongSteps
<1> DEFINE n == Len(seq)
           first(i) == {seq[k] : k \in 1..i}
           Good(i) == /\ after[i] \in Seq(T)
                      /\ ToSet(after[i]) = first(i) \cap S
                      /\ Distinct(seq) => Distinct(after[i])
           G == {i \in Nat : Good(i)}
<1>2. n \in Nat /\ DOMAIN seq = 1..n /\ \A i \in 1..n : seq[i] \in T
  OBVIOUS
<1> HIDE DEF n
<1>3. Good(0)
  <2>1. first(0) = {}
    OBVIOUS
  <2>2. Distinct(<<>>) /\ ToSet(<<>>) = {} /\ <<>> \in Seq(T)
    BY DEF Distinct, ToSet
  <2> QED BY <1>1, <2>1, <2>2
<1>4. ASSUME NEW i \in 1..n, Good(i - 1) PROVE Good(i)
  <2>1. after[i] = KeepIn(S, after[i - 1], seq[i]) /\ seq[i] \in T
    BY <1>1, <1>2 DEF n
  <2>2. first(i) = first(i - 1) \cup {seq[i]}
    <3>1. \A k \in 1..i : k \in 1 .. i - 1 \/ k = i
      BY <1>2
    <3>2. \A k \in 1 .. i - 1 : k \in 1..i
      BY <1>2
    <3>3. i \in 1..i
      BY <1>2
    <3> QED BY <3>1, <3>2, <3>3
  <2>3. Distinct(seq) => seq[i] \notin first(i - 1)
    <3>1. \A k \in 1 .. i - 1 : k \in DOMAIN seq /\ k # i
      BY <1>2
    <3> QED BY <1>2, <3>1 DEF Distinct
  <2> HIDE DEF first
  <2>4. CASE seq[i] \in S
    <3>1. after[i] = Append(after[i - 1], seq[i])
      BY <2>1, <2>4 DEF KeepIn
    <3>2. /\ after[i] \in Seq(T)
          /\ ToSet(after[i]) = ToSet(after[i - 1]) \cup {seq[i]}
          /\ Distinct(after[i - 1]) /\ seq[i] \notin ToSet(after[i - 1]) => Distinct(after[i])
      BY <1>4, <2>1, <3>1, Appended
    <3> QED BY <1>4, <2>2, <2>3, <2>4, <3>2
  <2>5. CASE seq[i] \notin S
    <3>1. after[i] = after[i - 1]
      BY <2>1, <2>5 DEF KeepIn
    <3> QED BY <1>4, <2>2, <2>5, <3>1
  <2> QED BY <2>4, <2>5
<1> HIDE DEF Good
<1>5. 0..n \subseteq G
  <2>1. 0 \in G /\ \A i \in 1..n : i - 1 \in G => i \in G
    BY <1>2, <1>3, <1>4
  <2> HIDE DEF G
  <2> QED BY <1>2, <2>1, UpTo
<1>6. Good(n)
  BY <1>2, <1>5
<1>7. first(n) = ToSet(seq)
  BY <1>2 DEF ToSet
<1> QED BY <1>1, <1>6, <1>7 DEF Good, n

----------------------------------------------------------------------------
(* The graph keeps its shape, and joins the flights that compete for a gate. *)

Graphs ==
    [order : Seq(FlightKeys),
     flight : [FlightKeys -> Event \cup {None}],
     adj : [FlightKeys -> Seq(FlightKeys)],
     link : [FlightKeys \X FlightKeys -> LinkTypes]]

Shaped == {g \in Graphs : WellFormed(g)}

LEMMA GraphFields ==
    ASSUME NEW g \in Graphs
    PROVE  /\ g.order \in Seq(FlightKeys)
           /\ g.flight \in [FlightKeys -> Event \cup {None}]
           /\ g.adj \in [FlightKeys -> Seq(FlightKeys)]
           /\ g.link \in [FlightKeys \X FlightKeys -> LinkTypes]
           /\ Nodes(g) \subseteq FlightKeys
BY DEF Graphs, Nodes, ToSet

LEMMA EventFields ==
    ASSUME NEW e \in Event
    PROVE  /\ e.key \in FlightKeys /\ e.gate \in Gates \cup {None}
           /\ e.dep \in Nat /\ e.arr \in Nat /\ e.delay \in Nat /\ e.timestamp \in Nat
           /\ e # None /\ e # Garbage
BY LogAssumption DEF Event

\* The parts of WellFormed, over Distinct.
LEMMA ShapeParts ==
    ASSUME NEW g \in Graphs
    PROVE  WellFormed(g) <=>
              /\ Distinct(g.order)
              /\ \A k \in FlightKeys : k \in Nodes(g) <=> g.flight[k] # None
              /\ \A k \in FlightKeys : Distinct(g.adj[k])
              /\ \A j, k \in FlightKeys : k \in ToSet(g.adj[j]) <=> HasEdge(g, j, k)
              /\ \A k \in FlightKeys : ~HasEdge(g, k, k)
              /\ \A j, k \in FlightKeys : HasEdge(g, j, k) => {j, k} \subseteq Nodes(g)
BY DEF WellFormed, Distinct

\* A node has the attributes of a flight.
LEMMA NodesAreFlights ==
    ASSUME NEW g \in Shaped, NEW k \in Nodes(g)
    PROVE  k \in FlightKeys /\ g.flight[k] \in Event
<1>1. g \in Graphs /\ k \in FlightKeys
  BY GraphFields DEF Shaped
<1>2. g.flight[k] # None
  BY <1>1, ShapeParts DEF Shaped
<1> QED BY <1>1, <1>2, GraphFields

LEMMA AddFlightKeeps ==
    ASSUME NEW g \in Shaped, NEW f \in Event
    PROVE  /\ AddFlight(g, f) \in Shaped
           /\ Nodes(AddFlight(g, f)) = Nodes(g) \cup {f.key}
           /\ AddFlight(g, f).flight = [g.flight EXCEPT ![f.key] = f]
           /\ AddFlight(g, f).link = g.link
           /\ AddFlight(g, f).adj = g.adj
<1> DEFINE a == AddFlight(g, f)
           order == IF f.key \in Nodes(g) THEN g.order ELSE Append(g.order, f.key)
           flight == [g.flight EXCEPT ![f.key] = f]
<1>1. g \in Graphs /\ WellFormed(g) /\ f.key \in FlightKeys /\ f # None
  BY EventFields DEF Shaped
<1>2. a = [g EXCEPT !.order = order, !.flight = flight]
  BY DEF AddFlight
<1>3. order \in Seq(FlightKeys) /\ Distinct(order) /\ ToSet(order) = Nodes(g) \cup {f.key}
  <2>1. g.order \in Seq(FlightKeys) /\ Distinct(g.order) /\ ToSet(g.order) = Nodes(g)
    BY <1>1, GraphFields, ShapeParts DEF Nodes
  <2>2. CASE f.key \in Nodes(g)
    BY <2>1, <2>2
  <2>3. CASE f.key \notin Nodes(g)
    BY <1>1, <2>1, <2>3, Appended
  <2> QED BY <2>2, <2>3
<1>4. flight \in [FlightKeys -> Event \cup {None}]
  BY <1>1, GraphFields
<1> HIDE DEF a, order
<1>5. /\ a \in Graphs
      /\ a.order = order /\ a.flight = flight /\ a.link = g.link /\ a.adj = g.adj
  <2> HIDE DEF flight
  <2> QED BY <1>1, <1>2, <1>3, <1>4 DEF Graphs
<1>6. Nodes(a) = Nodes(g) \cup {f.key}
  BY <1>3, <1>5 DEF Nodes
<1>7. \A k \in FlightKeys : k \in Nodes(a) <=> a.flight[k] # None
  BY <1>1, <1>5, <1>6, GraphFields, ShapeParts
<1>8. WellFormed(a)
  <2>1. \A j, k \in FlightKeys : HasEdge(a, j, k) <=> HasEdge(g, j, k)
    BY <1>5 DEF HasEdge
  <2>2. /\ \A k \in FlightKeys : Distinct(g.adj[k])
        /\ \A j, k \in FlightKeys : k \in ToSet(g.adj[j]) <=> HasEdge(g, j, k)
        /\ \A k \in FlightKeys : ~HasEdge(g, k, k)
        /\ \A j, k \in FlightKeys : HasEdge(g, j, k) => {j, k} \subseteq Nodes(g)
    BY <1>1, ShapeParts
  <2>3. /\ \A k \in FlightKeys : Distinct(a.adj[k])
        /\ \A j, k \in FlightKeys : k \in ToSet(a.adj[j]) <=> HasEdge(a, j, k)
        /\ \A k \in FlightKeys : ~HasEdge(a, k, k)
    BY <1>5, <2>1, <2>2
  <2>4. \A j, k \in FlightKeys : HasEdge(a, j, k) => {j, k} \subseteq Nodes(a)
    BY <1>6, <2>1, <2>2
  <2> QED BY <1>3, <1>5, <1>7, <2>3, <2>4, ShapeParts
<1> QED BY <1>5, <1>6, <1>8 DEF Shaped, a

\* The nodes add_edges_for_flight joins to f.
Linked(g, f) == {j \in Nodes(g) \ {f.key} : LinkFor(g.flight[j], f) # "none"}

LEMMA AddEdgesFields ==
    ASSUME NEW g \in Graphs, NEW f \in Event
    PROVE  LET r == AddEdges(g, f) IN
           /\ r \in Graphs
           /\ r.order = g.order /\ r.flight = g.flight
           /\ \A j \in FlightKeys :
                 r.adj[j] = IF j \in Linked(g, f) /\ g.link[<<j, f.key>>] = "none"
                            THEN Append(g.adj[j], f.key) ELSE g.adj[j]
           /\ \A j, k \in FlightKeys :
                 r.link[<<j, k>>] = IF k = f.key /\ j \in Linked(g, f)
                                    THEN LinkFor(g.flight[j], f) ELSE g.link[<<j, k>>]
<1> DEFINE r == AddEdges(g, f)
           adj == [j \in FlightKeys |->
                     IF j \in Linked(g, f) /\ g.link[<<j, f.key>>] = "none"
                     THEN Append(g.adj[j], f.key) ELSE g.adj[j]]
           link == [e \in FlightKeys \X FlightKeys |->
                      IF e[2] = f.key /\ e[1] \in Linked(g, f)
                      THEN LinkFor(g.flight[e[1]], f) ELSE g.link[e]]
<1>1. /\ g.order \in Seq(FlightKeys) /\ g.flight \in [FlightKeys -> Event \cup {None}]
      /\ g.adj \in [FlightKeys -> Seq(FlightKeys)]
      /\ g.link \in [FlightKeys \X FlightKeys -> LinkTypes]
      /\ f.key \in FlightKeys
  BY GraphFields, EventFields
<1>2. DOMAIN g.link = FlightKeys \X FlightKeys
  BY <1>1
<1>3. r = [g EXCEPT !.adj = adj, !.link = link]
  BY <1>2 DEF AddEdges, Linked
<1>4. adj \in [FlightKeys -> Seq(FlightKeys)]
  BY <1>1
<1>5. link \in [FlightKeys \X FlightKeys -> LinkTypes]
  BY <1>1 DEF LinkFor, LinkTypes
<1>6. \A j, k \in FlightKeys : link[<<j, k>>] = IF k = f.key /\ j \in Linked(g, f)
                                    THEN LinkFor(g.flight[j], f) ELSE g.link[<<j, k>>]
  OBVIOUS
<1>7. \A j \in FlightKeys :
                 adj[j] = IF j \in Linked(g, f) /\ g.link[<<j, f.key>>] = "none"
                            THEN Append(g.adj[j], f.key) ELSE g.adj[j]
  OBVIOUS
<1> HIDE DEF adj, link, r
<1>8. r.adj = adj /\ r.link = link /\ r.order = g.order /\ r.flight = g.flight /\ r \in Graphs
  BY <1>1, <1>3, <1>4, <1>5 DEF Graphs
<1> QED BY <1>6, <1>7, <1>8 DEF r

LEMMA AddEdgesKeeps ==
    ASSUME NEW g \in Shaped, NEW f \in Event, f.key \in Nodes(g)
    PROVE  /\ AddEdges(g, f) \in Shaped
           /\ Nodes(AddEdges(g, f)) = Nodes(g)
<1> DEFINE r == AddEdges(g, f)
           L == Linked(g, f)
<1>1. g \in Graphs /\ WellFormed(g) /\ f.key \in FlightKeys
  BY EventFields DEF Shaped
<1>2. /\ r \in Graphs
      /\ r.order = g.order /\ r.flight = g.flight
      /\ \A j \in FlightKeys :
            r.adj[j] = IF j \in L /\ g.link[<<j, f.key>>] = "none"
                       THEN Append(g.adj[j], f.key) ELSE g.adj[j]
      /\ \A j, k \in FlightKeys :
            r.link[<<j, k>>] = IF k = f.key /\ j \in L
                               THEN LinkFor(g.flight[j], f) ELSE g.link[<<j, k>>]
  BY <1>1, AddEdgesFields
<1>3. \A j \in L : j \in Nodes(g) /\ j \in FlightKeys /\ j # f.key /\ LinkFor(g.flight[j], f) # "none"
  BY <1>1, GraphFields DEF Linked
<1>4. /\ Distinct(g.order)
      /\ \A k \in FlightKeys : k \in Nodes(g) <=> g.flight[k] # None
      /\ \A k \in FlightKeys : Distinct(g.adj[k])
      /\ \A j, k \in FlightKeys : k \in ToSet(g.adj[j]) <=> HasEdge(g, j, k)
      /\ \A k \in FlightKeys : ~HasEdge(g, k, k)
      /\ \A j, k \in FlightKeys : HasEdge(g, j, k) => {j, k} \subseteq Nodes(g)
  BY <1>1, ShapeParts
<1> HIDE DEF r, L
<1>5. Nodes(r) = Nodes(g)
  BY <1>2 DEF Nodes
<1>6. \A j, k \in FlightKeys : HasEdge(r, j, k) <=> HasEdge(g, j, k) \/ (k = f.key /\ j \in L)
  BY <1>2, <1>3, ZenonT(60) DEF HasEdge
<1>7. ASSUME NEW j \in FlightKeys
      PROVE  /\ Distinct(r.adj[j])
             /\ \A k \in FlightKeys : k \in ToSet(r.adj[j]) <=> HasEdge(r, j, k)
  <2>1. CASE j \in L /\ g.link[<<j, f.key>>] = "none"
    <3>1. r.adj[j] = Append(g.adj[j], f.key)
      BY <1>2, <2>1
    <3>2. f.key \notin ToSet(g.adj[j])
      BY <1>1, <1>4, <2>1 DEF HasEdge
    <3>3. ToSet(r.adj[j]) = ToSet(g.adj[j]) \cup {f.key} /\ Distinct(r.adj[j])
      BY <1>1, <1>4, <3>1, <3>2, GraphFields, Appended
    <3> QED BY <1>4, <1>6, <2>1, <3>3
  <2>2. CASE ~(j \in L /\ g.link[<<j, f.key>>] = "none")
    <3>1. r.adj[j] = g.adj[j]
      BY <1>2, <2>2
    <3>2. j \in L => HasEdge(g, j, f.key)
      BY <2>2 DEF HasEdge
    <3> QED BY <1>1, <1>4, <1>6, <3>1, <3>2
  <2> QED BY <2>1, <2>2
<1>8. \A k \in FlightKeys : ~HasEdge(r, k, k)
  BY <1>3, <1>4, <1>6
<1>9. \A j, k \in FlightKeys : HasEdge(r, j, k) => {j, k} \subseteq Nodes(r)
  BY <1>3, <1>4, <1>5, <1>6
<1>10. WellFormed(r)
  BY <1>2, <1>4, <1>5, <1>7, <1>8, <1>9, ShapeParts
<1> QED BY <1>2, <1>5, <1>10 DEF Shaped, r

LEMMA ProcessEventKeeps ==
    ASSUME NEW g \in Shaped, NEW f \in Event
    PROVE  /\ ProcessEvent(g, f) \in Shaped
           /\ Nodes(ProcessEvent(g, f)) = Nodes(g) \cup {f.key}
BY AddFlightKeeps, AddEdgesKeeps DEF ProcessEvent

\* Needing one gate at one time is mutual.
LEMMA ConflictIsMutual ==
    ASSUME NEW a \in Event, NEW b \in Event
    PROVE  Conflict(a, b) <=> Conflict(b, a)
BY EventFields DEF Conflict, SameGate, Overlaps

\* A flight that is added, or whose gate or times change, is joined to every
\* flight it now competes with; what joins the others stays.
LEMMA ProcessEventLinks ==
    ASSUME NEW g \in Shaped, ConflictsAreLinked(g), NEW f \in Event
    PROVE  ConflictsAreLinked(ProcessEvent(g, f))
<1> DEFINE a == AddFlight(g, f)
           r == AddEdges(a, f)
<1>1. /\ a \in Shaped /\ a \in Graphs
      /\ Nodes(a) = Nodes(g) \cup {f.key}
      /\ a.flight = [g.flight EXCEPT ![f.key] = f]
      /\ a.link = g.link
  BY AddFlightKeeps DEF Shaped
<1> HIDE DEF a
<1>2. /\ r.flight = a.flight
      /\ \A j, k \in FlightKeys :
            r.link[<<j, k>>] = IF k = f.key /\ j \in Linked(a, f)
                               THEN LinkFor(a.flight[j], f) ELSE a.link[<<j, k>>]
  BY <1>1, AddEdgesFields
<1>3. r \in Shaped /\ Nodes(r) = Nodes(a)
  BY <1>1, AddEdgesKeeps
<1> HIDE DEF r
<1>4. f.key \in FlightKeys /\ g \in Graphs
  BY EventFields DEF Shaped
<1>5. a.flight[f.key] = f /\ \A j \in FlightKeys \ {f.key} : a.flight[j] = g.flight[j]
  BY <1>1, <1>4, GraphFields
<1>6. \A j \in Nodes(r) : j \in FlightKeys /\ r.flight[j] \in Event
  BY <1>3, NodesAreFlights
<1>7. ASSUME NEW j \in Nodes(r), j # f.key, Conflict(r.flight[j], f)
      PROVE  r.link[<<j, f.key>>] = "gate_reuse"
  <2>1. LinkFor(a.flight[j], f) = "gate_reuse"
    BY <1>2, <1>7 DEF LinkFor
  <2>2. j \in Linked(a, f)
    BY <1>3, <1>7, <2>1 DEF Linked
  <2> QED BY <1>2, <1>4, <1>6, <1>7, <2>1, <2>2
<1>8. ASSUME NEW j \in Nodes(r), NEW k \in Nodes(r), j # k, Conflict(r.flight[j], r.flight[k])
      PROVE  r.link[<<j, k>>] = "gate_reuse" \/ r.link[<<k, j>>] = "gate_reuse"
  <2>1. CASE k = f.key
    BY <1>2, <1>5, <1>7, <1>8, <2>1
  <2>2. CASE j = f.key
    <3>1. Conflict(r.flight[k], f)
      BY <1>2, <1>5, <1>6, <1>8, <2>2, ConflictIsMutual
    <3> QED BY <1>7, <1>8, <2>2, <3>1
  <2>3. CASE j # f.key /\ k # f.key
    <3>1. j \in Nodes(g) /\ k \in Nodes(g)
      BY <1>1, <1>3, <2>3
    <3>2. Conflict(g.flight[j], g.flight[k])
      BY <1>2, <1>5, <1>6, <1>8, <2>3
    <3>3. g.link[<<j, k>>] = "gate_reuse" \/ g.link[<<k, j>>] = "gate_reuse"
      BY <1>8, <3>1, <3>2 DEF ConflictsAreLinked
    <3> QED BY <1>1, <1>2, <1>6, <2>3, <3>3
  <2> QED BY <2>1, <2>2, <2>3
<1>9. ConflictsAreLinked(r)
  BY <1>8 DEF ConflictsAreLinked
<1> QED BY <1>9 DEF ProcessEvent, r, a

\* What GateConflictsAreLinked needs of a graph to outlast every operation.
Sound == {g \in Shaped : ConflictsAreLinked(g)}

LEMMA ProcessEventIsSound ==
    ASSUME NEW g \in Sound, NEW f \in Event
    PROVE  ProcessEvent(g, f) \in Sound
BY ProcessEventKeeps, ProcessEventLinks DEF Sound

LEMMA EmptyIsSound == EmptyGraph \in Sound
<1> DEFINE order == <<>>
           flight == [k \in FlightKeys |-> None]
           adj == [k \in FlightKeys |-> <<>>]
           link == [e \in FlightKeys \X FlightKeys |-> "none"]
<1>1. EmptyGraph = [order |-> order, flight |-> flight, adj |-> adj, link |-> link]
  BY DEF EmptyGraph
<1>2. /\ order \in Seq(FlightKeys)
      /\ flight \in [FlightKeys -> Event \cup {None}]
      /\ adj \in [FlightKeys -> Seq(FlightKeys)]
  OBVIOUS
<1>3. link \in [FlightKeys \X FlightKeys -> LinkTypes]
  BY DEF LinkTypes
<1>4. /\ ToSet(order) = {} /\ Distinct(order)
      /\ \A k \in FlightKeys : flight[k] = None /\ ToSet(adj[k]) = {} /\ Distinct(adj[k])
  BY DEF ToSet, Distinct
<1>5. \A j, k \in FlightKeys : link[<<j, k>>] = "none"
  OBVIOUS
<1> HIDE DEF order, flight, adj, link
<1>6. /\ EmptyGraph \in Graphs
      /\ EmptyGraph.order = order /\ EmptyGraph.flight = flight
      /\ EmptyGraph.adj = adj /\ EmptyGraph.link = link
  BY <1>1, <1>2, <1>3 DEF Graphs
<1>7. Nodes(EmptyGraph) = {}
  BY <1>4, <1>6 DEF Nodes
<1>8. WellFormed(EmptyGraph)
  BY <1>4, <1>5, <1>6, <1>7, ShapeParts DEF HasEdge
<1> QED BY <1>6, <1>7, <1>8 DEF Sound, Shaped, ConflictsAreLinked

\* A graph loaded from any rows is as good as one that was never restarted.
LEMMA LoadIsSound ==
    ASSUME NEW rows \in Seq(Event)
    PROVE  Load(rows) \in Sound
<1> DEFINE n == Len(rows)
           step == [i \in 1..n |-> [x \in Sound |-> ProcessEvent(x, rows[i])]]
           Eq(f) == f = [i \in 0..n |-> IF i = 0 THEN EmptyGraph ELSE ProcessEvent(f[i - 1], rows[i])]
           after == CHOOSE f : Eq(f)
<1>1. n \in Nat /\ \A i \in 1..n : rows[i] \in Event
  OBVIOUS
<1>2. step \in [1..n -> [Sound -> Sound]]
  BY <1>1, ProcessEventIsSound
<1>3. \A i \in 1..n : \A x \in Sound : step[i][x] = ProcessEvent(x, rows[i])
  OBVIOUS
<1>4. Load(rows) = after[n]
  BY DEF Load, InTurn
<1> HIDE DEF n, step
<1>5. PICK f : IsIteration(f, Sound, EmptyGraph, n, step)
  BY <1>1, <1>2, EmptyIsSound, Iteration
<1>6. f \in [0..n -> Sound] /\ f[0] = EmptyGraph /\ \A i \in 1..n : f[i] = step[i][f[i - 1]]
  BY <1>5 DEF IsIteration
<1>7. \A i \in 1..n : i - 1 \in 0..n /\ i # 0 /\ i \in 0..n
  BY <1>1
<1>8. \A i \in 1..n : f[i] = ProcessEvent(f[i - 1], rows[i])
  BY <1>3, <1>6, <1>7
<1>9. 0 \in 0..n /\ n \in 0..n /\ \A i \in 0..n : i = 0 \/ i \in 1..n
  BY <1>1
<1>10. Eq(f)
  BY <1>6, <1>7, <1>8, <1>9
<1>11. Eq(after)
  BY <1>10
<1> HIDE DEF after
<1>12. after[0] = EmptyGraph /\ \A i \in 1..n : after[i] = ProcessEvent(after[i - 1], rows[i])
  BY <1>7, <1>9, <1>11
<1> DEFINE S == {i \in 0..n : after[i] \in Sound}
<1>13. 0 \in S /\ \A i \in 1..n : i - 1 \in S => i \in S
  BY <1>1, <1>7, <1>9, <1>12, EmptyIsSound, ProcessEventIsSound
<1> HIDE DEF S
<1>14. 0..n \subseteq S
  BY <1>1, <1>13, UpTo
<1> QED BY <1>4, <1>9, <1>14 DEF S

----------------------------------------------------------------------------
(* resolve_gate_conflicts.                                                 *)

LEMMA FreeGateIsFree ==
    ASSUME NEW used, FreeGates(used) # {}
    PROVE  FreeGateFor(used) \in Gates \ used
<1>1. GatePool \in Seq(Gates) /\ DOMAIN GatePool \subseteq Nat
  BY PoolAssumption
<1>2. FreeGates(used) \in SUBSET Nat
  BY <1>1 DEF FreeGates
<1>3. Min(FreeGates(used)) \in FreeGates(used)
  BY <1>2, Least DEF Min
<1> QED BY <1>1, <1>3 DEF FreeGates, FreeGateFor

Moves(N) == Seq([key : N, old : Gates \cup {None}, new : Gates])

\* A state of the loop over a graph with the nodes N.
Resolving(N) ==
    {s \in [graph : Sound, used : SUBSET Gates, moves : Moves(N)] :
       Nodes(s.graph) = N /\ UsedGates(s.graph) \subseteq s.used}

\* What a turn of the loop leaves as it was: all but gates and edges, and no
\* edge is added.
Keeps(g, h) ==
    /\ Nodes(h) = Nodes(g)
    /\ \A k \in Nodes(g) : h.flight[k] = [g.flight[k] EXCEPT !.gate = h.flight[k].gate]
    /\ \A j, k \in FlightKeys : h.link[<<j, k>>] \in {g.link[<<j, k>>], "none"}

Later(s, r) == s.used \subseteq r.used /\ Keeps(s.graph, r.graph)

\* The edge is no conflict, or there was no gate left for it.
Done(s, j, k) ==
    \/ s.graph.link[<<j, k>>] # "gate_reuse"
    \/ ~Overlaps(s.graph.flight[j], s.graph.flight[k])
    \/ FreeGates(s.used) = {}

LEMMA KeepsIsTransitive ==
    ASSUME NEW g \in Shaped, NEW h \in Shaped, NEW i \in Shaped, Keeps(g, h), Keeps(h, i)
    PROVE  Keeps(g, i)
<1>1. Nodes(g) = Nodes(h) /\ Nodes(h) = Nodes(i)
  BY DEF Keeps
<1>2. ASSUME NEW k \in Nodes(g) PROVE i.flight[k] = [g.flight[k] EXCEPT !.gate = i.flight[k].gate]
  <2>1. g.flight[k] \in Event
    BY NodesAreFlights
  <2>2. h.flight[k] = [g.flight[k] EXCEPT !.gate = h.flight[k].gate]
    BY DEF Keeps
  <2>3. i.flight[k] = [h.flight[k] EXCEPT !.gate = i.flight[k].gate]
    BY <1>1 DEF Keeps
  <2> QED BY <2>1, <2>2, <2>3 DEF Event
<1>3. \A j, k \in FlightKeys : i.link[<<j, k>>] \in {g.link[<<j, k>>], "none"}
  BY DEF Keeps
<1> QED BY <1>1, <1>2, <1>3 DEF Keeps

LEMMA KeepsIsReflexive ==
    ASSUME NEW g \in Shaped
    PROVE  Keeps(g, g)
<1>1. \A k \in Nodes(g) : g.flight[k] = [g.flight[k] EXCEPT !.gate = g.flight[k].gate]
  BY NodesAreFlights DEF Event
<1> QED BY <1>1 DEF Keeps

Without(k) == FlightKeys \ {k}

\* The graph once the destination k of an edge has moved to a gate.
Moved(g, j, k, gate) ==
    [g EXCEPT !.flight[k].gate = gate,
              !.adj[j] = Among(@, Without(k)),
              !.link[<<j, k>>] = "none"]

LEMMA MovedFields ==
    ASSUME NEW g \in Shaped, NEW j \in Nodes(g), NEW k \in Nodes(g), NEW gate \in Gates,
           NEW h, h = Moved(g, j, k, gate)
    PROVE  /\ h \in Graphs
           /\ h.order = g.order
           /\ h.flight[k] = [g.flight[k] EXCEPT !.gate = gate]
           /\ \A n \in FlightKeys \ {k} : h.flight[n] = g.flight[n]
           /\ h.adj[j] = Among(g.adj[j], Without(k))
           /\ \A n \in FlightKeys \ {j} : h.adj[n] = g.adj[n]
           /\ h.link[<<j, k>>] = "none"
           /\ \A m, n \in FlightKeys : ~(m = j /\ n = k) => h.link[<<m, n>>] = g.link[<<m, n>>]
<1> DEFINE flight == [g.flight EXCEPT ![k] = [g.flight[k] EXCEPT !.gate = gate]]
           adj == [g.adj EXCEPT ![j] = Among(g.adj[j], Without(k))]
           link == [g.link EXCEPT ![<<j, k>>] = "none"]
<1>1. /\ g \in Graphs /\ j \in FlightKeys /\ k \in FlightKeys /\ g.flight[k] \in Event
  BY NodesAreFlights DEF Shaped
<1>2. h = [g EXCEPT !.flight = flight, !.adj = adj, !.link = link]
  BY DEF Moved
<1>3. flight \in [FlightKeys -> Event \cup {None}]
  <2>1. [g.flight[k] EXCEPT !.gate = gate] \in Event
    BY <1>1 DEF Event
  <2> QED BY <1>1, <2>1, GraphFields
<1>4. adj \in [FlightKeys -> Seq(FlightKeys)]
  BY <1>1, GraphFields, AmongKeeps
<1>5. link \in [FlightKeys \X FlightKeys -> LinkTypes]
  BY <1>1, GraphFields DEF LinkTypes
<1>6. /\ flight[k] = [g.flight[k] EXCEPT !.gate = gate]
      /\ \A n \in FlightKeys \ {k} : flight[n] = g.flight[n]
      /\ adj[j] = Among(g.adj[j], Without(k))
      /\ \A n \in FlightKeys \ {j} : adj[n] = g.adj[n]
  BY <1>1, GraphFields
<1>7. /\ link[<<j, k>>] = "none"
      /\ \A m, n \in FlightKeys : ~(m = j /\ n = k) => link[<<m, n>>] = g.link[<<m, n>>]
  BY <1>1, GraphFields
<1> HIDE DEF flight, adj, link
<1>8. /\ h \in Graphs /\ h.order = g.order
      /\ h.flight = flight /\ h.adj = adj /\ h.link = link
  BY <1>1, <1>2, <1>3, <1>4, <1>5 DEF Graphs
<1> QED BY <1>6, <1>7, <1>8

LEMMA MovedIsShaped ==
    ASSUME NEW g \in Shaped, NEW j \in Nodes(g), NEW k \in Nodes(g), NEW gate \in Gates
    PROVE  Moved(g, j, k, gate) \in Shaped /\ Nodes(Moved(g, j, k, gate)) = Nodes(g)
<1> DEFINE h == Moved(g, j, k, gate)
           kept == Among(g.adj[j], Without(k))
<1>1. /\ h \in Graphs
      /\ h.order = g.order
      /\ h.flight[k] = [g.flight[k] EXCEPT !.gate = gate]
      /\ \A n \in FlightKeys \ {k} : h.flight[n] = g.flight[n]
      /\ h.adj[j] = kept
      /\ \A n \in FlightKeys \ {j} : h.adj[n] = g.adj[n]
      /\ h.link[<<j, k>>] = "none"
      /\ \A m, n \in FlightKeys : ~(m = j /\ n = k) => h.link[<<m, n>>] = g.link[<<m, n>>]
  BY MovedFields
<1> HIDE DEF h
<1>2. g \in Graphs /\ j \in FlightKeys /\ k \in FlightKeys /\ g.flight[k] \in Event
  BY NodesAreFlights DEF Shaped
<1>3. /\ Distinct(g.order)
      /\ \A n \in FlightKeys : n \in Nodes(g) <=> g.flight[n] # None
      /\ \A n \in FlightKeys : Distinct(g.adj[n])
      /\ \A m, n \in FlightKeys : n \in ToSet(g.adj[m]) <=> HasEdge(g, m, n)
      /\ \A n \in FlightKeys : ~HasEdge(g, n, n)
      /\ \A m, n \in FlightKeys : HasEdge(g, m, n) => {m, n} \subseteq Nodes(g)
  BY <1>2, ShapeParts DEF Shaped
<1>4. Nodes(h) = Nodes(g)
  BY <1>1 DEF Nodes
<1>5. \A n \in FlightKeys : n \in Nodes(h) <=> h.flight[n] # None
  <2>1. h.flight[k] \in Event
    <3>1. [g.flight[k] EXCEPT !.gate = gate] \in Event
      BY <1>2 DEF Event
    <3> QED BY <1>1, <3>1
  <2>2. h.flight[k] # None
    BY <2>1, EventFields
  <2>3. \A n \in FlightKeys \ {k} : h.flight[n] = g.flight[n]
    BY <1>1
  <2> QED BY <1>3, <1>4, <2>2, <2>3
<1>6. kept \in Seq(FlightKeys) /\ ToSet(kept) = ToSet(g.adj[j]) \cap Without(k)
      /\ Distinct(kept)
  BY <1>2, <1>3, GraphFields, AmongKeeps
<1> HIDE DEF kept
<1>7. h.adj[j] = kept /\ \A n \in FlightKeys \ {j} : h.adj[n] = g.adj[n]
  BY <1>1
<1>8. \A m, n \in FlightKeys : HasEdge(h, m, n) <=> HasEdge(g, m, n) /\ ~(m = j /\ n = k)
  BY <1>1, <1>2 DEF HasEdge
<1>9. \A n \in FlightKeys : Distinct(h.adj[n])
  BY <1>3, <1>6, <1>7
<1>10. \A m, n \in FlightKeys : n \in ToSet(h.adj[m]) <=> HasEdge(h, m, n)
  <2> TAKE m \in FlightKeys, n \in FlightKeys
  <2>1. CASE m = j
    BY <1>3, <1>6, <1>7, <1>8, <2>1 DEF Without
  <2>2. CASE m # j
    BY <1>3, <1>7, <1>8, <2>2
  <2> QED BY <2>1, <2>2
<1>11. WellFormed(h)
  BY <1>1, <1>3, <1>4, <1>5, <1>8, <1>9, <1>10, ShapeParts
<1> QED BY <1>1, <1>4, <1>11 DEF Shaped, h

\* A flight at a gate that nobody else uses competes with nobody, so that the
\* edge it was found by is not missed.
LEMMA MovedIsSound ==
    ASSUME NEW g \in Sound, NEW j \in Nodes(g), NEW k \in Nodes(g),
           NEW gate \in Gates \ UsedGates(g)
    PROVE  /\ Moved(g, j, k, gate) \in Sound
           /\ Keeps(g, Moved(g, j, k, gate))
           /\ UsedGates(Moved(g, j, k, gate)) \subseteq UsedGates(g) \cup {gate}
           /\ Moved(g, j, k, gate).link[<<j, k>>] = "none"
<1> DEFINE h == Moved(g, j, k, gate)
<1>1. /\ h.flight[k] = [g.flight[k] EXCEPT !.gate = gate]
      /\ \A n \in FlightKeys \ {k} : h.flight[n] = g.flight[n]
      /\ h.link[<<j, k>>] = "none"
      /\ \A m, n \in FlightKeys : ~(m = j /\ n = k) => h.link[<<m, n>>] = g.link[<<m, n>>]
  BY MovedFields DEF Sound
<1>2. h \in Shaped /\ Nodes(h) = Nodes(g)
  BY MovedIsShaped DEF Sound
<1> HIDE DEF h
<1>3. g \in Shaped /\ g \in Graphs /\ j \in FlightKeys /\ k \in FlightKeys
  BY NodesAreFlights DEF Sound, Shaped
<1>4. \A n \in Nodes(g) : n \in FlightKeys /\ g.flight[n] \in Event /\ h.flight[n] \in Event
  BY <1>2, <1>3, NodesAreFlights
<1>5. \A n \in FlightKeys \ {k} : h.flight[n] = g.flight[n]
  BY <1>1, <1>3, GraphFields
<1>6. h.flight[k] = [g.flight[k] EXCEPT !.gate = gate]
  BY <1>1, <1>3, GraphFields
<1>7. h.flight[k].gate = gate
  BY <1>4, <1>6 DEF Event
<1>8. gate # None
  BY PoolAssumption
<1>9. \A n \in Nodes(g) \ {k} : g.flight[n].gate # gate
  BY <1>8 DEF UsedGates
<1>10. \A m, n \in FlightKeys : h.link[<<m, n>>] \in {g.link[<<m, n>>], "none"}
  BY <1>1
<1>11. ConflictsAreLinked(h)
  <2>1. SUFFICES ASSUME NEW m \in Nodes(h), NEW n \in Nodes(h), m # n,
                        Conflict(h.flight[m], h.flight[n])
                 PROVE  h.link[<<m, n>>] = "gate_reuse" \/ h.link[<<n, m>>] = "gate_reuse"
    BY DEF ConflictsAreLinked
  <2>2. h.flight[m].gate = h.flight[n].gate
    BY <2>1 DEF Conflict, SameGate
  <2>3. m # k /\ n # k
    BY <1>2, <1>4, <1>5, <1>7, <1>9, <2>1, <2>2
  <2>4. Conflict(g.flight[m], g.flight[n])
    BY <1>2, <1>4, <1>5, <2>1, <2>3
  <2>5. g.link[<<m, n>>] = "gate_reuse" \/ g.link[<<n, m>>] = "gate_reuse"
    BY <1>2, <2>1, <2>4 DEF Sound, ConflictsAreLinked
  <2> QED BY <1>1, <1>2, <1>4, <2>1, <2>3, <2>5
<1>12. Keeps(g, h)
  <2>1. ASSUME NEW n \in Nodes(g) PROVE h.flight[n] = [g.flight[n] EXCEPT !.gate = h.flight[n].gate]
    <3>1. CASE n = k
      BY <1>6, <1>7, <3>1
    <3>2. CASE n # k
      BY <1>4, <1>5, <3>2 DEF Event
    <3> QED BY <3>1, <3>2
  <2> QED BY <1>2, <1>10, <2>1 DEF Keeps
<1>13. UsedGates(h) \subseteq UsedGates(g) \cup {gate}
  <2>1. \A n \in Nodes(g) : h.flight[n].gate = gate \/ h.flight[n].gate = g.flight[n].gate
    BY <1>4, <1>5, <1>7
  <2> QED BY <1>2, <2>1 DEF UsedGates
<1> QED BY <1>1, <1>2, <1>11, <1>12, <1>13 DEF Sound, h

LEMMA ResolveEdgeCases ==
    ASSUME NEW s, NEW j, NEW k
    PROVE  \/ ResolveEdge(s, <<j, k>>) = s /\ Done(s, j, k)
           \/ /\ ~Done(s, j, k)
              /\ ResolveEdge(s, <<j, k>>) =
                   [graph |-> Moved(s.graph, j, k, FreeGateFor(s.used)),
                    used |-> s.used \cup {FreeGateFor(s.used)},
                    moves |-> Append(s.moves, [key |-> k, old |-> s.graph.flight[k].gate,
                                               new |-> FreeGateFor(s.used)])]
BY DEF ResolveEdge, Done, Moved, Without

LEMMA ResolveEdgeKeeps ==
    ASSUME NEW N, NEW s \in Resolving(N), NEW j \in FlightKeys, NEW k \in FlightKeys,
           NEW r, r = ResolveEdge(s, <<j, k>>)
    PROVE  r \in Resolving(N) /\ Later(s, r) /\ Done(r, j, k)
<1> DEFINE gate == FreeGateFor(s.used)
           g == s.graph
           move == [key |-> k, old |-> g.flight[k].gate, new |-> gate]
<1>1. /\ g \in Sound /\ g \in Shaped /\ g \in Graphs
      /\ s.used \in SUBSET Gates /\ s.moves \in Moves(N)
      /\ Nodes(g) = N /\ UsedGates(g) \subseteq s.used
  BY DEF Resolving, Sound, Shaped
<1>2. CASE r = s /\ Done(s, j, k)
  BY <1>1, <1>2, KeepsIsReflexive DEF Later
<1>3. CASE /\ ~Done(s, j, k)
           /\ r = [graph |-> Moved(g, j, k, gate), used |-> s.used \cup {gate},
                   moves |-> Append(s.moves, move)]
  <2>1. j \in Nodes(g) /\ k \in Nodes(g)
    <3>1. HasEdge(g, j, k)
      BY <1>3 DEF HasEdge, Done
    <3>2. {j, k} \subseteq Nodes(g)
      BY <1>1, <3>1, ShapeParts DEF Shaped
    <3> QED BY <3>2
  <2>2. gate \in Gates \ s.used /\ gate \in Gates \ UsedGates(g)
    BY <1>1, <1>3, FreeGateIsFree DEF Done
  <2>3. move \in [key : N, old : Gates \cup {None}, new : Gates]
    BY <1>1, <2>1, <2>2, NodesAreFlights, EventFields
  <2> HIDE DEF gate, move, g
  <2> DEFINE h == Moved(g, j, k, gate)
  <2>4. h \in Sound /\ Keeps(g, h) /\ UsedGates(h) \subseteq UsedGates(g) \cup {gate}
    BY <1>1, <2>1, <2>2, MovedIsSound
  <2>5. h.link[<<j, k>>] = "none"
    BY <1>1, <2>1, <2>2, MovedIsSound
  <2>6. Nodes(h) = N
    BY <1>1, <2>4 DEF Keeps
  <2> HIDE DEF h
  <2>7. Append(s.moves, move) \in Moves(N)
    BY <1>1, <2>3 DEF Moves
  <2>8. /\ r.graph = h /\ r.used = s.used \cup {gate}
        /\ r \in [graph : Sound, used : SUBSET Gates, moves : Moves(N)]
    <3>1. r = [graph |-> h, used |-> s.used \cup {gate}, moves |-> Append(s.moves, move)]
      BY <1>3 DEF h
    <3>2. s.used \cup {gate} \in SUBSET Gates
      BY <1>1, <2>2
    <3>3. r.graph = h /\ r.used = s.used \cup {gate}
      BY <3>1
    <3>4. h \in Sound
      BY <2>4
    <3> DEFINE used == s.used \cup {gate}
               moves == Append(s.moves, move)
    <3>5. r = [graph |-> h, used |-> used, moves |-> moves]
      BY <3>1
    <3>6. used \in SUBSET Gates /\ moves \in Moves(N)
      BY <2>7, <3>2
    <3> HIDE DEF used, moves
    <3>7. r \in [graph : Sound, used : SUBSET Gates, moves : Moves(N)]
      BY <3>4, <3>5, <3>6
    <3> QED BY <3>3, <3>7
  <2>9. r \in Resolving(N)
    BY <1>1, <2>4, <2>6, <2>8 DEF Resolving
  <2>10. Later(s, r)
    BY <2>4, <2>8 DEF Later, g
  <2>11. Done(r, j, k)
    BY <2>5, <2>8 DEF Done
  <2> QED BY <2>9, <2>10, <2>11
<1> QED BY <1>2, <1>3, ResolveEdgeCases

LEMMA ResolvingFields ==
    ASSUME NEW N, NEW s \in Resolving(N)
    PROVE  /\ s.graph \in Sound /\ s.graph \in Shaped /\ s.graph \in Graphs
           /\ Nodes(s.graph) = N /\ s.moves \in Moves(N) /\ s.used \in SUBSET Gates
BY DEF Resolving, Sound, Shaped

LEMMA LaterIsOrder ==
    ASSUME NEW N
    PROVE  /\ \A s \in Resolving(N) : Later(s, s)
           /\ \A s, r, q \in Resolving(N) : Later(s, r) /\ Later(r, q) => Later(s, q)
<1>1. ASSUME NEW s \in Resolving(N) PROVE Later(s, s)
  BY ResolvingFields, KeepsIsReflexive DEF Later
<1>2. ASSUME NEW s \in Resolving(N), NEW r \in Resolving(N), NEW q \in Resolving(N),
             Later(s, r), Later(r, q)
      PROVE  Later(s, q)
  <2>1. Keeps(s.graph, q.graph)
    BY <1>2, ResolvingFields, KeepsIsTransitive DEF Later
  <2>2. s.used \subseteq q.used
    BY <1>2 DEF Later
  <2> QED BY <2>1, <2>2 DEF Later
<1> QED BY <1>1, <1>2

\* No later turn of the loop brings a conflict back.
LEMMA DoneStays ==
    ASSUME NEW N, NEW s \in Resolving(N), NEW r \in Resolving(N), Later(s, r),
           NEW j \in FlightKeys, NEW k \in FlightKeys, Done(s, j, k)
    PROVE  Done(r, j, k)
<1> SUFFICES ASSUME r.graph.link[<<j, k>>] = "gate_reuse", FreeGates(r.used) # {}
             PROVE  ~Overlaps(r.graph.flight[j], r.graph.flight[k])
  BY DEF Done
<1>1. s.graph.link[<<j, k>>] = "gate_reuse"
  BY DEF Later, Keeps
<1>2. FreeGates(s.used) # {}
  <2>1. s.used \subseteq r.used
    BY DEF Later
  <2> QED BY <2>1 DEF FreeGates
<1>3. ~Overlaps(s.graph.flight[j], s.graph.flight[k])
  BY <1>1, <1>2 DEF Done
<1>4. j \in Nodes(s.graph) /\ k \in Nodes(s.graph)
  <2>1. HasEdge(s.graph, j, k)
    BY <1>1 DEF HasEdge
  <2>2. {j, k} \subseteq Nodes(s.graph)
    BY <2>1, ResolvingFields, ShapeParts DEF Shaped
  <2> QED BY <2>2
<1>5. \A n \in Nodes(s.graph) : /\ r.graph.flight[n].dep = s.graph.flight[n].dep
                                /\ r.graph.flight[n].arr = s.graph.flight[n].arr
  <2> TAKE n \in Nodes(s.graph)
  <2>1. s.graph.flight[n] \in Event
    BY ResolvingFields, NodesAreFlights
  <2>2. r.graph.flight[n] = [s.graph.flight[n] EXCEPT !.gate = r.graph.flight[n].gate]
    BY DEF Later, Keeps
  <2> QED BY <2>1, <2>2 DEF Event
<1> QED BY <1>3, <1>4, <1>5 DEF Overlaps

LEMMA ResolveFromKeeps ==
    ASSUME NEW N, NEW s \in Resolving(N), NEW src \in FlightKeys, NEW dsts \in Seq(FlightKeys),
           NEW r, r = ResolveFrom(s, src, dsts)
    PROVE  r \in Resolving(N) /\ Later(s, r) /\ \A m \in 1..Len(dsts) : Done(r, src, dsts[m])
<1> DEFINE n == Len(dsts)
           X == Resolving(N)
           step == [i \in 1..n |-> [x \in X |-> ResolveEdge(x, <<src, dsts[i]>>)]]
           Eq(f) == f = [i \in 0..n |-> IF i = 0 THEN s ELSE ResolveEdge(f[i - 1], <<src, dsts[i]>>)]
           after == CHOOSE f : Eq(f)
<1>1. n \in Nat /\ \A i \in 1..n : dsts[i] \in FlightKeys
  OBVIOUS
<1>2. step \in [1..n -> [X -> X]]
  BY <1>1, ResolveEdgeKeeps
<1>3. \A i \in 1..n : \A x \in X : step[i][x] = ResolveEdge(x, <<src, dsts[i]>>)
  OBVIOUS
<1>4. r = after[n]
  BY DEF ResolveFrom, InTurn
<1>5. s \in X
  OBVIOUS
<1> HIDE DEF n, step
<1>6. PICK f : IsIteration(f, X, s, n, step)
  <2> HIDE DEF X
  <2> QED BY <1>1, <1>2, <1>5, Iteration
<1>7. f \in [0..n -> X] /\ f[0] = s /\ \A i \in 1..n : f[i] = step[i][f[i - 1]]
  BY <1>6 DEF IsIteration
<1>8. \A i \in 1..n : i - 1 \in 0..n /\ i # 0 /\ i \in 0..n
  BY <1>1
<1>9. \A i \in 1..n : f[i] = ResolveEdge(f[i - 1], <<src, dsts[i]>>)
  BY <1>3, <1>7, <1>8
<1>10. 0 \in 0..n /\ n \in 0..n /\ \A i \in 0..n : i = 0 \/ i \in 1..n
  BY <1>1
<1>11. Eq(f)
  BY <1>7, <1>8, <1>9, <1>10
<1>12. Eq(after)
  BY <1>11
<1> HIDE DEF after
<1>13. after[0] = s /\ \A i \in 1..n : after[i] = ResolveEdge(after[i - 1], <<src, dsts[i]>>)
  BY <1>8, <1>10, <1>12
<1> DEFINE Good(i) == /\ after[i] \in X /\ Later(s, after[i])
                      /\ \A m \in 1..i : Done(after[i], src, dsts[m])
           S == {i \in 0..n : Good(i)}
<1>14. Good(0)
  BY <1>5, <1>13, LaterIsOrder
<1>15. ASSUME NEW i \in 1..n, Good(i - 1) PROVE Good(i)
  <2>1. after[i] \in X /\ Later(after[i - 1], after[i]) /\ Done(after[i], src, dsts[i])
    BY <1>1, <1>13, <1>15, ResolveEdgeKeeps
  <2>2. Later(s, after[i])
    BY <1>5, <1>15, <2>1, LaterIsOrder
  <2>3. ASSUME NEW m \in 1..i PROVE Done(after[i], src, dsts[m])
    <3>1. CASE m = i
      BY <2>1, <3>1
    <3>2. CASE m # i
      <4>1. m \in 1 .. i - 1 /\ m \in 1..n
        BY <1>1, <3>2
      <4>2. Done(after[i - 1], src, dsts[m]) /\ dsts[m] \in FlightKeys
        BY <1>1, <1>15, <4>1
      <4> QED BY <1>15, <2>1, <4>2, DoneStays
    <3> QED BY <3>1, <3>2
  <2> QED BY <2>1, <2>2, <2>3
<1> HIDE DEF Good
<1>16. 0 \in S /\ \A i \in 1..n : i - 1 \in S => i \in S
  BY <1>8, <1>10, <1>14, <1>15
<1> HIDE DEF S
<1>17. 0..n \subseteq S
  BY <1>1, <1>16, UpTo
<1>18. Good(n)
  BY <1>10, <1>17 DEF S
<1> QED BY <1>4, <1>18 DEF Good, n

LEMMA ResolveStart ==
    ASSUME NEW g \in Sound
    PROVE  [graph |-> g, used |-> UsedGates(g), moves |-> <<>>] \in Resolving(Nodes(g))
<1>1. UsedGates(g) \in SUBSET Gates
  BY NodesAreFlights, EventFields DEF UsedGates, Sound
<1>2. <<>> \in Moves(Nodes(g))
  BY DEF Moves
<1> QED BY <1>1, <1>2 DEF Resolving

\* The loop takes every edge there was when it started.
LEMMA ResolveKeeps ==
    ASSUME NEW g \in Sound, NEW r, r = Resolve(g)
    PROVE  /\ r \in Resolving(Nodes(g)) /\ Keeps(g, r.graph)
           /\ \A j, k \in FlightKeys : HasEdge(g, j, k) => Done(r, j, k)
<1> DEFINE n == Len(g.order)
           X == Resolving(Nodes(g))
           s == [graph |-> g, used |-> UsedGates(g), moves |-> <<>>]
           step == [i \in 1..n |-> [x \in X |-> ResolveFrom(x, g.order[i], g.adj[g.order[i]])]]
           Eq(f) == f = [i \in 0..n |-> IF i = 0 THEN s
                           ELSE ResolveFrom(f[i - 1], g.order[i], g.adj[g.order[i]])]
           after == CHOOSE f : Eq(f)
<1>1. g \in Shaped /\ g \in Graphs
  BY DEF Sound, Shaped
<1>2. n \in Nat /\ \A i \in 1..n : g.order[i] \in FlightKeys /\ g.adj[g.order[i]] \in Seq(FlightKeys)
  BY <1>1, GraphFields
<1>3. step \in [1..n -> [X -> X]]
  BY <1>2, ResolveFromKeeps
<1>4. \A i \in 1..n : \A x \in X : step[i][x] = ResolveFrom(x, g.order[i], g.adj[g.order[i]])
  OBVIOUS
<1>5. r = after[n]
  BY DEF Resolve, InTurn
<1>6. s \in X
  BY ResolveStart
<1>7. DOMAIN g.order = 1..n
  BY <1>1, GraphFields
<1> HIDE DEF n, step, s
<1>8. PICK f : IsIteration(f, X, s, n, step)
  <2> HIDE DEF X
  <2> QED BY <1>2, <1>3, <1>6, Iteration
<1>9. f \in [0..n -> X] /\ f[0] = s /\ \A i \in 1..n : f[i] = step[i][f[i - 1]]
  BY <1>8 DEF IsIteration
<1>10. \A i \in 1..n : i - 1 \in 0..n /\ i # 0 /\ i \in 0..n
  BY <1>2
<1>11. \A i \in 1..n : f[i] = ResolveFrom(f[i - 1], g.order[i], g.adj[g.order[i]])
  BY <1>4, <1>9, <1>10
<1>12. 0 \in 0..n /\ n \in 0..n /\ \A i \in 0..n : i = 0 \/ i \in 1..n
  BY <1>2
<1>13. Eq(f)
  BY <1>9, <1>10, <1>11, <1>12
<1>14. Eq(after)
  BY <1>13
<1> HIDE DEF after
<1>15. /\ after[0] = s
       /\ \A i \in 1..n : after[i] = ResolveFrom(after[i - 1], g.order[i], g.adj[g.order[i]])
  BY <1>10, <1>12, <1>14
<1> DEFINE Good(i) == /\ after[i] \in X /\ Later(s, after[i])
                      /\ \A m \in 1..i : \A k \in ToSet(g.adj[g.order[m]]) :
                            Done(after[i], g.order[m], k)
           S == {i \in 0..n : Good(i)}
<1>16. Good(0)
  BY <1>6, <1>15, LaterIsOrder
<1>17. ASSUME NEW i \in 1..n, Good(i - 1) PROVE Good(i)
  <2> DEFINE src == g.order[i]
             dsts == g.adj[src]
  <2>1. src \in FlightKeys /\ dsts \in Seq(FlightKeys)
    BY <1>2
  <2>2. /\ after[i] \in X /\ Later(after[i - 1], after[i])
        /\ \A m \in 1..Len(dsts) : Done(after[i], src, dsts[m])
    BY <1>15, <1>17, <2>1, ResolveFromKeeps
  <2>3. \A k \in ToSet(dsts) : Done(after[i], src, k)
    <3> HIDE DEF src, dsts
    <3>1. DOMAIN dsts = 1..Len(dsts)
      BY <2>1
    <3>2. \A k \in ToSet(dsts) : \E m \in 1..Len(dsts) : k = dsts[m]
      BY <3>1 DEF ToSet
    <3> QED BY <2>2, <3>2
  <2>4. Later(s, after[i])
    BY <1>6, <1>17, <2>2, LaterIsOrder
  <2>5. ASSUME NEW m \in 1..i, NEW k \in ToSet(g.adj[g.order[m]])
        PROVE  Done(after[i], g.order[m], k)
    <3>1. CASE m = i
      BY <2>3, <2>5, <3>1
    <3>2. CASE m # i
      <4>1. m \in 1 .. i - 1 /\ m \in 1..n
        BY <1>2, <3>2
      <4>2. Done(after[i - 1], g.order[m], k)
        BY <1>17, <2>5, <4>1
      <4>3. g.order[m] \in FlightKeys /\ k \in FlightKeys
        BY <1>2, <2>5, <4>1 DEF ToSet
      <4> QED BY <1>17, <2>2, <4>2, <4>3, DoneStays
    <3> QED BY <3>1, <3>2
  <2> QED BY <2>2, <2>4, <2>5
<1> HIDE DEF Good
<1>18. 0 \in S /\ \A i \in 1..n : i - 1 \in S => i \in S
  BY <1>10, <1>12, <1>16, <1>17
<1> HIDE DEF S
<1>19. 0..n \subseteq S
  BY <1>2, <1>18, UpTo
<1>20. Good(n)
  BY <1>12, <1>19 DEF S
<1>21. Keeps(g, r.graph)
  BY <1>5, <1>20 DEF Good, Later, s
<1>22. ASSUME NEW j \in FlightKeys, NEW k \in FlightKeys, HasEdge(g, j, k) PROVE Done(r, j, k)
  <2>1. j \in Nodes(g) /\ k \in ToSet(g.adj[j])
    BY <1>1, <1>22, ShapeParts DEF Shaped
  <2>2. PICK m \in 1..n : g.order[m] = j
    BY <1>7, <2>1 DEF Nodes, ToSet
  <2> QED BY <1>5, <1>20, <2>1, <2>2 DEF Good
<1> QED BY <1>5, <1>20, <1>21, <1>22 DEF Good

\* Unless it ran out of gates, the loop leaves no conflict.
LEMMA ResolvedIsConflictFree ==
    ASSUME NEW g \in Sound, NEW r, r = Resolve(g), FreeGates(r.used) # {}
    PROVE  ConflictFree(r.graph)
<1>1. /\ r \in Resolving(Nodes(g)) /\ Keeps(g, r.graph)
      /\ \A j, k \in FlightKeys : HasEdge(g, j, k) => Done(r, j, k)
  BY ResolveKeeps
<1>2. r.graph \in Sound /\ r.graph \in Shaped
  BY <1>1, ResolvingFields
<1>3. \A k \in Nodes(r.graph) : k \in FlightKeys /\ r.graph.flight[k] \in Event
  BY <1>2, NodesAreFlights
<1>4. ASSUME NEW j \in FlightKeys, NEW k \in FlightKeys, r.graph.link[<<j, k>>] = "gate_reuse"
      PROVE  ~Overlaps(r.graph.flight[j], r.graph.flight[k])
  <2>1. HasEdge(g, j, k)
    BY <1>1, <1>4 DEF Keeps, HasEdge
  <2> QED BY <1>1, <1>4, <2>1 DEF Done
<1>5. SUFFICES ASSUME NEW j \in Nodes(r.graph), NEW k \in Nodes(r.graph), j # k,
                      Conflict(r.graph.flight[j], r.graph.flight[k])
               PROVE  FALSE
  BY DEF ConflictFree
<1>6. Conflict(r.graph.flight[k], r.graph.flight[j])
  BY <1>3, <1>5, ConflictIsMutual
<1>7. r.graph.link[<<j, k>>] = "gate_reuse" \/ r.graph.link[<<k, j>>] = "gate_reuse"
  BY <1>2, <1>5 DEF Sound, ConflictsAreLinked
<1> QED BY <1>3, <1>4, <1>5, <1>6, <1>7 DEF Conflict

----------------------------------------------------------------------------
(* propagate_delay.                                                        *)

LEMMA DecayBounds ==
    ASSUME NEW d \in Nat
    PROVE  Decay(d) \in Nat /\ Decay(d) <= d
BY DEF Decay

LEMMA MergeBounds ==
    ASSUME NEW a \in Nat, NEW b \in Nat
    PROVE  /\ Merge(a, b) \in Nat /\ a <= Merge(a, b) /\ b <= Merge(a, b)
           /\ Merge(a, b) = a \/ Merge(a, b) = b
<1> DEFINE S == {a, b}
<1>1. \E x \in S : \A y \in S : x >= y
  OBVIOUS
<1>2. Max(S) \in S /\ \A y \in S : Max(S) >= y
  <2> HIDE DEF S
  <2> QED BY <1>1 DEF Max
<1>3. Merge(a, b) = Max(S)
  BY DEF Merge
<1> HIDE DEF S
<1>4. a \in S /\ b \in S /\ \A x \in S : x = a \/ x = b
  BY DEF S
<1> QED BY <1>2, <1>3, <1>4

Entry(N) == [key : N, delay : Nat, hops : Nat]
Hop(N) == [key : N, hops : Nat]

\* A state of the search over a graph with the nodes N.
Visits(N) ==
    [queue : Seq(Entry(N)), visited : SUBSET N, updated : Seq(Hop(N)),
     delay : [FlightKeys -> Nat]]

Unvisited(s, k) == FlightKeys \ (s.visited \cup {k})

\* What a visit of the first in the queue finds, raises and appends.
Found(g, s) == Among(g.adj[Head(s.queue).key], Unvisited(s, Head(s.queue).key))
Delayed(s, k) == Merge(s.delay[k], Decay(Head(s.queue).delay))
Higher(s) == {k \in FlightKeys : Delayed(s, k) # s.delay[k]}
Raised(g, s) == Among(Found(g, s), Higher(s))

Visited(g, s) ==
    [visited |-> s.visited \cup {Head(s.queue).key},
     delay |-> [k \in FlightKeys |->
                  IF k \in ToSet(Found(g, s)) THEN Delayed(s, k) ELSE s.delay[k]],
     updated |-> s.updated \o
                   [i \in DOMAIN Raised(g, s) |->
                      [key |-> Raised(g, s)[i], hops |-> Head(s.queue).hops + 1]],
     queue |-> Tail(s.queue) \o
                   [i \in DOMAIN Found(g, s) |->
                      [key |-> Found(g, s)[i], delay |-> Delayed(s, Found(g, s)[i]),
                       hops |-> Head(s.queue).hops + 1]]]

LEMMA BfsTurnCases ==
    ASSUME NEW g, NEW s
    PROVE  \/ s.queue = <<>> /\ BfsTurn(g, s) = s
           \/ /\ s.queue # <<>> /\ Head(s.queue).key \in s.visited
              /\ BfsTurn(g, s) = [s EXCEPT !.queue = Tail(@)]
           \/ /\ s.queue # <<>> /\ Head(s.queue).key \notin s.visited
              /\ BfsTurn(g, s) = Visited(g, s)
BY DEF BfsTurn, Visited, Found, Raised, Higher, Delayed, Unvisited

LEMMA VisitsFields ==
    ASSUME NEW N, NEW s \in Visits(N)
    PROVE  /\ s.queue \in Seq(Entry(N)) /\ s.visited \in SUBSET N
           /\ s.updated \in Seq(Hop(N)) /\ s.delay \in [FlightKeys -> Nat]
BY DEF Visits

\* A sequence over a set has its elements, and the other way round.
LEMMA SeqOfElements ==
    ASSUME NEW T, NEW seq \in Seq(T), NEW U, ToSet(seq) \subseteq U
    PROVE  seq \in Seq(U)
<1>1. \A i \in 1..Len(seq) : seq[i] \in U
  BY DEF ToSet
<1> QED BY <1>1

LEMMA FoundFacts ==
    ASSUME NEW g \in Shaped, NEW N, N = Nodes(g), NEW s \in Visits(N), s.queue # <<>>
    PROVE  /\ Head(s.queue) \in Entry(N)
           /\ Found(g, s) \in Seq(N)
           /\ Raised(g, s) \in Seq(N)
           /\ \A k \in FlightKeys :
                 k \in ToSet(Found(g, s)) <=> /\ HasEdge(g, Head(s.queue).key, k)
                                              /\ k \notin s.visited /\ k # Head(s.queue).key
           /\ ToSet(Raised(g, s)) = ToSet(Found(g, s)) \cap Higher(s)
<1> DEFINE e == Head(s.queue)
           un == Unvisited(s, e.key)
<1>1. g \in Graphs /\ N \subseteq FlightKeys
  BY GraphFields DEF Shaped
<1>2. e \in Entry(N)
  BY VisitsFields
<1>3. e.key \in N /\ e.key \in FlightKeys
  BY <1>1, <1>2 DEF Entry
<1>4. /\ \A j, k \in FlightKeys : k \in ToSet(g.adj[j]) <=> HasEdge(g, j, k)
      /\ \A j, k \in FlightKeys : HasEdge(g, j, k) => {j, k} \subseteq Nodes(g)
  BY <1>1, ShapeParts DEF Shaped
<1>5. g.adj[e.key] \in Seq(FlightKeys)
  BY <1>1, <1>3, GraphFields
<1> HIDE DEF e, un
<1>6. /\ Among(g.adj[e.key], un) \in Seq(FlightKeys)
      /\ ToSet(Among(g.adj[e.key], un)) = ToSet(g.adj[e.key]) \cap un
  BY <1>5, AmongKeeps
<1>7. Found(g, s) = Among(g.adj[e.key], un)
  BY DEF Found, e, un
<1>8. \A k \in FlightKeys : k \in ToSet(Found(g, s)) <=> /\ HasEdge(g, e.key, k)
                                              /\ k \notin s.visited /\ k # e.key
  BY <1>3, <1>4, <1>6, <1>7 DEF un, Unvisited
<1>9. ToSet(Found(g, s)) \subseteq N
  <2>1. ToSet(Found(g, s)) \subseteq FlightKeys
    BY <1>6, <1>7 DEF un, Unvisited
  <2>2. \A k \in FlightKeys : HasEdge(g, e.key, k) => k \in N
    BY <1>3, <1>4
  <2> QED BY <1>8, <2>1, <2>2
<1>10. Found(g, s) \in Seq(N)
  BY <1>6, <1>7, <1>9, SeqOfElements
<1>11. Raised(g, s) \in Seq(N) /\ ToSet(Raised(g, s)) = ToSet(Found(g, s)) \cap Higher(s)
  BY <1>10, AmongKeeps DEF Raised
<1> QED BY <1>2, <1>8, <1>10, <1>11 DEF e

LEMMA VisitedFields ==
    ASSUME NEW g, NEW s, NEW t, t = Visited(g, s)
    PROVE  /\ t.visited = s.visited \cup {Head(s.queue).key}
           /\ \A k \in FlightKeys :
                 t.delay[k] = IF k \in ToSet(Found(g, s)) THEN Delayed(s, k) ELSE s.delay[k]
BY DEF Visited

LEMMA VisitedTypes ==
    ASSUME NEW g \in Shaped, NEW N, N = Nodes(g), NEW s \in Visits(N), s.queue # <<>>,
           NEW t, t = Visited(g, s)
    PROVE  /\ t \in Visits(N)
           /\ \A k \in FlightKeys : s.delay[k] <= t.delay[k]
<1> DEFINE e == Head(s.queue)
           fnd == Found(g, s)
           rsd == Raised(g, s)
           delay == [k \in FlightKeys |-> IF k \in ToSet(fnd) THEN Delayed(s, k) ELSE s.delay[k]]
           hop == [i \in DOMAIN rsd |-> [key |-> rsd[i], hops |-> e.hops + 1]]
           more == [i \in DOMAIN fnd |->
                      [key |-> fnd[i], delay |-> Delayed(s, fnd[i]), hops |-> e.hops + 1]]
           visited == s.visited \cup {e.key}
           queue == Tail(s.queue) \o more
           updated == s.updated \o hop
<1>1. /\ e \in Entry(N) /\ fnd \in Seq(N) /\ rsd \in Seq(N)
      /\ s.queue \in Seq(Entry(N)) /\ s.visited \in SUBSET N
      /\ s.updated \in Seq(Hop(N)) /\ s.delay \in [FlightKeys -> Nat]
  BY FoundFacts, VisitsFields
<1>2. N \subseteq FlightKeys
  BY GraphFields DEF Shaped
<1>3. t = [visited |-> visited, delay |-> delay, updated |-> updated, queue |-> queue]
  BY DEF Visited
<1> HIDE DEF e, fnd, rsd
<1>4. e.key \in N /\ e.delay \in Nat /\ e.hops \in Nat
  BY <1>1 DEF Entry
<1>5. \A k \in FlightKeys : Delayed(s, k) \in Nat /\ s.delay[k] <= Delayed(s, k)
  BY <1>1, <1>4, DecayBounds, MergeBounds DEF Delayed, e
<1>6. delay \in [FlightKeys -> Nat] /\ \A k \in FlightKeys : s.delay[k] <= delay[k]
  BY <1>1, <1>5
<1>7. more \in Seq(Entry(N))
  <2>1. \A i \in 1..Len(fnd) : fnd[i] \in N /\ Delayed(s, fnd[i]) \in Nat
    BY <1>1, <1>2, <1>5
  <2>2. \A i \in 1..Len(fnd) :
           [key |-> fnd[i], delay |-> Delayed(s, fnd[i]), hops |-> e.hops + 1] \in Entry(N)
    BY <1>4, <2>1 DEF Entry
  <2>3. DOMAIN fnd = 1..Len(fnd) /\ Len(fnd) \in Nat
    BY <1>1
  <2> QED BY <2>2, <2>3
<1>8. hop \in Seq(Hop(N))
  <2>1. \A i \in 1..Len(rsd) : [key |-> rsd[i], hops |-> e.hops + 1] \in Hop(N)
    BY <1>1, <1>4 DEF Hop
  <2>2. DOMAIN rsd = 1..Len(rsd) /\ Len(rsd) \in Nat
    BY <1>1
  <2> QED BY <2>1, <2>2
<1> HIDE DEF more, hop, delay
<1>9. queue \in Seq(Entry(N)) /\ updated \in Seq(Hop(N)) /\ visited \in SUBSET N
  BY <1>1, <1>4, <1>7, <1>8
<1> HIDE DEF queue, updated, visited
<1> QED BY <1>3, <1>6, <1>9 DEF Visits

\* No turn of the search lowers a delay.
LEMMA BfsTurnTypes ==
    ASSUME NEW g \in Shaped, NEW N, N = Nodes(g), NEW s \in Visits(N),
           NEW t, t = BfsTurn(g, s)
    PROVE  /\ t \in Visits(N)
           /\ \A k \in FlightKeys : s.delay[k] <= t.delay[k]
<1>0. \A k \in FlightKeys : s.delay[k] <= s.delay[k]
  BY VisitsFields
<1>1. CASE s.queue = <<>> /\ t = s
  BY <1>0, <1>1
<1>2. CASE s.queue # <<>> /\ t = [s EXCEPT !.queue = Tail(@)]
  <2>1. Tail(s.queue) \in Seq(Entry(N))
    BY <1>2, VisitsFields
  <2>2. t.delay = s.delay /\ t \in Visits(N)
    BY <1>2, <2>1 DEF Visits
  <2> QED BY <1>0, <2>2
<1>3. CASE s.queue # <<>> /\ t = Visited(g, s)
  BY <1>3, VisitedTypes
<1> QED BY <1>1, <1>2, <1>3, BfsTurnCases

SearchStart(g, key, delay) ==
    [queue |-> <<[key |-> key, delay |-> delay, hops |-> 0]>>,
     visited |-> {}, updated |-> <<>>,
     delay |-> [k \in FlightKeys |-> IF k \in Nodes(g) THEN g.flight[k].delay ELSE 0]]

Turns == Cardinality(FlightKeys) * Cardinality(FlightKeys) + 1

LEMMA TurnsAreEnough == Turns \in Nat
<1>1. Cardinality(FlightKeys) \in Nat
  BY PoolAssumption, FS_CardinalityType
<1> QED BY <1>1 DEF Turns

LEMMA SearchStartTypes ==
    ASSUME NEW g \in Shaped, NEW key \in Nodes(g), NEW delay \in Nat
    PROVE  SearchStart(g, key, delay) \in Visits(Nodes(g))
<1> DEFINE delays == [k \in FlightKeys |-> IF k \in Nodes(g) THEN g.flight[k].delay ELSE 0]
           queue == <<[key |-> key, delay |-> delay, hops |-> 0]>>
           updated == <<>>
           visited == {}
<1>1. delays \in [FlightKeys -> Nat]
  BY NodesAreFlights, EventFields
<1>2. queue \in Seq(Entry(Nodes(g)))
  BY DEF Entry
<1>3. updated \in Seq(Hop(Nodes(g))) /\ visited \in SUBSET Nodes(g)
  OBVIOUS
<1>4. SearchStart(g, key, delay) =
        [queue |-> queue, visited |-> visited, updated |-> updated, delay |-> delays]
  BY DEF SearchStart
<1> HIDE DEF delays, queue, updated, visited
<1> QED BY <1>1, <1>2, <1>3, <1>4 DEF Visits

\* Bfs is the last of its turns.
LEMMA BfsSteps ==
    ASSUME NEW g \in Shaped, NEW N, N = Nodes(g), NEW key \in N, NEW delay \in Nat
    PROVE  \E f \in [0..Turns -> Visits(N)] :
              /\ f[0] = SearchStart(g, key, delay)
              /\ \A i \in 1..Turns : f[i] = BfsTurn(g, f[i - 1])
              /\ Bfs(g, key, delay) = f[Turns]
<1> DEFINE X == Visits(N)
           start == SearchStart(g, key, delay)
           step == [i \in 1..Turns |-> [x \in X |-> BfsTurn(g, x)]]
           Eq(h) == h = [i \in 0..Turns |-> IF i = 0 THEN {start}
                                            ELSE {BfsTurn(g, s) : s \in h[i - 1]}]
           after == CHOOSE h : Eq(h)
<1>1. Turns \in Nat
  BY TurnsAreEnough
<1>2. start \in X
  BY SearchStartTypes
<1>3. step \in [1..Turns -> [X -> X]]
  BY BfsTurnTypes
<1>4. \A i \in 1..Turns : \A x \in X : step[i][x] = BfsTurn(g, x)
  OBVIOUS
<1>5. Bfs(g, key, delay) = CHOOSE s \in after[Turns] : TRUE
  BY DEF Bfs, SearchStart, Turns
<1> HIDE DEF step, start
<1>6. PICK f : IsIteration(f, X, start, Turns, step)
  <2> HIDE DEF X
  <2> QED BY <1>1, <1>2, <1>3, Iteration
<1>7. f \in [0..Turns -> X] /\ f[0] = start /\ \A i \in 1..Turns : f[i] = step[i][f[i - 1]]
  BY <1>6 DEF IsIteration
<1>8. \A i \in 1..Turns : i - 1 \in 0..Turns /\ i # 0 /\ i \in 0..Turns
  BY <1>1
<1>9. \A i \in 1..Turns : f[i] = BfsTurn(g, f[i - 1])
  BY <1>4, <1>7, <1>8
<1>10. 0 \in 0..Turns /\ Turns \in 0..Turns /\ \A i \in 0..Turns : i = 0 \/ i \in 1..Turns
  BY <1>1
<1> DEFINE h == [i \in 0..Turns |-> {f[i]}]
<1>11. Eq(h)
  <2>1. \A i \in 1..Turns : h[i] = {BfsTurn(g, s) : s \in h[i - 1]}
    BY <1>8, <1>9
  <2>2. h[0] = {start}
    BY <1>7, <1>10
  <2>3. h = [i \in 0..Turns |-> h[i]]
    OBVIOUS
  <2> HIDE DEF h
  <2> QED BY <1>10, <2>1, <2>2, <2>3
<1>12. Eq(after)
  BY <1>11
<1> HIDE DEF after, h
<1>13. /\ after[0] = {start}
       /\ \A i \in 1..Turns : after[i] = {BfsTurn(g, s) : s \in after[i - 1]}
  BY <1>8, <1>10, <1>12
<1> DEFINE S == {i \in 0..Turns : after[i] = {f[i]}}
<1>14. 0 \in S /\ \A i \in 1..Turns : i - 1 \in S => i \in S
  BY <1>7, <1>8, <1>9, <1>10, <1>13
<1> HIDE DEF S
<1>15. 0..Turns \subseteq S
  BY <1>1, <1>14, UpTo
<1>16. after[Turns] = {f[Turns]}
  BY <1>10, <1>15 DEF S
<1>17. Bfs(g, key, delay) = f[Turns]
  BY <1>5, <1>16
<1> QED BY <1>7, <1>9, <1>17 DEF start

LEMMA BfsTypes ==
    ASSUME NEW g \in Shaped, NEW key \in Nodes(g), NEW delay \in Nat,
           NEW final, final = Bfs(g, key, delay)
    PROVE  /\ final \in Visits(Nodes(g))
           /\ \A k \in Nodes(g) : g.flight[k].delay <= final.delay[k]
<1> DEFINE start == SearchStart(g, key, delay)
<1>1. PICK f \in [0..Turns -> Visits(Nodes(g))] :
              /\ f[0] = start
              /\ \A i \in 1..Turns : f[i] = BfsTurn(g, f[i - 1])
              /\ final = f[Turns]
  BY BfsSteps
<1>2. Turns \in Nat
  BY TurnsAreEnough
<1>3. \A i \in 1..Turns : i - 1 \in 0..Turns /\ i \in 0..Turns
  BY <1>2
<1>4. 0 \in 0..Turns /\ Turns \in 0..Turns
  BY <1>2
<1>5. \A i \in 0..Turns : f[i].delay \in [FlightKeys -> Nat]
  BY <1>1, VisitsFields
<1> DEFINE S == {i \in 0..Turns : \A k \in FlightKeys : start.delay[k] <= f[i].delay[k]}
<1>6. 0 \in S
  BY <1>1, <1>4, <1>5
<1>7. ASSUME NEW i \in 1..Turns, i - 1 \in S PROVE i \in S
  <2>1. \A k \in FlightKeys : f[i - 1].delay[k] <= f[i].delay[k]
    BY <1>1, <1>3, BfsTurnTypes
  <2>2. \A k \in FlightKeys : start.delay[k] \in Nat /\ f[i - 1].delay[k] \in Nat /\ f[i].delay[k] \in Nat
    BY <1>1, <1>3, <1>4, <1>5
  <2> QED BY <1>3, <1>7, <2>1, <2>2
<1> HIDE DEF S
<1>8. 0..Turns \subseteq S
  BY <1>2, <1>6, <1>7, UpTo
<1>9. \A k \in FlightKeys : start.delay[k] <= final.delay[k]
  BY <1>1, <1>4, <1>8 DEF S
<1>10. \A k \in Nodes(g) : k \in FlightKeys /\ start.delay[k] = g.flight[k].delay
  BY NodesAreFlights DEF SearchStart
<1>11. final \in Visits(Nodes(g))
  BY <1>1, <1>4
<1> HIDE DEF start
<1> QED BY <1>9, <1>10, <1>11

\* What propagation leaves as it was: all but the delays, which only grow.
Delays(g, h) ==
    /\ Nodes(h) = Nodes(g) /\ h.link = g.link
    /\ \A k \in Nodes(g) :
          /\ h.flight[k] = [g.flight[k] EXCEPT !.delay = h.flight[k].delay]
          /\ g.flight[k].delay <= h.flight[k].delay

LEMMA PropagateKeeps ==
    ASSUME NEW g \in Shaped, NEW key \in Nodes(g), NEW delay \in Nat,
           NEW r, r = Propagate(g, key, delay)
    PROVE  /\ r.graph \in Shaped
           /\ Delays(g, r.graph)
           /\ r.updated \in Seq(Hop(Nodes(g)))
           /\ \A k \in Nodes(g) : r.graph.flight[k].delay = Bfs(g, key, delay).delay[k]
<1> DEFINE final == Bfs(g, key, delay)
           flight == [k \in FlightKeys |-> IF k \in Nodes(g)
                        THEN [g.flight[k] EXCEPT !.delay = final.delay[k]] ELSE g.flight[k]]
           h == [g EXCEPT !.flight = flight]
<1>1. r = [graph |-> h, updated |-> final.updated]
  BY DEF Propagate
<1>2. g \in Graphs
  BY DEF Shaped
<1>3. \A k \in Nodes(g) : k \in FlightKeys /\ g.flight[k] \in Event
  BY NodesAreFlights
<1>4. final \in Visits(Nodes(g)) /\ \A k \in Nodes(g) : g.flight[k].delay <= final.delay[k]
  BY BfsTypes
<1>5. final.updated \in Seq(Hop(Nodes(g))) /\ final.delay \in [FlightKeys -> Nat]
  BY <1>4, VisitsFields
<1> HIDE DEF final
<1>6. \A k \in Nodes(g) : [g.flight[k] EXCEPT !.delay = final.delay[k]] \in Event
  BY <1>3, <1>5 DEF Event
<1>7. /\ flight \in [FlightKeys -> Event \cup {None}]
      /\ \A k \in Nodes(g) : flight[k] = [g.flight[k] EXCEPT !.delay = final.delay[k]]
      /\ \A k \in FlightKeys \ Nodes(g) : flight[k] = g.flight[k]
  BY <1>2, <1>3, <1>6, GraphFields
<1> HIDE DEF flight
<1>8. /\ h \in Graphs /\ h.flight = flight
      /\ h.order = g.order /\ h.adj = g.adj /\ h.link = g.link
  BY <1>2, <1>7 DEF Graphs
<1> HIDE DEF h
<1>9. Nodes(h) = Nodes(g)
  BY <1>8 DEF Nodes
<1>10. \A k \in Nodes(g) : h.flight[k].delay = final.delay[k]
  BY <1>3, <1>7, <1>8 DEF Event
<1>11. Delays(g, h)
  BY <1>4, <1>7, <1>8, <1>9, <1>10 DEF Delays
<1>12. WellFormed(h)
  <2>1. \A k \in FlightKeys : k \in Nodes(h) <=> h.flight[k] # None
    <3>1. \A k \in Nodes(g) : h.flight[k] # None
      BY <1>6, <1>7, <1>8, EventFields
    <3>2. \A k \in FlightKeys \ Nodes(g) : h.flight[k] = None
      BY <1>2, <1>7, <1>8, ShapeParts DEF Shaped
    <3> QED BY <1>9, <3>1, <3>2
  <2>2. /\ Distinct(g.order)
        /\ \A k \in FlightKeys : Distinct(g.adj[k])
        /\ \A j, k \in FlightKeys : k \in ToSet(g.adj[j]) <=> HasEdge(g, j, k)
        /\ \A k \in FlightKeys : ~HasEdge(g, k, k)
        /\ \A j, k \in FlightKeys : HasEdge(g, j, k) => {j, k} \subseteq Nodes(g)
    BY <1>2, ShapeParts DEF Shaped
  <2>3. \A j, k \in FlightKeys : HasEdge(h, j, k) <=> HasEdge(g, j, k)
    BY <1>8 DEF HasEdge
  <2> QED BY <1>8, <1>9, <2>1, <2>2, <2>3, ShapeParts
<1>13. r.graph = h /\ r.updated = final.updated
  BY <1>1
<1> QED BY <1>5, <1>8, <1>10, <1>11, <1>12, <1>13 DEF Shaped, final

LEMMA DelaysAreNoConflicts ==
    ASSUME NEW g \in Shaped, NEW h \in Shaped, Delays(g, h)
    PROVE  /\ ConflictsAreLinked(g) => ConflictsAreLinked(h)
           /\ ConflictFree(g) => ConflictFree(h)
<1>1. Nodes(h) = Nodes(g) /\ h.link = g.link
  BY DEF Delays
<1>2. \A k \in Nodes(g) : /\ h.flight[k].gate = g.flight[k].gate
                          /\ h.flight[k].dep = g.flight[k].dep
                          /\ h.flight[k].arr = g.flight[k].arr
  <2> TAKE k \in Nodes(g)
  <2>1. g.flight[k] \in Event /\ h.flight[k] = [g.flight[k] EXCEPT !.delay = h.flight[k].delay]
    BY NodesAreFlights DEF Delays
  <2> QED BY <2>1 DEF Event
<1>3. \A j, k \in Nodes(g) : Conflict(h.flight[j], h.flight[k]) <=> Conflict(g.flight[j], g.flight[k])
  BY <1>2 DEF Conflict, SameGate, Overlaps
<1> QED BY <1>1, <1>3 DEF ConflictsAreLinked, ConflictFree

----------------------------------------------------------------------------
(* A message applied to the graph.                                         *)

LEMMA AppliedKeeps ==
    ASSUME NEW g \in Sound, NEW e \in Event, NEW r, r = Applied(g, e)
    PROVE  /\ r.graph \in Sound
           /\ Nodes(r.graph) = Nodes(g) \cup {e.key}
           /\ r.moves \in Moves(Nodes(r.graph))
<1> DEFINE p == ProcessEvent(g, e)
<1>1. p \in Sound /\ Nodes(p) = Nodes(g) \cup {e.key}
  BY ProcessEventIsSound, ProcessEventKeeps DEF Sound
<1>2. r = Resolve(p)
  BY DEF Applied
<1> HIDE DEF p
<1>3. r \in Resolving(Nodes(p))
  BY <1>1, <1>2, ResolveKeeps
<1>4. r.graph \in Sound /\ Nodes(r.graph) = Nodes(p) /\ r.moves \in Moves(Nodes(p))
  BY <1>3, ResolvingFields
<1> QED BY <1>1, <1>4

LEMMA PropagatedKeeps ==
    ASSUME NEW g \in Sound, NEW e \in Event, e.key \in Nodes(g), NEW d, d = Propagated(g, e)
    PROVE  /\ d.graph \in Sound
           /\ Nodes(d.graph) = Nodes(g)
           /\ d.updated \in Seq(Hop(Nodes(g)))
           /\ ConflictFree(g) => ConflictFree(d.graph)
<1>1. CASE e.delay > 0
  <2>1. d = Propagate(g, e.key, e.delay) /\ e.delay \in Nat /\ g \in Shaped
    BY <1>1, EventFields DEF Propagated, Sound
  <2>2. /\ d.graph \in Shaped /\ Delays(g, d.graph)
        /\ d.updated \in Seq(Hop(Nodes(g)))
    BY <2>1, PropagateKeeps
  <2>3. d.graph \in Sound /\ (ConflictFree(g) => ConflictFree(d.graph))
    BY <2>1, <2>2, DelaysAreNoConflicts DEF Sound
  <2>4. Nodes(d.graph) = Nodes(g)
    BY <2>2 DEF Delays
  <2> QED BY <2>2, <2>3, <2>4
<1>2. CASE ~(e.delay > 0)
  <2>1. d = [graph |-> g, updated |-> <<>>]
    BY <1>2 DEF Propagated
  <2> QED BY <2>1
<1> QED BY <1>1, <1>2

LEMMA MessageFacts ==
    /\ \A p \in Partitions : \A n \in 1..Len(Log[p]) : <<p, n>> \in Messages
    /\ \A m \in Messages : Parses(m) => EventOf(m) \in Event
<1>1. \A p \in Partitions : Log[p] \in Seq(Event \cup {Garbage})
  BY LogAssumption
<1>2. \A p \in Partitions : \A n \in 1..Len(Log[p]) : <<p, n>> \in Messages
  BY DEF Messages
<1>3. ASSUME NEW m \in Messages, Parses(m) PROVE EventOf(m) \in Event
  <2>1. PICK p \in Partitions : m \in {p} \X (1..Len(Log[p]))
    BY DEF Messages
  <2>2. Log[m[1]][m[2]] \in Event \cup {Garbage}
    BY <1>1, <2>1
  <2> QED BY <1>3, <2>2 DEF Parses, EventOf
<1> QED BY <1>2, <1>3

\* What a message owes: its predictions are counted down to zero.
Owes(out, m) ==
    \A i \in 1..Len(out) : out[i].msg = m /\ out[i].left = Len(out) - i

LEMMA PredictionTypes ==
    ASSUME NEW m \in Messages, NEW kind \in Kinds, NEW g \in Shaped, NEW key \in Nodes(g),
           NEW hops \in Nat, NEW left \in Nat
    PROVE  [msg |-> m, kind |-> kind, key |-> key, hops |-> hops, left |-> left,
            delay |-> g.flight[key].delay, gate |-> g.flight[key].gate] \in Prediction
BY NodesAreFlights, EventFields DEF Prediction

LEMMA Joined ==
    ASSUME NEW S, NEW a \in Seq(S), NEW b \in Seq(S), NEW c, c = a \o b
    PROVE  /\ c \in Seq(S)
           /\ Len(c) = Len(a) + Len(b)
           /\ \A i \in 1..Len(a) : c[i] = a[i]
           /\ \A i \in 1..Len(b) : c[Len(a) + i] = b[i]
OBVIOUS

LEMMA PredictionsOwe ==
    ASSUME NEW m \in Messages, NEW g \in Shaped, EventOf(m).key \in Nodes(g),
           NEW updated \in Seq(Hop(Nodes(g))), NEW moves \in Moves(Nodes(g)),
           NEW out, out = Predictions(m, g, updated, moves)
    PROVE  out \in Seq(Prediction) /\ out # <<>> /\ Owes(out, m)
<1> DEFINE About(kind, key, hops, left) ==
             [msg |-> m, kind |-> kind, key |-> key, hops |-> hops, left |-> left,
              delay |-> g.flight[key].delay, gate |-> g.flight[key].gate]
           n == Len(updated)
           o == Len(moves)
           first == <<About("trigger", EventOf(m).key, 0, n + o)>>
           second == [i \in 1..n |-> About("propagated", updated[i].key, updated[i].hops, n - i + o)]
           third == [i \in 1..o |-> About("reassigned", moves[i].key, 0, o - i)]
<1>1. out = first \o second \o third
  BY DEF Predictions
<1>2. n \in Nat /\ o \in Nat
  BY DEF Moves
<1>3. \A kind, key, hops, left : About(kind, key, hops, left).msg = m /\ About(kind, key, hops, left).left = left
  OBVIOUS
<1>4. ASSUME NEW kind \in Kinds, NEW key \in Nodes(g), NEW hops \in Nat, NEW left \in Nat
      PROVE  About(kind, key, hops, left) \in Prediction
  BY PredictionTypes
<1> HIDE DEF About
<1>5. first \in Seq(Prediction) /\ Len(first) = 1 /\ first[1].msg = m /\ first[1].left = n + o
  <2>1. "trigger" \in Kinds /\ n + o \in Nat
    BY <1>2 DEF Kinds
  <2>2. About("trigger", EventOf(m).key, 0, n + o) \in Prediction
    BY <1>4, <2>1
  <2> HIDE DEF n, o
  <2> QED BY <1>3, <2>2
<1>6. second \in Seq(Prediction) /\ Len(second) = n
      /\ \A i \in 1..n : second[i].msg = m /\ second[i].left = n - i + o
  <2>1. ASSUME NEW i \in 1..n PROVE About("propagated", updated[i].key, updated[i].hops, n - i + o) \in Prediction
    <3>1. updated[i] \in Hop(Nodes(g))
      OBVIOUS
    <3>2. updated[i].key \in Nodes(g) /\ updated[i].hops \in Nat
      BY <3>1 DEF Hop
    <3>3. n - i + o \in Nat /\ "propagated" \in Kinds
      BY <1>2 DEF Kinds
    <3> QED BY <1>4, <3>2, <3>3
  <2> HIDE DEF n, o
  <2> QED BY <1>2, <1>3, <2>1
<1>7. third \in Seq(Prediction) /\ Len(third) = o
      /\ \A i \in 1..o : third[i].msg = m /\ third[i].left = o - i
  <2>1. ASSUME NEW i \in 1..o PROVE About("reassigned", moves[i].key, 0, o - i) \in Prediction
    <3>1. moves \in Seq([key : Nodes(g), old : Gates \cup {None}, new : Gates])
      BY DEF Moves
    <3> DEFINE Move == [key : Nodes(g), old : Gates \cup {None}, new : Gates]
    <3>2. moves[i] \in Move
      <4>1. moves \in Seq(Move)
        BY <3>1
      <4> HIDE DEF Move, first, second, third
      <4> QED BY <4>1
    <3>4. moves[i].key \in Nodes(g)
      BY <3>2
    <3>3. o - i \in Nat /\ "reassigned" \in Kinds /\ 0 \in Nat
      BY <1>2 DEF Kinds
    <3> QED BY <1>4, <3>4, <3>3
  <2> HIDE DEF n, o
  <2> QED BY <1>2, <1>3, <2>1
<1> HIDE DEF first, second, third, n, o
<1> DEFINE front == first \o second
<1>12. /\ front \in Seq(Prediction) /\ Len(front) = Len(first) + Len(second)
       /\ \A i \in 1..Len(first) : front[i] = first[i]
       /\ \A i \in 1..Len(second) : front[Len(first) + i] = second[i]
  <2>1. first \in Seq(Prediction) /\ second \in Seq(Prediction)
    BY <1>5, <1>6
  <2>2. front = first \o second
    OBVIOUS
  <2> HIDE DEF front
  <2> QED BY <2>1, <2>2, Joined
<1>13. out = front \o third
  BY <1>1
<1> HIDE DEF front
<1>14. /\ out \in Seq(Prediction) /\ Len(out) = Len(front) + Len(third)
       /\ \A i \in 1..Len(front) : out[i] = front[i]
       /\ \A i \in 1..Len(third) : out[Len(front) + i] = third[i]
  <2>1. front \in Seq(Prediction) /\ third \in Seq(Prediction)
    BY <1>7, <1>12
  <2> QED BY <2>1, <1>13, Joined
<1>15. Len(first) = 1 /\ Len(second) = n /\ Len(third) = o
  BY <1>5, <1>6, <1>7
<1>16. Len(front) = 1 + n /\ Len(out) = 1 + n + o
  BY <1>12, <1>14, <1>15
<1>8. out \in Seq(Prediction) /\ Len(out) = 1 + n + o
  BY <1>14, <1>16
<1>9. /\ out[1] = first[1]
      /\ \A i \in 1..n : out[1 + i] = second[i]
      /\ \A i \in 1..o : out[1 + n + i] = third[i]
  <2>1. 1 \in 1..(1 + n) /\ 1 \in 1..1 /\ \A i \in 1..n : 1 + i \in 1..(1 + n)
    BY <1>2
  <2>2. \A i \in 1..(1 + n) : out[i] = front[i]
    BY <1>14, <1>16
  <2>3. front[1] = first[1] /\ \A i \in 1..n : front[1 + i] = second[i]
    BY <1>12, <1>15, <2>1
  <2>4. \A i \in 1..o : out[1 + n + i] = third[i]
    BY <1>14, <1>15, <1>16
  <2> QED BY <2>1, <2>2, <2>3, <2>4
<1>10. ASSUME NEW i \in 1..Len(out) PROVE out[i].msg = m /\ out[i].left = Len(out) - i
  <2>1. CASE i = 1
    BY <1>2, <1>5, <1>8, <1>9, <2>1
  <2>2. CASE i \in 2 .. n + 1
    <3>1. i - 1 \in 1..n /\ 1 + (i - 1) = i
      BY <1>2, <2>2
    <3>2. out[i] = second[i - 1]
      BY <1>9, <3>1
    <3>3. n - (i - 1) + o = Len(out) - i
      BY <1>2, <1>8, <2>2
    <3> QED BY <1>6, <3>1, <3>2, <3>3
  <2>3. CASE i \in n + 2 .. 1 + n + o
    <3> DEFINE x == i - (1 + n)
    <3>1. x \in 1..o /\ 1 + n + x = i
      BY <1>2, <2>3
    <3>2. o - x = Len(out) - i
      BY <1>2, <1>8, <2>3
    <3> HIDE DEF x
    <3>3. out[i] = third[x]
      BY <1>9, <3>1
    <3> QED BY <1>7, <3>1, <3>2, <3>3
  <2>4. i = 1 \/ i \in 2 .. n + 1 \/ i \in n + 2 .. 1 + n + o
    BY <1>2, <1>8
  <2> QED BY <2>1, <2>2, <2>3, <2>4
<1>11. out # <<>>
  BY <1>2, <1>8
<1> QED BY <1>8, <1>10, <1>11 DEF Owes

----------------------------------------------------------------------------
(* What a new process loads.                                               *)

LEMMA ImageIsFinite ==
    ASSUME NEW S, IsFiniteSet(S), NEW T, NEW M \in [S -> T], \A t \in T : \E s \in S : M[s] = t
    PROVE  IsFiniteSet(T)
<1>1. M \in Surjection(S, T)
  BY DEF Surjection
<1> QED BY <1>1, FS_Surjection

LEMMA MessagesAreFinite == IsFiniteSet(Messages)
<1> DEFINE M == [p \in Partitions |-> {p} \X (1..Len(Log[p]))]
           T == {{p} \X (1..Len(Log[p])) : p \in Partitions}
<1>1. IsFiniteSet(T)
  <2>1. M \in [Partitions -> T] /\ \A t \in T : \E p \in Partitions : M[p] = t
    OBVIOUS
  <2> HIDE DEF M, T
  <2> QED BY <2>1, LogAssumption, ImageIsFinite
<1>2. \A t \in T : IsFiniteSet(t)
  <2>1. SUFFICES ASSUME NEW p \in Partitions PROVE IsFiniteSet({p} \X (1..Len(Log[p])))
    OBVIOUS
  <2>2. Len(Log[p]) \in Nat
    BY LogAssumption
  <2> HIDE DEF M, T
  <2>4. IsFiniteSet({p})
    BY FS_Singleton
  <2>5. IsFiniteSet(1..Len(Log[p]))
    BY <2>2, FS_Interval
  <2>3. IsFiniteSet({p}) /\ IsFiniteSet(1..Len(Log[p]))
    BY <2>4, <2>5
  <2> QED BY <2>3, FS_Product
<1> HIDE DEF T
<1>3. IsFiniteSet(UNION T)
  BY <1>1, <1>2, FS_UNION
<1> QED BY <1>3 DEF T, Messages

LEMMA StoredFacts ==
    ASSUME NEW cut
    PROVE  Stored(cut) \subseteq Event /\ IsFiniteSet(Stored(cut))
<1> DEFINE X == {x \in Messages : x[2] <= cut[x[1]] /\ Parses(x)}
           Y == {EventOf(m) : m \in X}
<1>1. ToSet(Snapshot) \subseteq Event /\ IsFiniteSet(ToSet(Snapshot))
  <2>1. Snapshot \in Seq(Event)
    BY LogAssumption
  <2>2. /\ Snapshot \in [DOMAIN Snapshot -> ToSet(Snapshot)]
        /\ \A e \in ToSet(Snapshot) : \E i \in DOMAIN Snapshot : Snapshot[i] = e
    <3>1. ToSet(Snapshot) = {Snapshot[i] : i \in DOMAIN Snapshot}
      BY DEF ToSet
    <3>2. Snapshot = [i \in DOMAIN Snapshot |-> Snapshot[i]]
      BY <2>1
    <3>3. \A i \in DOMAIN Snapshot : Snapshot[i] \in ToSet(Snapshot)
      BY <3>1
    <3>4. \A e \in ToSet(Snapshot) : \E i \in DOMAIN Snapshot : Snapshot[i] = e
      BY <3>1
    <3> QED BY <3>2, <3>3, <3>4
  <2>3. DOMAIN Snapshot = 1..Len(Snapshot) /\ Len(Snapshot) \in Nat
    BY <2>1
  <2>4. IsFiniteSet(DOMAIN Snapshot)
    BY <2>3, FS_Interval
  <2>5. ToSet(Snapshot) \subseteq Event
    BY <2>1 DEF ToSet
  <2> QED BY <2>2, <2>4, <2>5, ImageIsFinite
<1>2. Y \subseteq Event /\ IsFiniteSet(Y)
  <2>1. IsFiniteSet(X)
    BY MessagesAreFinite, FS_Subset
  <2> DEFINE M == [m \in X |-> EventOf(m)]
  <2>2. M \in [X -> Y] /\ \A y \in Y : \E m \in X : M[m] = y
    OBVIOUS
  <2>3. Y \subseteq Event
    BY MessageFacts
  <2> HIDE DEF M, X, Y
  <2> QED BY <2>1, <2>2, <2>3, ImageIsFinite
<1>3. Stored(cut) = ToSet(Snapshot) \cup Y
  BY DEF Stored
<1> HIDE DEF Y
<1> QED BY <1>1, <1>2, <1>3, FS_Union

LEMMA TableFacts ==
    ASSUME NEW cut
    PROVE  Table(cut) \subseteq Event /\ IsFiniteSet(Table(cut))
<1> DEFINE S == Stored(cut)
           R == {Row(e, f) : e \in S, f \in S}
<1>1. S \subseteq Event /\ IsFiniteSet(S)
  BY StoredFacts
<1>2. Table(cut) \subseteq R
  <2> SUFFICES ASSUME NEW r \in Table(cut) PROVE r \in R
    OBVIOUS
  <2>1. \E e, f \in S : r = Row(e, f)
    BY DEF Table
  <2> HIDE DEF S
  <2> QED BY <2>1
<1> HIDE DEF S
<1>3. R \subseteq Event
  <2> SUFFICES ASSUME NEW e \in Event, NEW f \in Event PROVE Row(e, f) \in Event
    BY <1>1
  <2> DEFINE dep == f.dep
             arr == f.arr
  <2>1. dep \in Nat /\ arr \in Nat
    BY EventFields
  <2> HIDE DEF dep, arr
  <2>2. [e EXCEPT !.dep = dep, !.arr = arr] \in Event
    BY <2>1 DEF Event
  <2> QED BY <2>2 DEF Row, dep, arr
<1>4. IsFiniteSet(R)
  <2> DEFINE M == [x \in S \X S |-> Row(x[1], x[2])]
  <2>1. IsFiniteSet(S \X S)
    BY <1>1, FS_Product
  <2>2. M \in [S \X S -> R]
    OBVIOUS
  <2>3. \A r \in R : \E x \in S \X S : M[x] = r
    <3>1. SUFFICES ASSUME NEW e \in S, NEW f \in S PROVE \E x \in S \X S : M[x] = Row(e, f)
      OBVIOUS
    <3>2. <<e, f>> \in S \X S /\ M[<<e, f>>] = Row(e, f)
      OBVIOUS
    <3> QED BY <3>2
  <2> HIDE DEF M, R
  <2> QED BY <2>1, <2>2, <2>3, ImageIsFinite
<1> HIDE DEF R
<1> QED BY <1>2, <1>3, <1>4, FS_Subset

LEMMA RowsAreEvents ==
    ASSUME NEW cut, NEW rows \in Rows(cut)
    PROVE  rows \in Seq(Event)
<1>1. Table(cut) \subseteq Event /\ Cardinality(Table(cut)) \in Nat
  BY TableFacts, FS_CardinalityType
<1>2. rows \in [1..Cardinality(Table(cut)) -> Table(cut)]
  BY DEF Rows, SetToSeqs
<1>3. rows \in [1..Cardinality(Table(cut)) -> Event]
  BY <1>1, <1>2
<1> QED BY <1>1, <1>3

----------------------------------------------------------------------------
(* The inductive invariant.                                                *)

Busy == {"publish", "deadletter", "commit"}

TypeInv ==
    /\ pc \in Labels
    /\ graph \in Sound
    /\ outbox \in Seq(Prediction)
    /\ pos \in [Partitions -> Nat]
    /\ committed \in [Partitions -> Nat]
    /\ published \subseteq Prediction
    /\ dlq \subseteq Messages
    /\ dropped \subseteq Messages
    /\ faults \in 0..MaxFaults

\* A message is in hand exactly while process() is at an await.
CurInv == IF pc \in Busy THEN cur \in Messages ELSE cur = None

\* The outbox holds what cur still owes.
OutboxInv == IF pc = "publish" THEN outbox # <<>> /\ Owes(outbox, cur) ELSE outbox = <<>>

\* A consumer is at most one message ahead of its commit: the one in hand.
OneAhead ==
    \A p \in Partitions :
        \/ pos[p] = committed[p]
        \/ pos[p] = committed[p] + 1 /\ pc \in Busy /\ cur = <<p, pos[p]>>

\* commit() is reached with the outcome of the message in hand on record.
CommitInv == pc = "commit" => Settled(cur)

IInv == TypeInv /\ CurInv /\ OutboxInv /\ OneAhead /\ CommitInv

LEMMA InitIInv == Init => IInv
<1> SUFFICES ASSUME Init PROVE IInv
  OBVIOUS
<1>1. graph \in Sound
  BY LogAssumption, LoadIsSound DEF Init
<1>2. TypeInv
  BY <1>1, LogAssumption DEF Init, TypeInv, Labels
<1> QED BY <1>2 DEF Init, IInv, CurInv, OutboxInv, OneAhead, CommitInv, Busy

LEMMA FaultTypes == Fault /\ faults \in 0..MaxFaults => faults' \in 0..MaxFaults
  BY LogAssumption DEF Fault

\* What the consumer hands over.
LEMMA TakeFacts ==
    ASSUME IInv, NEW p \in Partitions, Take(p)
    PROVE  /\ cur' = <<p, pos[p] + 1>> /\ cur' \in Messages
           /\ pos' \in [Partitions -> Nat]
           /\ pos'[p] = committed[p] + 1 /\ cur' = <<p, pos'[p]>>
           /\ \A q \in Partitions \ {p} : pos'[q] = committed[q]
<1>1. Len(Log[p]) \in Nat /\ pos[p] \in Nat
  BY LogAssumption DEF IInv, TypeInv
<1>2. pos[p] + 1 \in 1..Len(Log[p]) /\ cur' = <<p, pos[p] + 1>>
  BY <1>1 DEF Take
<1>3. \A q \in Partitions : pos[q] = committed[q]
  BY DEF IInv, OneAhead, Take, Busy
<1>4. cur' \in Messages
  BY <1>2, MessageFacts
<1> QED BY <1>2, <1>3, <1>4 DEF Take, IInv, TypeInv

LEMMA ReceiveStep ==
    ASSUME IInv, NEW p \in Partitions, Receive(p)
    PROVE  IInv'
<1> DEFINE m == <<p, pos[p] + 1>>
<1>1. Take(p) /\ cur' = m /\ m \in Messages /\ Parses(m)
  BY TakeFacts DEF Receive
<1>2. EventOf(m) \in Event /\ EventOf(m).key \in FlightKeys
  BY <1>1, MessageFacts, EventFields
<1> DEFINE r == Applied(graph, EventOf(m))
           d == Propagated(r.graph, EventOf(m))
<1>3. graph' = d.graph /\ outbox' = Predictions(m, d.graph, d.updated, r.moves) /\ pc' = "publish"
  BY <1>1 DEF Receive
<1> HIDE DEF m
<1>4. graph \in Sound
  BY DEF IInv, TypeInv
<1>5. /\ r.graph \in Sound /\ EventOf(m).key \in Nodes(r.graph)
      /\ r.moves \in Moves(Nodes(r.graph))
  <2>1. r = Applied(graph, EventOf(m))
    OBVIOUS
  <2> HIDE DEF r
  <2>2. /\ r.graph \in Sound /\ Nodes(r.graph) = Nodes(graph) \cup {EventOf(m).key}
        /\ r.moves \in Moves(Nodes(r.graph))
    BY <1>2, <1>4, <2>1, AppliedKeeps
  <2> QED BY <2>2
<1> HIDE DEF r
<1>6. /\ d.graph \in Sound /\ Nodes(d.graph) = Nodes(r.graph)
      /\ d.updated \in Seq(Hop(Nodes(r.graph)))
  BY <1>2, <1>5, PropagatedKeeps
<1> HIDE DEF d
<1>7. d.graph \in Shaped /\ EventOf(m).key \in Nodes(d.graph)
      /\ d.updated \in Seq(Hop(Nodes(d.graph))) /\ r.moves \in Moves(Nodes(d.graph))
  BY <1>5, <1>6 DEF Sound
<1>8. outbox' \in Seq(Prediction) /\ outbox' # <<>> /\ Owes(outbox', m)
  BY <1>1, <1>3, <1>7, PredictionsOwe
<1>9. TypeInv'
  <2>1. graph' \in Sound /\ outbox' \in Seq(Prediction) /\ pc' \in Labels
    BY <1>3, <1>6, <1>8 DEF Labels
  <2>2. pos' \in [Partitions -> Nat] /\ UNCHANGED <<committed, topicVars, faults>>
    BY <1>1, TakeFacts DEF Receive
  <2> QED BY <2>1, <2>2 DEF IInv, TypeInv, topicVars
<1>10. CurInv'
  BY <1>1, <1>3 DEF CurInv, Busy
<1>11. OutboxInv'
  BY <1>1, <1>3, <1>8 DEF OutboxInv, Owes
<1>12. OneAhead'
  BY <1>1, <1>3, TakeFacts DEF OneAhead, Busy, Receive
<1>13. CommitInv'
  BY <1>3 DEF CommitInv
<1> QED BY <1>9, <1>10, <1>11, <1>12, <1>13 DEF IInv

\* A message that goes to the dead-letter topic at once.
LEMMA RejectStep ==
    ASSUME IInv, NEW p \in Partitions, Take(p), pc' = "deadletter", graph' \in Sound,
           faults' \in 0..MaxFaults, UNCHANGED <<outbox, committed, topicVars>>
    PROVE  IInv'
<1>1. TypeInv'
  BY TakeFacts DEF IInv, TypeInv, topicVars, Labels
<1>2. CurInv' /\ CommitInv'
  BY TakeFacts DEF CurInv, CommitInv, Busy
<1>3. OutboxInv'
  BY DEF IInv, OutboxInv, Take
<1>4. OneAhead'
  BY TakeFacts DEF OneAhead, Busy
<1> QED BY <1>1, <1>2, <1>3, <1>4 DEF IInv

LEMMA ReceiveGarbageStep ==
    ASSUME IInv, NEW p \in Partitions, ReceiveGarbage(p)
    PROVE  IInv'
BY RejectStep DEF ReceiveGarbage, IInv, TypeInv

LEMMA ReceiveUnpredictedStep ==
    ASSUME IInv, NEW p \in Partitions, ReceiveUnpredicted(p)
    PROVE  IInv'
<1> DEFINE m == <<p, pos[p] + 1>>
<1>1. Take(p) /\ cur' = m /\ m \in Messages /\ Parses(m)
  BY TakeFacts DEF ReceiveUnpredicted
<1>2. EventOf(m) \in Event /\ graph \in Sound
  BY <1>1, MessageFacts DEF IInv, TypeInv
<1>3. graph' = Applied(graph, EventOf(m)).graph
  BY <1>1 DEF ReceiveUnpredicted
<1>4. graph' \in Sound
  BY <1>2, <1>3, AppliedKeeps
<1>5. faults' \in 0..MaxFaults
  BY FaultTypes DEF ReceiveUnpredicted, IInv, TypeInv
<1> QED BY <1>1, <1>4, <1>5, RejectStep DEF ReceiveUnpredicted

LEMMA EmptyIff ==
    ASSUME NEW S, NEW t \in Seq(S)
    PROVE  t = <<>> <=> Len(t) = 0
OBVIOUS

\* The next prediction, and what remains after it.
LEMMA OwesNext ==
    ASSUME NEW out \in Seq(Prediction), NEW m, out # <<>>, Owes(out, m)
    PROVE  /\ Head(out) \in Prediction /\ Head(out).msg = m
           /\ Tail(out) \in Seq(Prediction)
           /\ Len(out) = 1 => Tail(out) = <<>> /\ Head(out).left = 0
           /\ Len(out) # 1 => Tail(out) # <<>>
           /\ Owes(Tail(out), m)
<1>1. Len(out) \in Nat /\ Len(out) >= 1 /\ Head(out) = out[1]
  OBVIOUS
<1>2. Tail(out) \in Seq(Prediction) /\ Len(Tail(out)) = Len(out) - 1
      /\ \A i \in 1..(Len(out) - 1) : Tail(out)[i] = out[i + 1]
  BY <1>1
<1>3. Head(out) \in Prediction
  BY <1>1
<1>4. Head(out).msg = m /\ Head(out).left = Len(out) - 1
  BY <1>1 DEF Owes
<1>5. ASSUME NEW i \in 1..Len(Tail(out))
      PROVE  Tail(out)[i].msg = m /\ Tail(out)[i].left = Len(Tail(out)) - i
  <2>1. i + 1 \in 1..Len(out) /\ Tail(out)[i] = out[i + 1]
    BY <1>1, <1>2
  <2>2. out[i + 1].msg = m /\ out[i + 1].left = Len(out) - (i + 1)
    BY <2>1 DEF Owes
  <2>3. Len(out) - (i + 1) = Len(Tail(out)) - i
    BY <1>1, <1>2
  <2> QED BY <2>1, <2>2, <2>3
<1>6. /\ Len(out) = 1 => Tail(out) = <<>> /\ Head(out).left = 0
      /\ Len(out) # 1 => Tail(out) # <<>>
  <2>1. Len(out) = 1 => Len(Tail(out)) = 0 /\ Head(out).left = 0
    BY <1>1, <1>2, <1>4
  <2>2. Len(out) # 1 => Len(Tail(out)) # 0
    BY <1>1, <1>2
  <2>3. Tail(out) = <<>> <=> Len(Tail(out)) = 0
    BY <1>2, EmptyIff
  <2> QED BY <2>1, <2>2, <2>3
<1> QED BY <1>2, <1>3, <1>4, <1>5, <1>6 DEF Owes

LEMMA PublishStep == IInv /\ Publish => IInv'
<1> SUFFICES ASSUME IInv, Publish PROVE IInv'
  OBVIOUS
<1>1. /\ outbox \in Seq(Prediction) /\ outbox # <<>> /\ Owes(outbox, cur)
      /\ cur \in Messages
  BY DEF IInv, TypeInv, OutboxInv, CurInv, Publish, Busy
<1>2. /\ Head(outbox) \in Prediction /\ Head(outbox).msg = cur
      /\ Tail(outbox) \in Seq(Prediction)
      /\ Len(outbox) = 1 => Tail(outbox) = <<>> /\ Head(outbox).left = 0
      /\ Len(outbox) # 1 => Tail(outbox) # <<>>
      /\ Owes(Tail(outbox), cur)
  BY <1>1, OwesNext
<1>3. /\ published' = published \cup {Head(outbox)} /\ outbox' = Tail(outbox)
      /\ pc' = IF Len(outbox) = 1 THEN "commit" ELSE "publish"
      /\ UNCHANGED <<cur, graph, consumerVars, dlq, dropped, faults>>
  BY DEF Publish
<1>4. TypeInv'
  BY <1>2, <1>3 DEF IInv, TypeInv, consumerVars, Labels
<1>5. CurInv'
  BY <1>1, <1>3 DEF CurInv, Busy
<1>6. OutboxInv'
  BY <1>2, <1>3 DEF OutboxInv, Owes
<1>7. OneAhead'
  BY <1>3 DEF IInv, OneAhead, Busy, consumerVars
<1>8. CommitInv'
  BY <1>2, <1>3 DEF CommitInv, Settled
<1> QED BY <1>4, <1>5, <1>6, <1>7, <1>8 DEF IInv

LEMMA PublishFailsStep == IInv /\ PublishFails => IInv'
<1> SUFFICES ASSUME IInv, PublishFails PROVE IInv'
  OBVIOUS
<1>1. outbox \in Seq(Prediction) /\ outbox # <<>> /\ cur \in Messages
  BY DEF IInv, TypeInv, OutboxInv, CurInv, PublishFails, Busy
<1>2. Head(outbox) \in Prediction
  BY <1>1
<1>3. published' \subseteq Prediction
  BY <1>2 DEF PublishFails, IInv, TypeInv
<1>4. TypeInv'
  <2>1. <<>> \in Seq(Prediction)
    OBVIOUS
  <2>2. faults' \in 0..MaxFaults
    BY FaultTypes DEF PublishFails, IInv, TypeInv
  <2> QED BY <1>3, <2>1, <2>2 DEF PublishFails, IInv, TypeInv, consumerVars, Labels
<1>5. CurInv' /\ OutboxInv' /\ CommitInv'
  BY <1>1 DEF CurInv, OutboxInv, CommitInv, Busy, PublishFails
<1>6. OneAhead'
  BY DEF IInv, OneAhead, Busy, consumerVars, PublishFails
<1> QED BY <1>4, <1>5, <1>6 DEF IInv

LEMMA DeadLetterStep == IInv /\ (DeadLetter \/ DeadLetterFails) => IInv'
<1> SUFFICES ASSUME IInv, DeadLetter \/ DeadLetterFails PROVE IInv'
  OBVIOUS
<1>1. /\ pc = "deadletter" /\ pc' = "commit" /\ cur \in Messages
      /\ UNCHANGED <<cur, graph, outbox, consumerVars, published>>
      /\ \/ dlq' = dlq \cup {cur} /\ UNCHANGED <<dropped, faults>>
         \/ dropped' = dropped \cup {cur} /\ dlq' \in {dlq, dlq \cup {cur}} /\ Fault
  BY DEF IInv, CurInv, Busy, DeadLetter, DeadLetterFails
<1>2. TypeInv'
  BY <1>1, FaultTypes DEF IInv, TypeInv, consumerVars, Labels
<1>3. CurInv' /\ OutboxInv'
  BY <1>1 DEF IInv, CurInv, OutboxInv, Busy
<1>4. OneAhead'
  BY <1>1 DEF IInv, OneAhead, Busy, consumerVars
<1>5. CommitInv'
  BY <1>1 DEF CommitInv, Settled
<1> QED BY <1>2, <1>3, <1>4, <1>5 DEF IInv

LEMMA CommitStep == IInv /\ Commit => IInv'
<1> SUFFICES ASSUME IInv, Commit PROVE IInv'
  OBVIOUS
<1>1. committed' = pos /\ pos' = pos /\ pc' = "idle" /\ cur' = None
      /\ UNCHANGED <<graph, outbox, topicVars, faults>>
  BY DEF Commit, CommittedNow
<1>2. TypeInv'
  BY <1>1 DEF IInv, TypeInv, topicVars, Labels
<1>3. CurInv' /\ OutboxInv' /\ OneAhead' /\ CommitInv'
  BY <1>1 DEF IInv, CurInv, OutboxInv, OneAhead, CommitInv, Busy, Commit
<1> QED BY <1>2, <1>3 DEF IInv

LEMMA WorkerFaultStep == IInv /\ (Crash \/ Restart \/ RestartFails) => IInv'
<1> SUFFICES ASSUME IInv, Crash \/ Restart \/ RestartFails PROVE IInv'
  OBVIOUS
<1>1. /\ pc # "publish" /\ pc' \in Labels \ Busy /\ cur' = None
      /\ UNCHANGED <<graph, outbox, committed, topicVars>>
      /\ faults' \in 0..MaxFaults
      /\ pos' = committed \/ (pc \notin Busy /\ UNCHANGED pos)
  <2>1. faults' \in 0..MaxFaults
    BY FaultTypes DEF IInv, TypeInv, Crash, Restart, RestartFails
  <2> QED BY <2>1 DEF IInv, CurInv, Crash, Restart, RestartFails, Labels, Busy, consumerVars
<1>2. TypeInv'
  BY <1>1 DEF IInv, TypeInv, topicVars
<1>3. CurInv' /\ OutboxInv' /\ CommitInv'
  BY <1>1 DEF IInv, CurInv, OutboxInv, CommitInv, Busy
<1>4. OneAhead'
  BY <1>1 DEF IInv, OneAhead
<1> QED BY <1>2, <1>3, <1>4 DEF IInv

LEMMA RebalanceStep == IInv /\ Rebalance => IInv'
<1> SUFFICES ASSUME IInv, Rebalance PROVE IInv'
  OBVIOUS
<1>1. /\ pos' = committed /\ UNCHANGED <<pc, cur, graph, outbox, committed, topicVars>>
      /\ faults' \in 0..MaxFaults
  BY FaultTypes DEF Rebalance, IInv, TypeInv
<1>2. TypeInv'
  BY <1>1 DEF IInv, TypeInv, topicVars
<1>3. CurInv' /\ OutboxInv' /\ OneAhead'
  BY <1>1 DEF IInv, CurInv, OutboxInv, OneAhead, Busy, Owes
<1>4. CommitInv'
  BY <1>1 DEF IInv, CommitInv, Settled, topicVars
<1> QED BY <1>2, <1>3, <1>4 DEF IInv

LEMMA ProcessRestartStep == IInv /\ ProcessRestart => IInv'
<1> SUFFICES ASSUME IInv, ProcessRestart PROVE IInv'
  OBVIOUS
<1>1. PICK cut \in [Partitions -> 0..Max({Len(Log[p]) : p \in Partitions})] :
         \E rows \in Rows(cut) : graph' = Load(rows)
  BY DEF ProcessRestart
<1>2. graph' \in Sound
  BY <1>1, RowsAreEvents, LoadIsSound
<1>3. /\ pc' = "idle" /\ cur' = None /\ outbox' = <<>> /\ pos' = committed
      /\ UNCHANGED <<committed, topicVars>> /\ faults' \in 0..MaxFaults
  BY FaultTypes DEF ProcessRestart, IInv, TypeInv
<1>4. TypeInv'
  BY <1>2, <1>3 DEF IInv, TypeInv, topicVars, Labels
<1>5. CurInv' /\ OutboxInv' /\ OneAhead' /\ CommitInv'
  BY <1>3 DEF CurInv, OutboxInv, OneAhead, CommitInv, Busy
<1> QED BY <1>4, <1>5 DEF IInv

LEMMA StutterStep == IInv /\ UNCHANGED vars => IInv'
BY DEF IInv, TypeInv, CurInv, OutboxInv, OneAhead, CommitInv, Settled, Owes, vars,
       consumerVars, topicVars

LEMMA IInvStep == IInv /\ [Next]_vars => IInv'
<1> SUFFICES ASSUME IInv, [Next]_vars PROVE IInv'
  OBVIOUS
<1>1. ASSUME NEW p \in Partitions, Receive(p) PROVE IInv'
  BY <1>1, ReceiveStep
<1>2. ASSUME NEW p \in Partitions, ReceiveGarbage(p) PROVE IInv'
  BY <1>2, ReceiveGarbageStep
<1>3. ASSUME NEW p \in Partitions, ReceiveUnpredicted(p) PROVE IInv'
  BY <1>3, ReceiveUnpredictedStep
<1>4. CASE Publish
  BY <1>4, PublishStep
<1>5. CASE PublishFails
  BY <1>5, PublishFailsStep
<1>6. CASE DeadLetter \/ DeadLetterFails
  BY <1>6, DeadLetterStep
<1>7. CASE Commit
  BY <1>7, CommitStep
<1>8. CASE Crash \/ Restart \/ RestartFails
  BY <1>8, WorkerFaultStep
<1>9. CASE Rebalance
  BY <1>9, RebalanceStep
<1>10. CASE ProcessRestart
  BY <1>10, ProcessRestartStep
<1>11. CASE UNCHANGED vars
  BY <1>11, StutterStep
<1> QED BY <1>1, <1>2, <1>3, <1>4, <1>5, <1>6, <1>7, <1>8, <1>9, <1>10, <1>11
        DEF Next, Step, Quiescent

LEMMA IInvHolds == Spec => []IInv
  BY InitIInv, IInvStep, PTL DEF Spec

----------------------------------------------------------------------------
(* What follows.                                                           *)

\* The worker's state is well typed; in particular the graph's successor
\* lists and edge types always describe the same edges between known flights.
THEOREM TypeCorrect == Spec => []TypeOK
<1>1. IInv => TypeOK
  <2> SUFFICES ASSUME IInv PROVE TypeOK
    OBVIOUS
  <2>1. WellFormed(graph) /\ \A k \in FlightKeys : graph.flight[k] \in Event \cup {None}
    <3>1. graph \in Graphs /\ WellFormed(graph)
      BY DEF IInv, TypeInv, Sound, Shaped
    <3> QED BY <3>1, GraphFields
  <2>2. cur \in Messages \cup {None}
    BY DEF IInv, CurInv
  <2>3. \A i \in DOMAIN outbox : outbox[i] \in Prediction
    BY DEF IInv, TypeInv
  <2> QED BY <2>1, <2>2, <2>3 DEF TypeOK, IInv, TypeInv
<1> QED BY <1>1, IInvHolds, PTL

\* Whatever events, reassignments, failures and reloads led to the graph, two
\* flights that need one gate at one time are joined by the gate_reuse edge
\* resolve_gate_conflicts looks along.
THEOREM ConflictsStayLinked == Spec => []GateConflictsAreLinked
<1>1. IInv => GateConflictsAreLinked
  BY DEF IInv, TypeInv, Sound, GateConflictsAreLinked
<1> QED BY <1>1, IInvHolds, PTL

\* Only the two receiving actions apply an event.
LEMMA AppliesCases ==
    ASSUME IInv, [Next]_vars, Applies
    PROVE  \E p \in Partitions : Receive(p) \/ ReceiveUnpredicted(p)
<1>1. cur = None /\ pc = "idle" /\ cur' # None /\ Parses(cur')
  BY DEF IInv, CurInv, Busy, Applies
<1> QED BY <1>1 DEF Next, Step, Quiescent, Publish, PublishFails, DeadLetter, DeadLetterFails,
                    Commit, Crash, Restart, RestartFails, Rebalance, ProcessRestart,
                    ReceiveGarbage, vars

LEMMA AppliedIsConflictFree ==
    ASSUME NEW g \in Sound, NEW e \in Event, FreeGates(Resolve(ProcessEvent(g, e)).used) # {}
    PROVE  ConflictFree(Applied(g, e).graph)
<1> DEFINE p == ProcessEvent(g, e)
           r == Resolve(p)
<1>1. p \in Sound
  BY ProcessEventIsSound
<1>2. r = Resolve(p) /\ FreeGates(r.used) # {}
  OBVIOUS
<1> HIDE DEF p, r
<1>3. ConflictFree(r.graph)
  BY <1>1, <1>2, ResolvedIsConflictFree
<1> QED BY <1>3 DEF Applied, p, r

LEMMA ResolvedStep ==
    ASSUME IInv, [Next]_vars, Applies, FreeGates(Resolve(ProcessEvent(graph, EventOf(cur'))).used) # {}
    PROVE  ConflictFree(graph')
<1>1. PICK p \in Partitions : Receive(p) \/ ReceiveUnpredicted(p)
  BY AppliesCases
<1> DEFINE m == <<p, pos[p] + 1>>
           e == EventOf(m)
<1>2. Take(p) /\ cur' = m /\ m \in Messages /\ Parses(m)
  BY <1>1, TakeFacts DEF Receive, ReceiveUnpredicted
<1>3. e \in Event /\ e.key \in FlightKeys /\ graph \in Sound
  BY <1>2, MessageFacts, EventFields DEF IInv, TypeInv
<1>4. FreeGates(Resolve(ProcessEvent(graph, e)).used) # {}
  BY <1>2
<1> DEFINE r == Applied(graph, e)
           d == Propagated(r.graph, e)
<1>5. CASE Receive(p)
  <2>1. graph' = d.graph
    BY <1>2, <1>5 DEF Receive
  <2>2. r = Applied(graph, e) /\ d = Propagated(r.graph, e)
    OBVIOUS
  <2> HIDE DEF m, e, r, d
  <2>3. ConflictFree(r.graph)
    BY <1>3, <1>4, <2>2, AppliedIsConflictFree
  <2>4. r.graph \in Sound /\ Nodes(r.graph) = Nodes(graph) \cup {e.key}
    BY <1>3, <2>2, AppliedKeeps
  <2>6. e.key \in Nodes(r.graph)
    BY <2>4
  <2>5. ConflictFree(d.graph)
    BY <1>3, <2>2, <2>3, <2>4, <2>6, PropagatedKeeps
  <2> QED BY <2>1, <2>5
<1>6. CASE ReceiveUnpredicted(p)
  <2>1. graph' = Applied(graph, e).graph
    BY <1>2, <1>6 DEF ReceiveUnpredicted
  <2> HIDE DEF m, e
  <2> QED BY <1>3, <1>4, <2>1, AppliedIsConflictFree
<1> QED BY <1>1, <1>5, <1>6

\* Applying an event, predicted or not, leaves no two flights at one gate at
\* one time, unless the reassignments used up the pool of gates.
THEOREM ConflictsAreResolved == Spec => GateConflictsAreResolved
<1>1. IInv /\ [Next]_vars =>
        [Applies =>
           LET used == Resolve(ProcessEvent(graph, EventOf(cur'))).used IN
           FreeGates(used) # {} => ConflictFree(graph')]_vars
  BY ResolvedStep
<1> QED BY <1>1, IInvHolds, PTL DEF Spec, GateConflictsAreResolved

----------------------------------------------------------------------------
(* The delivery contract.                                                  *)

LEMMA ContractInit == Init => Contract!Init
<1> SUFFICES ASSUME Init PROVE Contract!Init
  OBVIOUS
<1>1. \A m \in Messages : ~Settled(m)
  BY DEF Init, Settled
<1> QED BY <1>1 DEF Init, Contract!Init

LEMMA ContractMessages == Contract!Messages = Messages
  BY DEF Contract!Messages, Messages

\* Nothing on a topic goes away.
LEMMA TopicsGrow ==
    [Next]_vars => published \subseteq published' /\ dlq \subseteq dlq' /\ dropped \subseteq dropped'
<1> SUFFICES ASSUME [Next]_vars
             PROVE  published \subseteq published' /\ dlq \subseteq dlq' /\ dropped \subseteq dropped'
  OBVIOUS
<1> QED BY DEF Next, Step, Quiescent, Receive, ReceiveGarbage, ReceiveUnpredicted, Publish,
               PublishFails, DeadLetter, DeadLetterFails, Commit, Crash, Restart, RestartFails,
               Rebalance, ProcessRestart, vars, topicVars

LEMMA OnlyCommitCommits ==
    ASSUME [Next]_vars, committed' # committed
    PROVE  Commit
BY DEF Next, Step, Quiescent, Receive, ReceiveGarbage, ReceiveUnpredicted, Publish,
       PublishFails, DeadLetter, DeadLetterFails, Commit, Crash, Restart, RestartFails,
       Rebalance, ProcessRestart, vars, consumerVars

LEMMA ContractStep == IInv /\ [Next]_vars => [Contract!Next]_(Contract!vars)
<1> SUFFICES ASSUME IInv, [Next]_vars PROVE [Contract!Next]_(Contract!vars)
  OBVIOUS
<1> DEFINE S == {m \in Messages : Settled(m)}
<1>1. S \subseteq S'
  BY TopicsGrow DEF Settled
<1>2. CASE committed' = committed
  <2>1. S' \in SUBSET Contract!Messages
    BY ContractMessages
  <2> QED BY <1>1, <1>2, <2>1 DEF Contract!Next, Contract!Settle
<1>3. CASE committed' # committed
  <2>1. Commit
    BY <1>3, OnlyCommitCommits
  <2>2. committed' = pos /\ pc = "commit" /\ cur \in Messages /\ Settled(cur)
    BY <2>1 DEF Commit, CommittedNow, IInv, CurInv, CommitInv, Busy
  <2>3. PICK p \in Partitions : pos[p] # committed[p]
    BY <1>3, <2>2 DEF IInv, TypeInv
  <2>4. pos[p] = committed[p] + 1 /\ cur = <<p, committed[p] + 1>>
    BY <2>3 DEF IInv, OneAhead
  <2>5. \A q \in Partitions \ {p} : pos[q] = committed[q]
    BY <2>4 DEF IInv, OneAhead
  <2>6. committed' = [committed EXCEPT ![p] = @ + 1]
    BY <2>2, <2>4, <2>5 DEF IInv, TypeInv
  <2>7. <<p, committed[p] + 1>> \in S
    BY <2>2, <2>4
  <2>8. S' = S
    BY <2>1 DEF Commit, topicVars, Settled
  <2> QED BY <2>6, <2>7, <2>8 DEF Contract!Next, Contract!Ack
<1> QED BY <1>2, <1>3

\* The predictor keeps the delivery contract with processed-flights: an
\* offset is committed past one message at a time, and only past one whose
\* predictions are all out, or that was dead-lettered or given up on.
THEOREM WorkerImplementsContract == Spec => ContractHolds
  BY ContractInit, ContractStep, IInvHolds, PTL DEF Spec, ContractHolds, Contract!Spec

----------------------------------------------------------------------------
(* Hops: the decayed delay and the flights within reach.                   *)

\* A function defined by its previous value is determined up to any bound.
LEMMA SameSteps ==
    ASSUME NEW n \in Nat, NEW f, NEW h, f[0] = h[0],
           \A i \in 1..n : f[i - 1] = h[i - 1] => f[i] = h[i]
    PROVE  f[n] = h[n]
<1> DEFINE S == {i \in 0..n : f[i] = h[i]}
<1>1. 0 \in S /\ \A i \in 1..n : i - 1 \in S => i \in S
  OBVIOUS
<1> HIDE DEF S
<1>2. 0..n \subseteq S
  BY <1>1, UpTo
<1> QED BY <1>2 DEF S

LEMMA DecayedSteps ==
    ASSUME NEW d \in Nat, NEW h \in Nat
    PROVE  \E f : /\ f \in [0..h -> Nat] /\ f[0] = d
                  /\ \A i \in 1..h : f[i] = Decay(f[i - 1])
                  /\ DecayedBy(d, h) = f[h]
<1> DEFINE step == [i \in 1..h |-> [x \in Nat |-> Decay(x)]]
           Eq(f) == f = [i \in 0..h |-> IF i = 0 THEN d ELSE Decay(f[i - 1])]
           after == CHOOSE f : Eq(f)
<1>1. step \in [1..h -> [Nat -> Nat]]
  BY DecayBounds
<1>2. \A i \in 1..h : \A x \in Nat : step[i][x] = Decay(x)
  OBVIOUS
<1>3. DecayedBy(d, h) = after[h]
  BY DEF DecayedBy
<1> HIDE DEF step
<1>4. PICK f : IsIteration(f, Nat, d, h, step)
  BY <1>1, Iteration
<1>5. f \in [0..h -> Nat] /\ f[0] = d /\ \A i \in 1..h : f[i] = step[i][f[i - 1]]
  BY <1>4 DEF IsIteration
<1>6. \A i \in 1..h : i - 1 \in 0..h /\ i # 0 /\ i \in 0..h
  OBVIOUS
<1>7. \A i \in 1..h : f[i] = Decay(f[i - 1])
  BY <1>2, <1>5, <1>6
<1>8. 0 \in 0..h /\ \A i \in 0..h : i = 0 \/ i \in 1..h
  OBVIOUS
<1>9. Eq(f)
  BY <1>5, <1>6, <1>7, <1>8
<1>10. Eq(after)
  BY <1>9
<1> HIDE DEF after
<1>11. after[0] = d /\ \A i \in 1..h : after[i] = Decay(after[i - 1])
  BY <1>6, <1>8, <1>10
<1>12. after[h] = f[h]
  <2>1. f[0] = after[0] /\ \A i \in 1..h : after[i - 1] = f[i - 1] => after[i] = f[i]
    BY <1>5, <1>7, <1>11
  <2> QED BY <2>1, SameSteps
<1> QED BY <1>3, <1>5, <1>7, <1>12

LEMMA DecayedOnce ==
    ASSUME NEW d \in Nat, NEW h \in Nat
    PROVE  /\ DecayedBy(d, 0) = d
           /\ DecayedBy(d, h + 1) = Decay(DecayedBy(d, h))
           /\ DecayedBy(d, h) \in Nat
<1>1. DecayedBy(d, 0) = d
  BY DecayedSteps
<1>2. PICK f : /\ f \in [0..h -> Nat] /\ f[0] = d
               /\ \A i \in 1..h : f[i] = Decay(f[i - 1])
               /\ DecayedBy(d, h) = f[h]
  BY DecayedSteps
<1>3. PICK g : /\ g \in [0..(h + 1) -> Nat] /\ g[0] = d
               /\ \A i \in 1..(h + 1) : g[i] = Decay(g[i - 1])
               /\ DecayedBy(d, h + 1) = g[h + 1]
  <2>1. h + 1 \in Nat
    OBVIOUS
  <2> QED BY <2>1, DecayedSteps
<1>4. \A i \in 1..h : i \in 1..(h + 1)
  OBVIOUS
<1>5. g[h] = f[h]
  <2>1. g[0] = f[0] /\ \A i \in 1..h : g[i - 1] = f[i - 1] => g[i] = f[i]
    BY <1>2, <1>3, <1>4
  <2> QED BY <2>1, SameSteps
<1>6. h + 1 \in 1..(h + 1) /\ (h + 1) - 1 = h /\ h \in 0..h
  OBVIOUS
<1> QED BY <1>1, <1>2, <1>3, <1>5, <1>6

\* Decaying is monotone, and a further hop decays further.
LEMMA DecayIsMonotone ==
    ASSUME NEW a \in Nat, NEW b \in Nat, a <= b
    PROVE  Decay(a) <= Decay(b)
BY DEF Decay

LEMMA DecayedFalls ==
    ASSUME NEW d \in Nat, NEW h \in Nat, NEW i \in Nat, h <= i
    PROVE  DecayedBy(d, i) <= DecayedBy(d, h)
<1> DEFINE S == {n \in Nat : DecayedBy(d, h + n) <= DecayedBy(d, h)}
<1>1. 0 \in S
  <2>1. h + 0 = h /\ DecayedBy(d, h) \in Nat
    BY DecayedOnce
  <2> QED BY <2>1
<1>2. ASSUME NEW n \in Nat, n \in S PROVE n + 1 \in S
  <2>1. h + n \in Nat /\ h + (n + 1) = (h + n) + 1
    OBVIOUS
  <2>2. DecayedBy(d, h + n) \in Nat /\ DecayedBy(d, (h + n) + 1) = Decay(DecayedBy(d, h + n))
        /\ DecayedBy(d, h) \in Nat
    BY <2>1, DecayedOnce
  <2>3. Decay(DecayedBy(d, h + n)) \in Nat /\ Decay(DecayedBy(d, h + n)) <= DecayedBy(d, h + n)
    BY <2>2, DecayBounds
  <2>4. DecayedBy(d, h + n) <= DecayedBy(d, h)
    BY <1>2
  <2>5. DecayedBy(d, h + (n + 1)) <= DecayedBy(d, h)
    BY <2>1, <2>2, <2>3, <2>4
  <2> QED BY <2>5
<1> HIDE DEF S
<1>3. Nat \subseteq S
  BY <1>1, <1>2, Induct
<1>4. i - h \in Nat /\ h + (i - h) = i
  OBVIOUS
<1>5. i - h \in S
  BY <1>3, <1>4
<1> QED BY <1>4, <1>5 DEF S

KeySets == SUBSET FlightKeys

\* One more edge.
Spread(g, S) == UNION {{n} \cup {j \in FlightKeys : HasEdge(g, n, j)} : n \in S}

LEMMA SpreadTypes ==
    ASSUME NEW g, NEW S \in KeySets
    PROVE  /\ Spread(g, S) \in KeySets
           /\ \A k \in FlightKeys : k \in Spread(g, S) <=> k \in S \/ \E n \in S : HasEdge(g, n, k)
BY DEF Spread, KeySets

IsNear(f, g, k, h) ==
    /\ f \in [0..h -> KeySets] /\ f[0] = {k}
    /\ \A i \in 1..h : f[i] = Spread(g, f[i - 1])
    /\ Within(g, k, h) = f[h]

LEMMA WithinSteps ==
    ASSUME NEW g, NEW k \in FlightKeys, NEW h \in Nat
    PROVE  \E f : IsNear(f, g, k, h)
<1> DEFINE X == KeySets
           step == [i \in 1..h |-> [x \in X |-> Spread(g, x)]]
           Eq(f) == f = [i \in 0..h |-> IF i = 0 THEN {k} ELSE Spread(g, f[i - 1])]
           after == CHOOSE f : Eq(f)
<1>1. step \in [1..h -> [X -> X]]
  BY SpreadTypes
<1>2. \A i \in 1..h : \A x \in X : step[i][x] = Spread(g, x)
  OBVIOUS
<1>3. Within(g, k, h) = after[h]
  BY DEF Within, Spread
<1> HIDE DEF step
<1>4. PICK f : IsIteration(f, X, {k}, h, step)
  <2>1. {k} \in X
    BY DEF KeySets
  <2> HIDE DEF X
  <2> QED BY <1>1, <2>1, Iteration
<1>5. f \in [0..h -> X] /\ f[0] = {k} /\ \A i \in 1..h : f[i] = step[i][f[i - 1]]
  BY <1>4 DEF IsIteration
<1>6. \A i \in 1..h : i - 1 \in 0..h /\ i # 0 /\ i \in 0..h
  OBVIOUS
<1>7. \A i \in 1..h : f[i] = Spread(g, f[i - 1])
  BY <1>2, <1>5, <1>6
<1>8. 0 \in 0..h /\ \A i \in 0..h : i = 0 \/ i \in 1..h
  OBVIOUS
<1>9. Eq(f)
  <2> HIDE DEF X
  <2> QED BY <1>5, <1>6, <1>7, <1>8
<1>10. Eq(after)
  BY <1>9
<1> HIDE DEF after
<1>11. after[0] = {k} /\ \A i \in 1..h : after[i] = Spread(g, after[i - 1])
  BY <1>6, <1>8, <1>10
<1>12. after[h] = f[h]
  <2>1. f[0] = after[0] /\ \A i \in 1..h : after[i - 1] = f[i - 1] => after[i] = f[i]
    BY <1>5, <1>7, <1>11
  <2> QED BY <2>1, SameSteps
<1>13. IsNear(f, g, k, h)
  BY <1>3, <1>5, <1>7, <1>12 DEF IsNear
<1> QED BY <1>13

LEMMA WithinOnce ==
    ASSUME NEW g, NEW k \in FlightKeys, NEW h \in Nat
    PROVE  /\ Within(g, k, 0) = {k}
           /\ Within(g, k, h + 1) = Spread(g, Within(g, k, h))
           /\ Within(g, k, h) \in KeySets
<1>1. Within(g, k, 0) = {k}
  <2>1. PICK f : IsNear(f, g, k, 0)
    BY WithinSteps
  <2> QED BY <2>1 DEF IsNear
<1>2. PICK f : IsNear(f, g, k, h)
  BY WithinSteps
<1>3. PICK e : IsNear(e, g, k, h + 1)
  <2>1. h + 1 \in Nat
    OBVIOUS
  <2> QED BY <2>1, WithinSteps
<1>4. \A i \in 1..h : i \in 1..(h + 1)
  OBVIOUS
<1>5. e[h] = f[h]
  <2>1. e[0] = f[0] /\ \A i \in 1..h : e[i - 1] = f[i - 1] => e[i] = f[i]
    BY <1>2, <1>3, <1>4 DEF IsNear
  <2> QED BY <2>1, SameSteps
<1>6. h + 1 \in 1..(h + 1) /\ (h + 1) - 1 = h /\ h \in 0..h
  OBVIOUS
<1> QED BY <1>1, <1>2, <1>3, <1>5, <1>6 DEF IsNear

\* What is within reach depends on the edges alone.
LEMMA WithinLinks ==
    ASSUME NEW g, NEW e, NEW k \in FlightKeys, NEW h \in Nat, g.link = e.link
    PROVE  Within(g, k, h) = Within(e, k, h)
<1> DEFINE S == {n \in Nat : Within(g, k, n) = Within(e, k, n)}
<1>1. 0 \in S
  BY WithinOnce
<1>2. \A T : Spread(g, T) = Spread(e, T)
  BY DEF Spread, HasEdge
<1>3. ASSUME NEW n \in Nat, n \in S PROVE n + 1 \in S
  <2>1. /\ Within(g, k, n + 1) = Spread(g, Within(g, k, n))
        /\ Within(e, k, n + 1) = Spread(e, Within(e, k, n))
    BY WithinOnce
  <2>2. Within(g, k, n) = Within(e, k, n)
    BY <1>3
  <2>3. Within(g, k, n + 1) = Within(e, k, n + 1)
    BY <1>2, <2>1, <2>2
  <2> QED BY <2>3
<1> HIDE DEF S
<1>4. Nat \subseteq S
  BY <1>1, <1>3, Induct
<1> QED BY <1>4 DEF S

\* What is within reach of a node is a node, and stays within reach.
LEMMA WithinNodes ==
    ASSUME NEW g \in Shaped, NEW k \in Nodes(g), NEW h \in Nat
    PROVE  Within(g, k, h) \subseteq Nodes(g) /\ k \in Within(g, k, h)
<1> DEFINE S == {n \in Nat : Within(g, k, n) \subseteq Nodes(g) /\ k \in Within(g, k, n)}
<1>0. g \in Graphs /\ k \in FlightKeys /\ Nodes(g) \subseteq FlightKeys
  BY GraphFields DEF Shaped
<1>1. 0 \in S
  BY <1>0, WithinOnce
<1>2. \A i, j \in FlightKeys : HasEdge(g, i, j) => {i, j} \subseteq Nodes(g)
  BY <1>0, ShapeParts DEF Shaped
<1>3. ASSUME NEW n \in Nat, n \in S PROVE n + 1 \in S
  <2>1. Within(g, k, n) \subseteq Nodes(g) /\ k \in Within(g, k, n)
    BY <1>3
  <2>2. Within(g, k, n + 1) = Spread(g, Within(g, k, n)) /\ Within(g, k, n) \in KeySets
    BY <1>0, WithinOnce
  <2>3. /\ Spread(g, Within(g, k, n)) \in KeySets
        /\ \A j \in FlightKeys : j \in Spread(g, Within(g, k, n)) <=>
              j \in Within(g, k, n) \/ \E i \in Within(g, k, n) : HasEdge(g, i, j)
    BY <2>2, SpreadTypes
  <2>4. Within(g, k, n + 1) \subseteq Nodes(g) /\ k \in Within(g, k, n + 1)
    BY <1>0, <1>2, <2>1, <2>2, <2>3 DEF KeySets
  <2> QED BY <2>4
<1> HIDE DEF S
<1>4. Nat \subseteq S
  BY <1>1, <1>3, Induct
<1> QED BY <1>4 DEF S

LEMMA WithinGrows ==
    ASSUME NEW g, NEW k \in FlightKeys, NEW h \in Nat, NEW i \in Nat, h <= i
    PROVE  Within(g, k, h) \subseteq Within(g, k, i)
<1> DEFINE S == {n \in Nat : Within(g, k, h) \subseteq Within(g, k, h + n)}
<1>1. 0 \in S
  <2>1. h + 0 = h
    OBVIOUS
  <2> QED BY <2>1
<1>2. ASSUME NEW n \in Nat, n \in S PROVE n + 1 \in S
  <2>1. h + n \in Nat /\ h + (n + 1) = (h + n) + 1
    OBVIOUS
  <2> DEFINE m == h + n
  <2>5. m \in Nat /\ h + (n + 1) = m + 1
    BY <2>1
  <2> HIDE DEF m
  <2>6. Within(g, k, m + 1) = Spread(g, Within(g, k, m)) /\ Within(g, k, m) \in KeySets
    BY <2>5, WithinOnce
  <2>2. Within(g, k, h + (n + 1)) = Spread(g, Within(g, k, h + n))
        /\ Within(g, k, h + n) \in KeySets
    BY <2>5, <2>6 DEF m
  <2>3. Within(g, k, h + n) \subseteq Spread(g, Within(g, k, h + n))
    BY DEF Spread
  <2>4. Within(g, k, h) \subseteq Within(g, k, h + (n + 1))
    BY <1>2, <2>2, <2>3
  <2> QED BY <2>4
<1> HIDE DEF S
<1>3. Nat \subseteq S
  BY <1>1, <1>2, Induct
<1>4. i - h \in Nat /\ h + (i - h) = i
  OBVIOUS
<1>5. i - h \in S
  BY <1>3, <1>4
<1> QED BY <1>4, <1>5 DEF S

----------------------------------------------------------------------------
(* The queue of the search.                                                *)

LEMMA TailFacts ==
    ASSUME NEW T, NEW seq \in Seq(T), seq # <<>>
    PROVE  /\ Head(seq) \in T /\ Head(seq) \in ToSet(seq) /\ Head(seq) = seq[1]
           /\ Tail(seq) \in Seq(T) /\ Len(seq) \in Nat /\ Len(seq) >= 1
           /\ Len(Tail(seq)) = Len(seq) - 1
           /\ \A i \in 1..(Len(seq) - 1) : Tail(seq)[i] = seq[i + 1]
           /\ ToSet(Tail(seq)) \subseteq ToSet(seq)
           /\ \A x \in ToSet(seq) : x = Head(seq) \/ x \in ToSet(Tail(seq))
<1>1. Len(seq) \in Nat /\ Len(seq) >= 1 /\ Head(seq) = seq[1] /\ DOMAIN seq = 1..Len(seq)
  OBVIOUS
<1>2. Head(seq) \in T /\ Head(seq) \in ToSet(seq)
  BY <1>1 DEF ToSet
<1>3. /\ Tail(seq) \in Seq(T) /\ Len(Tail(seq)) = Len(seq) - 1
      /\ DOMAIN Tail(seq) = 1..(Len(seq) - 1)
      /\ \A i \in 1..(Len(seq) - 1) : Tail(seq)[i] = seq[i + 1]
  BY <1>1
<1> DEFINE tail == Tail(seq)
           n == Len(seq)
<1>4. /\ DOMAIN seq = 1..n /\ DOMAIN tail = 1..(n - 1) /\ n \in Nat /\ n >= 1
      /\ \A i \in 1..(n - 1) : tail[i] = seq[i + 1]
  BY <1>1, <1>3
<1> HIDE DEF tail, n
<1>5. \A i \in 1..(n - 1) : i + 1 \in 1..n
  BY <1>4
<1>6. ToSet(tail) \subseteq ToSet(seq)
  BY <1>4, <1>5 DEF ToSet
<1>7. \A i \in 1..n : i = 1 \/ (i - 1 \in 1..(n - 1) /\ (i - 1) + 1 = i)
  BY <1>4
<1>8. \A i \in 1..n : i = 1 \/ seq[i] \in ToSet(tail)
  <2> TAKE i \in 1..n
  <2>1. CASE i # 1
    <3>1. i - 1 \in 1..(n - 1) /\ tail[i - 1] = seq[i]
      BY <1>4, <1>7, <2>1
    <3> QED BY <1>4, <3>1 DEF ToSet
  <2> QED BY <2>1
<1>9. \A x \in ToSet(seq) : x = seq[1] \/ x \in ToSet(tail)
  BY <1>4, <1>8 DEF ToSet
<1> QED BY <1>1, <1>2, <1>3, <1>6, <1>9 DEF tail, n

NewEntry(s, k) == [key |-> k, delay |-> Delayed(s, k), hops |-> Head(s.queue).hops + 1]

NewEntries(s, found) == [i \in DOMAIN found |-> NewEntry(s, found[i])]

LEMMA NewEntryTypes ==
    ASSUME NEW N, N \subseteq FlightKeys, NEW s \in Visits(N), s.queue # <<>>, NEW k \in N
    PROVE  /\ NewEntry(s, k) \in Entry(N)
           /\ NewEntry(s, k).key = k /\ NewEntry(s, k).delay = Delayed(s, k)
           /\ NewEntry(s, k).hops = Head(s.queue).hops + 1
           /\ Delayed(s, k) \in Nat /\ s.delay[k] <= Delayed(s, k)
           /\ Decay(Head(s.queue).delay) <= Delayed(s, k)
           /\ Delayed(s, k) = s.delay[k] \/ Delayed(s, k) = Decay(Head(s.queue).delay)
<1> DEFINE e == Head(s.queue)
           hops == e.hops + 1
           delay == Delayed(s, k)
<1>1. s.queue \in Seq(Entry(N)) /\ s.delay \in [FlightKeys -> Nat]
  BY VisitsFields
<1>2. e \in Entry(N)
  BY <1>1, TailFacts
<1> HIDE DEF e
<1>3. e.delay \in Nat /\ e.hops \in Nat /\ hops \in Nat
  BY <1>2 DEF Entry
<1>4. k \in FlightKeys /\ s.delay[k] \in Nat /\ Decay(e.delay) \in Nat
  BY <1>1, <1>3, DecayBounds
<1>5. /\ delay \in Nat /\ s.delay[k] <= delay /\ Decay(e.delay) <= delay
      /\ delay = s.delay[k] \/ delay = Decay(e.delay)
  BY <1>4, MergeBounds DEF Delayed, e
<1>6. NewEntry(s, k) = [key |-> k, delay |-> delay, hops |-> hops]
  BY DEF NewEntry, e
<1>7. e.delay = Head(s.queue).delay /\ hops = Head(s.queue).hops + 1
  BY DEF e
<1> HIDE DEF delay, hops
<1>8. NewEntry(s, k) \in Entry(N)
  BY <1>3, <1>5, <1>6 DEF Entry
<1> QED BY <1>5, <1>6, <1>7, <1>8 DEF delay

\* The queue after a visit: what is left of it, then what was found.
QueuedAfter(s, t, tail, found) ==
    /\ Len(t.queue) = Len(tail) + Len(found)
    /\ \A i \in 1..Len(tail) : t.queue[i] = tail[i]
    /\ \A i \in 1..Len(found) : t.queue[Len(tail) + i] = NewEntry(s, found[i])
    /\ ToSet(tail) \subseteq ToSet(t.queue)
    /\ \A k \in ToSet(found) : NewEntry(s, k) \in ToSet(t.queue)
    /\ \A q \in ToSet(t.queue) : q \in ToSet(tail) \/ \E k \in ToSet(found) : q = NewEntry(s, k)

LEMMA VisitedQueue ==
    ASSUME NEW g \in Shaped, NEW N, N = Nodes(g), NEW s \in Visits(N), s.queue # <<>>,
           NEW t, t = Visited(g, s), NEW tail, tail = Tail(s.queue),
           NEW found, found = Found(g, s)
    PROVE  QueuedAfter(s, t, tail, found)
<1>1. t.queue = tail \o NewEntries(s, found)
  BY DEF Visited, NewEntries, NewEntry
<1>2. /\ s.queue \in Seq(Entry(N)) /\ found \in Seq(N) /\ N \subseteq FlightKeys
  BY VisitsFields, FoundFacts, GraphFields DEF Shaped
<1>3. tail \in Seq(Entry(N))
  BY <1>2, TailFacts
<1>4. \A i \in 1..Len(found) : found[i] \in N
  BY <1>2
<1>5. \A i \in 1..Len(found) : NewEntry(s, found[i]) \in Entry(N)
  BY <1>2, <1>4, NewEntryTypes
<1>6. /\ NewEntries(s, found) \in Seq(Entry(N)) /\ Len(NewEntries(s, found)) = Len(found)
      /\ \A i \in 1..Len(found) : NewEntries(s, found)[i] = NewEntry(s, found[i])
  <2>1. DOMAIN found = 1..Len(found) /\ Len(found) \in Nat
    BY <1>2
  <2> QED BY <1>5, <2>1 DEF NewEntries
<1> DEFINE more == NewEntries(s, found)
<1>7. more \in Seq(Entry(N)) /\ t.queue = tail \o more
  BY <1>1, <1>6
<1> HIDE DEF more
<1>8. /\ Len(t.queue) = Len(tail) + Len(more)
      /\ \A i \in 1..Len(tail) : t.queue[i] = tail[i]
      /\ \A i \in 1..Len(more) : t.queue[Len(tail) + i] = more[i]
  BY <1>3, <1>7, Joined
<1> DEFINE n == Len(tail)
           m == Len(found)
           queue == t.queue
<1>9. /\ Len(queue) = n + m
      /\ \A i \in 1..n : queue[i] = tail[i]
      /\ \A i \in 1..m : queue[n + i] = NewEntry(s, found[i])
  BY <1>6, <1>8 DEF more
<1>10. queue \in Seq(Entry(N))
  BY <1>3, <1>7, Joined
<1>14. DOMAIN tail = 1..n /\ DOMAIN found = 1..m /\ n \in Nat /\ m \in Nat
  BY <1>2, <1>3
<1> HIDE DEF n, m, queue
<1>15. DOMAIN queue = 1..(n + m)
  BY <1>10, <1>9
<1>16. /\ \A i \in 1..n : i \in 1..(n + m)
       /\ \A i \in 1..m : n + i \in 1..(n + m)
       /\ \A i \in 1..(n + m) : i \in 1..n \/ (i - n \in 1..m /\ n + (i - n) = i)
  BY <1>14
<1>18. ToSet(tail) \subseteq ToSet(queue)
  BY <1>9, <1>14, <1>15, <1>16 DEF ToSet
<1>19. \A k \in ToSet(found) : NewEntry(s, k) \in ToSet(queue)
  <2> SUFFICES ASSUME NEW i \in 1..m PROVE NewEntry(s, found[i]) \in ToSet(queue)
    BY <1>14 DEF ToSet
  <2>1. queue[n + i] = NewEntry(s, found[i]) /\ n + i \in DOMAIN queue
    BY <1>9, <1>15, <1>16
  <2> QED BY <2>1 DEF ToSet
<1>20. \A q \in ToSet(queue) : q \in ToSet(tail) \/ \E k \in ToSet(found) : q = NewEntry(s, k)
  <2> SUFFICES ASSUME NEW i \in 1..(n + m)
               PROVE  queue[i] \in ToSet(tail) \/ \E k \in ToSet(found) : queue[i] = NewEntry(s, k)
    BY <1>15 DEF ToSet
  <2>1. CASE i \in 1..n
    BY <1>9, <1>14, <2>1 DEF ToSet
  <2>2. CASE i - n \in 1..m /\ n + (i - n) = i
    <3>1. queue[i] = NewEntry(s, found[i - n])
      BY <1>9, <2>2
    <3>2. found[i - n] \in ToSet(found)
      BY <1>14, <2>2 DEF ToSet
    <3> QED BY <3>1, <3>2
  <2>3. i \in 1..n \/ (i - n \in 1..m /\ n + (i - n) = i)
    BY <1>14
  <2> QED BY <2>1, <2>2, <2>3
<1>21. /\ Len(t.queue) = Len(tail) + Len(found)
       /\ \A i \in 1..Len(tail) : t.queue[i] = tail[i]
       /\ \A i \in 1..Len(found) : t.queue[Len(tail) + i] = NewEntry(s, found[i])
  BY <1>9 DEF queue, n, m
<1>22. ToSet(tail) \subseteq ToSet(t.queue) /\ \A k \in ToSet(found) : NewEntry(s, k) \in ToSet(t.queue)
  BY <1>18, <1>19 DEF queue
<1>23. \A q \in ToSet(t.queue) : q \in ToSet(tail) \/ \E k \in ToSet(found) : q = NewEntry(s, k)
  BY <1>20 DEF queue
<1> HIDE DEF queue, n, m
<1> QED BY <1>21, <1>22, <1>23, Zenon DEF QueuedAfter

----------------------------------------------------------------------------
(* Breadth first: a flight is visited in the fewest hops it can be.        *)

\* The first in the queue are L hops away, those behind them one more.
InOrder(s, L) ==
    /\ \A i \in 1..Len(s.queue) : s.queue[i].hops = L \/ s.queue[i].hops = L + 1
    /\ \A i, j \in 1..Len(s.queue) : i <= j => s.queue[i].hops <= s.queue[j].hops

\* What is queued carries the decayed delay, and its flight has no less.
Carries(d, s) ==
    \A q \in ToSet(s.queue) : DecayedBy(d, q.hops) <= q.delay /\ q.delay <= s.delay[q.key]

VisitedHave(d, s, L) == \A v \in s.visited : DecayedBy(d, L) <= s.delay[v]

\* What a visited flight leads to is visited or queued.
Known(g, s) ==
    \A v \in s.visited : \A k \in FlightKeys :
        HasEdge(g, v, k) => k \in s.visited \/ \E q \in ToSet(s.queue) : q.key = k

\* What is L hops away is visited, or queued as such.
Frontier(g, key, s, L) ==
    \A k \in Within(g, key, L) : k \in s.visited \/ \E q \in ToSet(s.queue) : q.key = k /\ q.hops = L

Reached(g, key, d, s, L) ==
    \A h \in 0..L : \A k \in Within(g, key, h) : DecayedBy(d, h) <= s.delay[k]

Level(g, key, d, s, L) ==
    /\ L \in Nat
    /\ InOrder(s, L) /\ Carries(d, s) /\ VisitedHave(d, s, L)
    /\ Known(g, s) /\ Frontier(g, key, s, L) /\ Reached(g, key, d, s, L)

\* What a search holds, spelled out.
Holds(N, s) ==
    /\ s.visited \subseteq FlightKeys /\ N \subseteq FlightKeys
    /\ \A k \in FlightKeys : s.delay[k] \in Nat
    /\ \A q \in ToSet(s.queue) : q.key \in N /\ q.delay \in Nat /\ q.hops \in Nat
    /\ \A q : q \in ToSet(s.queue) => \E i \in 1..Len(s.queue) : s.queue[i] = q
    /\ \A i \in 1..Len(s.queue) : s.queue[i] \in ToSet(s.queue)

LEMMA LevelTypes ==
    ASSUME NEW g \in Shaped, NEW N, N = Nodes(g), NEW s \in Visits(N)
    PROVE  Holds(N, s)
<1>1. N \subseteq FlightKeys
  BY GraphFields DEF Shaped
<1>2. s.queue \in Seq(Entry(N)) /\ s.visited \subseteq N /\ s.delay \in [FlightKeys -> Nat]
  BY VisitsFields
<1>3. DOMAIN s.queue = 1..Len(s.queue)
  BY <1>2
<1>4. /\ \A q : q \in ToSet(s.queue) => \E i \in 1..Len(s.queue) : s.queue[i] = q
      /\ \A i \in 1..Len(s.queue) : s.queue[i] \in ToSet(s.queue)
  BY <1>3 DEF ToSet
<1>5. \A i \in 1..Len(s.queue) : s.queue[i] \in Entry(N)
  BY <1>2
<1>6. \A q \in ToSet(s.queue) : q \in Entry(N)
  BY <1>4, <1>5
<1> QED BY <1>1, <1>2, <1>4, <1>6 DEF Entry, Holds

\* Once the first in the queue is a hop further away, so is the rest.
LEMMA LevelUp ==
    ASSUME NEW g \in Shaped, NEW N, N = Nodes(g), NEW key \in N, NEW d \in Nat,
           NEW s \in Visits(N), NEW L, Level(g, key, d, s, L),
           s.queue # <<>>, Head(s.queue).hops # L
    PROVE  Level(g, key, d, s, L + 1)
<1>1. /\ L \in Nat /\ L + 1 \in Nat
      /\ InOrder(s, L) /\ Carries(d, s) /\ VisitedHave(d, s, L)
      /\ Known(g, s) /\ Frontier(g, key, s, L) /\ Reached(g, key, d, s, L)
  BY DEF Level
<1>2. /\ s.visited \subseteq FlightKeys /\ N \subseteq FlightKeys
      /\ \A k \in FlightKeys : s.delay[k] \in Nat
      /\ \A q \in ToSet(s.queue) : q.key \in N /\ q.delay \in Nat /\ q.hops \in Nat
      /\ \A q : q \in ToSet(s.queue) => \E i \in 1..Len(s.queue) : s.queue[i] = q
      /\ \A i \in 1..Len(s.queue) : s.queue[i] \in ToSet(s.queue)
  <2>1. Holds(N, s)
    BY LevelTypes
  <2> QED BY <2>1 DEF Holds
<1>3. \A i \in 1..Len(s.queue) : s.queue[i].hops = L + 1
  <2>1. s.queue \in Seq(Entry(N))
    BY VisitsFields
  <2>2. Head(s.queue) = s.queue[1] /\ Len(s.queue) \in Nat /\ Len(s.queue) >= 1
    BY <2>1, TailFacts
  <2>3. 1 \in 1..Len(s.queue) /\ \A i \in 1..Len(s.queue) : 1 <= i
    BY <2>2
  <2>4. s.queue[1].hops = L + 1
    BY <1>1, <2>2, <2>3 DEF InOrder
  <2>5. ASSUME NEW i \in 1..Len(s.queue) PROVE s.queue[i].hops = L + 1
    <3>1. s.queue[1].hops <= s.queue[i].hops /\ (s.queue[i].hops = L \/ s.queue[i].hops = L + 1)
      BY <1>1, <2>3 DEF InOrder
    <3>2. L \in Nat
      BY <1>1
    <3>3. s.queue[i].hops = L => FALSE
      BY <2>4, <3>1, <3>2
    <3> QED BY <3>1, <3>3
  <2> QED BY <2>5
<1>4. \A q \in ToSet(s.queue) : q.hops = L + 1 /\ q.hops # L
  <2>1. L \in Nat
    BY <1>1
  <2>2. L + 1 # L
    BY <2>1
  <2>3. \A q \in ToSet(s.queue) : q.hops = L + 1
    BY <1>2, <1>3
  <2> QED BY <2>2, <2>3
<1>5. InOrder(s, L + 1)
  BY <1>1, <1>3 DEF InOrder
<1>6. \A h \in Nat : DecayedBy(d, h) \in Nat
  BY DecayedOnce
<1>7. DecayedBy(d, L + 1) <= DecayedBy(d, L)
  BY <1>1, DecayedFalls
<1>8. VisitedHave(d, s, L + 1)
  <2> SUFFICES ASSUME NEW v \in s.visited PROVE DecayedBy(d, L + 1) <= s.delay[v]
    BY DEF VisitedHave
  <2>1. DecayedBy(d, L) <= s.delay[v] /\ s.delay[v] \in Nat
    BY <1>1, <1>2 DEF VisitedHave
  <2>2. DecayedBy(d, L + 1) \in Nat /\ DecayedBy(d, L) \in Nat
    BY <1>1, <1>6
  <2> QED BY <1>7, <2>1, <2>2
<1>9. Frontier(g, key, s, L + 1)
  <2> SUFFICES ASSUME NEW k \in Within(g, key, L + 1)
               PROVE  k \in s.visited \/ \E q \in ToSet(s.queue) : q.key = k /\ q.hops = L + 1
    BY DEF Frontier
  <2>1. key \in FlightKeys
    BY <1>2
  <2>2. /\ Within(g, key, L + 1) = Spread(g, Within(g, key, L))
        /\ Within(g, key, L) \in KeySets /\ Within(g, key, L + 1) \in KeySets
    BY <1>1, <2>1, WithinOnce
  <2>3. k \in FlightKeys /\ (k \in Within(g, key, L) \/ \E n \in Within(g, key, L) : HasEdge(g, n, k))
    BY <2>2, SpreadTypes DEF KeySets
  <2>4. Within(g, key, L) \subseteq s.visited
    BY <1>1, <1>4 DEF Frontier
  <2>5. CASE k \in Within(g, key, L)
    BY <2>4, <2>5
  <2>6. CASE \E n \in Within(g, key, L) : HasEdge(g, n, k)
    <3>1. k \in s.visited \/ \E q \in ToSet(s.queue) : q.key = k
      BY <1>1, <2>3, <2>4, <2>6 DEF Known
    <3> QED BY <1>4, <3>1
  <2> QED BY <2>3, <2>5, <2>6
<1>10. \A k \in Within(g, key, L + 1) : DecayedBy(d, L + 1) <= s.delay[k]
  <2> SUFFICES ASSUME NEW k \in Within(g, key, L + 1) PROVE DecayedBy(d, L + 1) <= s.delay[k]
    OBVIOUS
  <2>1. CASE k \in s.visited
    BY <1>8, <2>1 DEF VisitedHave
  <2>2. CASE k \notin s.visited
    <3>1. PICK q \in ToSet(s.queue) : q.key = k /\ q.hops = L + 1
      BY <1>9, <2>2 DEF Frontier
    <3>2. DecayedBy(d, L + 1) <= q.delay /\ q.delay <= s.delay[k]
      BY <1>1, <3>1 DEF Carries
    <3>3. q.delay \in Nat /\ DecayedBy(d, L + 1) \in Nat /\ s.delay[k] \in Nat
      BY <1>1, <1>2, <1>6, <3>1
    <3> QED BY <3>2, <3>3
  <2> QED BY <2>1, <2>2
<1>11. Reached(g, key, d, s, L + 1)
  <2>1. \A h \in 0..(L + 1) : h \in 0..L \/ h = L + 1
    BY <1>1
  <2> QED BY <1>1, <1>10, <2>1 DEF Reached
<1> QED BY <1>1, <1>5, <1>8, <1>9, <1>11 DEF Level

\* An entry for a visited flight is dropped.
LEMMA LevelDropped ==
    ASSUME NEW g \in Shaped, NEW N, N = Nodes(g), NEW key \in N, NEW d \in Nat,
           NEW s \in Visits(N), NEW L, Level(g, key, d, s, L),
           s.queue # <<>>, Head(s.queue).key \in s.visited,
           NEW t, t = [s EXCEPT !.queue = Tail(@)]
    PROVE  Level(g, key, d, t, L)
<1>1. /\ L \in Nat
      /\ InOrder(s, L) /\ Carries(d, s) /\ VisitedHave(d, s, L)
      /\ Known(g, s) /\ Frontier(g, key, s, L) /\ Reached(g, key, d, s, L)
  BY DEF Level
<1>2. t.queue = Tail(s.queue) /\ t.visited = s.visited /\ t.delay = s.delay
  BY DEF Visits
<1>3. s.queue \in Seq(Entry(N))
  BY VisitsFields
<1> DEFINE n == Len(s.queue)
           tail == Tail(s.queue)
<1>4. /\ n \in Nat /\ n >= 1 /\ Len(tail) = n - 1
      /\ \A i \in 1..(n - 1) : tail[i] = s.queue[i + 1]
      /\ ToSet(tail) \subseteq ToSet(s.queue)
      /\ \A x \in ToSet(s.queue) : x = Head(s.queue) \/ x \in ToSet(tail)
  BY <1>3, TailFacts
<1>5. InOrder(s, L) => /\ \A i \in 1..n : s.queue[i].hops = L \/ s.queue[i].hops = L + 1
                       /\ \A i, j \in 1..n : i <= j => s.queue[i].hops <= s.queue[j].hops
  BY DEF InOrder
<1> HIDE DEF n, tail
<1>6. \A i \in 1..(n - 1) : i + 1 \in 1..n
  BY <1>4
<1>7. \A i, j \in 1..(n - 1) : i <= j => i + 1 <= j + 1
  BY <1>4
<1>8. InOrder(t, L)
  <2>1. /\ \A i \in 1..(n - 1) : tail[i].hops = L \/ tail[i].hops = L + 1
        /\ \A i, j \in 1..(n - 1) : i <= j => tail[i].hops <= tail[j].hops
    BY <1>1, <1>4, <1>5, <1>6, <1>7
  <2>2. t.queue = tail
    BY <1>2 DEF tail
  <2> QED BY <1>4, <2>1, <2>2 DEF InOrder
<1>9. t.queue = tail
  BY <1>2 DEF tail
<1>10. Carries(d, t) /\ VisitedHave(d, t, L) /\ Reached(g, key, d, t, L)
  BY <1>1, <1>2, <1>4, <1>9 DEF Carries, VisitedHave, Reached
<1>11. Known(g, t)
  BY <1>1, <1>2, <1>4, <1>9 DEF Known
<1>12. Frontier(g, key, t, L)
  BY <1>1, <1>2, <1>4, <1>9 DEF Frontier
<1> QED BY <1>1, <1>8, <1>10, <1>11, <1>12 DEF Level

\* The first in the queue is visited and what it leads to is queued.
LEMMA LevelVisited ==
    ASSUME NEW g \in Shaped, NEW N, N = Nodes(g), NEW key \in N, NEW d \in Nat,
           NEW s \in Visits(N), NEW L, Level(g, key, d, s, L),
           s.queue # <<>>, Head(s.queue).hops = L,
           NEW t, t = Visited(g, s)
    PROVE  Level(g, key, d, t, L)
<1> DEFINE e == Head(s.queue)
           tail == Tail(s.queue)
           found == Found(g, s)
           n == Len(tail)
           m == Len(found)
<1>1. /\ L \in Nat
      /\ InOrder(s, L) /\ Carries(d, s) /\ VisitedHave(d, s, L)
      /\ Known(g, s) /\ Frontier(g, key, s, L) /\ Reached(g, key, d, s, L)
  BY DEF Level
<1>2. L \in Nat
  BY <1>1
<1>3. s.queue \in Seq(Entry(N)) /\ N \subseteq FlightKeys
  BY VisitsFields, GraphFields DEF Shaped
<1>4. /\ e \in ToSet(s.queue) /\ e = s.queue[1] /\ e \in Entry(N)
      /\ Len(s.queue) \in Nat /\ Len(s.queue) >= 1 /\ n = Len(s.queue) - 1
      /\ \A i \in 1..(Len(s.queue) - 1) : tail[i] = s.queue[i + 1]
      /\ ToSet(tail) \subseteq ToSet(s.queue)
      /\ \A x \in ToSet(s.queue) : x = e \/ x \in ToSet(tail)
  BY <1>3, TailFacts
<1>5. /\ Len(t.queue) = n + m
      /\ \A i \in 1..n : t.queue[i] = tail[i]
      /\ \A i \in 1..m : t.queue[n + i] = NewEntry(s, found[i])
      /\ ToSet(tail) \subseteq ToSet(t.queue)
      /\ \A k \in ToSet(found) : NewEntry(s, k) \in ToSet(t.queue)
      /\ \A q \in ToSet(t.queue) : q \in ToSet(tail) \/ \E k \in ToSet(found) : q = NewEntry(s, k)
  <2>1. tail = Tail(s.queue) /\ found = Found(g, s) /\ n = Len(tail) /\ m = Len(found)
    OBVIOUS
  <2> HIDE DEF tail, found, n, m
  <2>2. QueuedAfter(s, t, tail, found)
    BY <2>1, VisitedQueue
  <2> QED BY <2>1, <2>2 DEF QueuedAfter
<1>6. /\ found \in Seq(N)
      /\ \A k \in FlightKeys : k \in ToSet(found) <=> /\ HasEdge(g, e.key, k)
                                                      /\ k \notin s.visited /\ k # e.key
  BY FoundFacts
<1>7. ToSet(found) \subseteq N /\ m \in Nat /\ \A i \in 1..m : found[i] \in N
  BY <1>6 DEF ToSet
<1>8. /\ t.visited = s.visited \cup {e.key}
      /\ \A k \in FlightKeys : t.delay[k] = IF k \in ToSet(found) THEN Delayed(s, k) ELSE s.delay[k]
  BY VisitedFields
<1>9. \A k \in N : /\ NewEntry(s, k).key = k /\ NewEntry(s, k).delay = Delayed(s, k)
                   /\ NewEntry(s, k).hops = L + 1
                   /\ Delayed(s, k) \in Nat /\ Decay(e.delay) <= Delayed(s, k)
  <2> SUFFICES ASSUME NEW k \in N
               PROVE  /\ NewEntry(s, k).key = k /\ NewEntry(s, k).delay = Delayed(s, k)
                      /\ NewEntry(s, k).hops = L + 1
                      /\ Delayed(s, k) \in Nat /\ Decay(e.delay) <= Delayed(s, k)
    OBVIOUS
  <2>1. N \subseteq FlightKeys
    BY <1>3
  <2> QED BY <2>1, NewEntryTypes
<1>10. t \in Visits(N) /\ \A k \in FlightKeys : s.delay[k] <= t.delay[k]
  BY VisitedTypes
<1>11. /\ \A k \in FlightKeys : s.delay[k] \in Nat /\ t.delay[k] \in Nat
       /\ s.visited \subseteq FlightKeys
       /\ \A q \in ToSet(s.queue) : q.key \in FlightKeys /\ q.delay \in Nat /\ q.hops \in Nat
  <2>1. Holds(N, s) /\ Holds(N, t)
    BY <1>10, LevelTypes
  <2> QED BY <1>3, <2>1 DEF Holds
<1>12. e.key \in FlightKeys /\ e.delay \in Nat /\ e.hops = L /\ e.key \in N
  BY <1>3, <1>4, <1>11 DEF Entry
<1>13. \A h \in Nat : DecayedBy(d, h) \in Nat
  BY DecayedOnce
<1> HIDE DEF e, tail, found, n, m
<1>14. InOrder(t, L)
  <2> DEFINE w == Len(s.queue)
  <2>1. /\ \A i \in 1..w : s.queue[i].hops = L \/ s.queue[i].hops = L + 1
        /\ \A i, j \in 1..w : i <= j => s.queue[i].hops <= s.queue[j].hops
    BY <1>1 DEF InOrder
  <2>2. n \in Nat /\ n = w - 1 /\ w \in Nat /\ w >= 1
    BY <1>4
  <2> HIDE DEF w
  <2>3. \A i \in 1..n : i + 1 \in 1..w /\ t.queue[i] = s.queue[i + 1]
    BY <1>4, <1>5, <2>2 DEF w
  <2>4. \A i \in 1..n : t.queue[i].hops = L \/ t.queue[i].hops = L + 1
    BY <2>1, <2>3
  <2>5. \A i \in 1..m : t.queue[n + i].hops = L + 1
    BY <1>5, <1>7, <1>9, SMTT(30)
  <2>10. n \in Nat /\ m \in Nat
    BY <1>7, <2>2
  <2>6. \A i \in 1..(n + m) : i \in 1..n \/ (i > n /\ i - n \in 1..m /\ n + (i - n) = i)
    BY <2>10
  <2>7. \A i \in 1..(n + m) : i \in 1..n \/ (i > n /\ t.queue[i].hops = L + 1)
    <3> TAKE i \in 1..(n + m)
    <3>1. CASE i \notin 1..n
      <4>1. i > n /\ i - n \in 1..m /\ n + (i - n) = i
        BY <2>6, <3>1
      <4>2. t.queue[n + (i - n)].hops = L + 1
        BY <2>5, <4>1
      <4> QED BY <4>1, <4>2
    <3> QED BY <3>1
  <2>8. \A i \in 1..(n + m) : t.queue[i].hops = L \/ t.queue[i].hops = L + 1
    BY <2>4, <2>7
  <2>9. ASSUME NEW i \in 1..(n + m), NEW j \in 1..(n + m), i <= j
        PROVE  t.queue[i].hops <= t.queue[j].hops
    <3>1. CASE j \in 1..n
      <4>1. i \in 1..n
        BY <2>2, <2>9, <3>1
      <4>2. i + 1 \in 1..w /\ j + 1 \in 1..w /\ i + 1 <= j + 1
        BY <2>2, <2>3, <2>9, <3>1, <4>1
      <4> QED BY <2>1, <2>3, <3>1, <4>1, <4>2
    <3>2. CASE j \notin 1..n
      <4>1. t.queue[j].hops = L + 1
        BY <2>7, <3>2
      <4>2. L <= L + 1 /\ L + 1 <= L + 1
        BY <1>2
      <4> QED BY <2>8, <4>1, <4>2
    <3> QED BY <3>1, <3>2
  <2> QED BY <1>5, <2>8, <2>9 DEF InOrder
<1>15. ASSUME NEW q \in ToSet(t.queue)
       PROVE  DecayedBy(d, q.hops) <= q.delay /\ q.delay <= t.delay[q.key]
  <2>1. CASE q \in ToSet(tail)
    <3>1. q \in ToSet(s.queue)
      BY <1>4, <2>1
    <3>2. DecayedBy(d, q.hops) <= q.delay /\ q.delay <= s.delay[q.key]
      BY <1>1, <3>1 DEF Carries
    <3>3. /\ s.delay[q.key] <= t.delay[q.key]
          /\ q.delay \in Nat /\ s.delay[q.key] \in Nat /\ t.delay[q.key] \in Nat
      BY <1>10, <1>11, <3>1
    <3> QED BY <3>2, <3>3
  <2>2. CASE \E k \in ToSet(found) : q = NewEntry(s, k)
    <3>1. PICK k \in ToSet(found) : q = NewEntry(s, k)
      BY <2>2
    <3>2. k \in N /\ k \in FlightKeys
      BY <1>3, <1>7
    <3>3. q.key = k /\ q.delay = Delayed(s, k) /\ q.hops = L + 1
          /\ Delayed(s, k) \in Nat /\ Decay(e.delay) <= Delayed(s, k)
      BY <1>9, <3>1, <3>2
    <3>4. t.delay[k] = Delayed(s, k)
      BY <1>8, <3>2
    <3>5. DecayedBy(d, L) <= e.delay
      BY <1>1, <1>4, <1>12 DEF Carries
    <3>6. DecayedBy(d, L) \in Nat /\ DecayedBy(d, L + 1) = Decay(DecayedBy(d, L))
      BY <1>2, DecayedOnce
    <3>7. DecayedBy(d, L + 1) <= Decay(e.delay) /\ DecayedBy(d, L + 1) \in Nat /\ Decay(e.delay) \in Nat
      BY <1>12, <3>5, <3>6, DecayIsMonotone, DecayBounds
    <3>8. DecayedBy(d, L + 1) <= Delayed(s, k) /\ Delayed(s, k) <= Delayed(s, k)
      BY <3>3, <3>7
    <3> QED BY <3>3, <3>4, <3>8
  <2> QED BY <1>5, <2>1, <2>2
<1>16. ASSUME NEW v \in t.visited PROVE DecayedBy(d, L) <= t.delay[v]
  <2>1. v \in FlightKeys /\ DecayedBy(d, L) <= s.delay[v]
    <3>1. CASE v \in s.visited
      BY <1>1, <1>11, <3>1 DEF VisitedHave
    <3>2. CASE v = e.key
      <4>1. DecayedBy(d, L) <= e.delay /\ e.delay <= s.delay[e.key]
        BY <1>1, <1>4, <1>12 DEF Carries
      <4>2. DecayedBy(d, L) \in Nat /\ e.delay \in Nat /\ s.delay[e.key] \in Nat
        BY <1>2, <1>11, <1>12, <1>13
      <4> QED BY <1>12, <3>2, <4>1, <4>2
    <3> QED BY <1>8, <3>1, <3>2
  <2>2. s.delay[v] <= t.delay[v] /\ s.delay[v] \in Nat /\ t.delay[v] \in Nat
    BY <1>10, <1>11, <2>1
  <2>3. DecayedBy(d, L) \in Nat
    BY <1>2, <1>13
  <2> QED BY <2>1, <2>2, <2>3
<1>17. \A q \in ToSet(s.queue) : q.key \in t.visited \/ q \in ToSet(t.queue)
  BY <1>4, <1>5, <1>8
<1>18. ASSUME NEW v \in t.visited, NEW k \in FlightKeys, HasEdge(g, v, k)
       PROVE  k \in t.visited \/ \E q \in ToSet(t.queue) : q.key = k
  <2>1. CASE v \in s.visited
    BY <1>1, <1>8, <1>17, <1>18, <2>1 DEF Known
  <2>2. CASE v = e.key
    <3>1. k \in s.visited \/ k = e.key \/ k \in ToSet(found)
      BY <1>6, <1>18, <2>2
    <3>2. k \in ToSet(found) => NewEntry(s, k) \in ToSet(t.queue) /\ NewEntry(s, k).key = k
      BY <1>5, <1>7, <1>9
    <3> QED BY <1>8, <3>1, <3>2
  <2> QED BY <1>8, <2>1, <2>2
<1>19. ASSUME NEW k \in Within(g, key, L)
       PROVE  k \in t.visited \/ \E q \in ToSet(t.queue) : q.key = k /\ q.hops = L
  BY <1>1, <1>8, <1>17 DEF Frontier
<1>20. ASSUME NEW h \in 0..L, NEW k \in Within(g, key, h) PROVE DecayedBy(d, h) <= t.delay[k]
  <2>1. h \in Nat /\ key \in FlightKeys
    BY <1>3
  <2>2. k \in FlightKeys
    BY <2>1, WithinOnce DEF KeySets
  <2>3. DecayedBy(d, h) <= s.delay[k]
    BY <1>1 DEF Reached
  <2>4. s.delay[k] <= t.delay[k] /\ s.delay[k] \in Nat /\ t.delay[k] \in Nat /\ DecayedBy(d, h) \in Nat
    BY <1>10, <1>11, <1>13, <2>1, <2>2
  <2> QED BY <2>3, <2>4
<1> QED BY <1>2, <1>14, <1>15, <1>16, <1>18, <1>19, <1>20
        DEF Level, Carries, VisitedHave, Known, Frontier, Reached

\* A turn keeps the level of the search, or goes one up.
LEMMA LevelTurn ==
    ASSUME NEW g \in Shaped, NEW N, N = Nodes(g), NEW key \in N, NEW d \in Nat,
           NEW s \in Visits(N), NEW L, Level(g, key, d, s, L),
           NEW t, t = BfsTurn(g, s)
    PROVE  \E M : Level(g, key, d, t, M)
<1>1. CASE s.queue = <<>> /\ t = s
  BY <1>1
<1>2. CASE s.queue # <<>>
  <2>1. PICK M : Level(g, key, d, s, M) /\ Head(s.queue).hops = M
    <3>1. CASE Head(s.queue).hops # L
      <4>1. Level(g, key, d, s, L + 1)
        BY <1>2, <3>1, LevelUp
      <4>2. L \in Nat /\ L + 1 \in Nat /\ InOrder(s, L)
        BY DEF Level
      <4>3. s.queue \in Seq(Entry(N))
        BY VisitsFields
      <4>4. Head(s.queue) = s.queue[1] /\ 1 \in 1..Len(s.queue)
        BY <1>2, <4>3, TailFacts
      <4>5. Head(s.queue).hops = L + 1
        BY <3>1, <4>2, <4>4 DEF InOrder
      <4> QED BY <4>1, <4>5
    <3> QED BY <3>1
  <2>2. CASE Head(s.queue).key \in s.visited /\ t = [s EXCEPT !.queue = Tail(@)]
    <3>1. Level(g, key, d, t, M)
      BY <1>2, <2>1, <2>2, LevelDropped
    <3> QED BY <3>1
  <2>3. CASE t = Visited(g, s)
    <3>1. Level(g, key, d, t, M)
      BY <1>2, <2>1, <2>3, LevelVisited
    <3> QED BY <3>1
  <2> QED BY <1>2, <2>2, <2>3, BfsTurnCases
<1> QED BY <1>1, <1>2, BfsTurnCases

\* The trigger is queued with a delay it has already.
LEMMA LevelStart ==
    ASSUME NEW g \in Shaped, NEW N, N = Nodes(g), NEW key \in N, NEW d \in Nat,
           d <= g.flight[key].delay,
           NEW s, s = SearchStart(g, key, d)
    PROVE  Level(g, key, d, s, 0)
<1> DEFINE q == [key |-> key, delay |-> d, hops |-> 0]
<1>1. s.queue = <<q>> /\ s.visited = {} /\ s.delay[key] = g.flight[key].delay /\ key \in FlightKeys
  BY NodesAreFlights DEF SearchStart
<1>2. q.key = key /\ q.delay = d /\ q.hops = 0
  OBVIOUS
<1> HIDE DEF q
<1>3. Len(s.queue) = 1 /\ s.queue[1] = q /\ DOMAIN s.queue = 1..1
  BY <1>1
<1>4. ToSet(s.queue) = {q}
  BY <1>3 DEF ToSet
<1>5. DecayedBy(d, 0) = d /\ Within(g, key, 0) = {key}
  BY <1>1, DecayedOnce, WithinOnce
<1>6. InOrder(s, 0)
  <2>1. \A i \in 1..1 : i = 1
    OBVIOUS
  <2>2. \A i \in 1..Len(s.queue) : s.queue[i].hops = 0
    BY <1>2, <1>3, <2>1
  <2> QED BY <2>2 DEF InOrder
<1>7. Carries(d, s)
  BY <1>1, <1>2, <1>4, <1>5 DEF Carries
<1>8. VisitedHave(d, s, 0) /\ Known(g, s)
  BY <1>1 DEF VisitedHave, Known
<1>9. Frontier(g, key, s, 0)
  BY <1>2, <1>4, <1>5 DEF Frontier
<1>10. Reached(g, key, d, s, 0)
  <2>1. \A h \in 0..0 : h = 0
    OBVIOUS
  <2>2. \A k \in Within(g, key, 0) : DecayedBy(d, 0) <= s.delay[k]
    BY <1>1, <1>5
  <2> QED BY <2>1, <2>2 DEF Reached
<1> QED BY <1>6, <1>7, <1>8, <1>9, <1>10 DEF Level

\* When the queue is empty, every flight within reach has its decayed delay.
LEMMA LevelEnd ==
    ASSUME NEW g \in Shaped, NEW N, N = Nodes(g), NEW key \in N, NEW d \in Nat,
           NEW s \in Visits(N), NEW L, Level(g, key, d, s, L), s.queue = <<>>,
           NEW h \in Nat, NEW k \in Within(g, key, h)
    PROVE  DecayedBy(d, h) <= s.delay[k]
<1>1. /\ L \in Nat /\ VisitedHave(d, s, L)
      /\ Known(g, s) /\ Frontier(g, key, s, L) /\ Reached(g, key, d, s, L)
  BY DEF Level
<1>2. key \in FlightKeys
  BY NodesAreFlights
<1>3. ToSet(s.queue) = {}
  BY DEF ToSet
<1> DEFINE S == {n \in Nat : Within(g, key, L + n) \subseteq s.visited}
<1>4. 0 \in S
  <2>1. L + 0 = L
    BY <1>1
  <2> QED BY <1>1, <1>3, <2>1 DEF Frontier
<1>5. ASSUME NEW n \in Nat, n \in S PROVE n + 1 \in S
  <2> DEFINE m == L + n
  <2>1. m \in Nat /\ L + (n + 1) = m + 1 /\ Within(g, key, m) \subseteq s.visited
    BY <1>1, <1>5
  <2> HIDE DEF m
  <2>2. Within(g, key, m + 1) = Spread(g, Within(g, key, m)) /\ Within(g, key, m) \in KeySets
    BY <1>2, <2>1, WithinOnce
  <2>3. /\ Spread(g, Within(g, key, m)) \in KeySets
        /\ \A j \in FlightKeys : j \in Spread(g, Within(g, key, m)) <=>
              j \in Within(g, key, m) \/ \E i \in Within(g, key, m) : HasEdge(g, i, j)
    BY <2>2, SpreadTypes
  <2>4. Within(g, key, m + 1) \subseteq s.visited
    BY <1>1, <1>3, <2>1, <2>2, <2>3 DEF Known, KeySets
  <2> QED BY <2>1, <2>4
<1> HIDE DEF S
<1>6. Nat \subseteq S
  BY <1>4, <1>5, Induct
<1>7. CASE h <= L
  <2>1. h \in 0..L
    BY <1>1, <1>7
  <2> QED BY <1>1, <2>1 DEF Reached
<1>8. CASE h > L
  <2>1. h - L \in Nat /\ L + (h - L) = h /\ L <= h
    BY <1>1, <1>8
  <2>2. h - L \in S
    BY <1>6, <2>1
  <2>3. k \in s.visited
    BY <2>1, <2>2 DEF S
  <2>4. DecayedBy(d, L) <= s.delay[k]
    BY <1>1, <2>3 DEF VisitedHave
  <2>5. DecayedBy(d, h) <= DecayedBy(d, L)
    BY <1>1, <2>1, DecayedFalls
  <2>6. DecayedBy(d, h) \in Nat /\ DecayedBy(d, L) \in Nat
    BY <1>1, DecayedOnce
  <2>7. Holds(N, s)
    BY LevelTypes
  <2>8. s.delay[k] \in Nat
    BY <2>3, <2>7 DEF Holds
  <2> QED BY <2>4, <2>5, <2>6, <2>8
<1> QED BY <1>1, <1>7, <1>8

----------------------------------------------------------------------------
(* The search ends within its turns, and stays within reach.               *)

Count == Cardinality(FlightKeys)

LEMMA NoMoreThanCount ==
    ASSUME NEW seq \in Seq(FlightKeys), Distinct(seq)
    PROVE  Len(seq) \in Nat /\ Len(seq) <= Count
<1>1. Len(seq) \in Nat /\ DOMAIN seq = 1..Len(seq) /\ seq \in [1..Len(seq) -> FlightKeys]
  OBVIOUS
<1>2. seq \in Injection(1..Len(seq), FlightKeys)
  BY <1>1 DEF Injection, IsInjective, Distinct
<1>3. Cardinality(1..Len(seq)) <= Cardinality(FlightKeys)
  BY <1>2, PoolAssumption, FS_Injection
<1>4. Cardinality(1..Len(seq)) = Len(seq)
  BY <1>1, FS_Interval
<1> QED BY <1>1, <1>3, <1>4 DEF Count

\* What is left to pop, and what the visits to come may queue.
Work(s) == Len(s.queue) + Count * (Count - Cardinality(s.visited))

LEMMA VisitedCount ==
    ASSUME NEW N, N \subseteq FlightKeys, NEW s \in Visits(N), NEW k \in N
    PROVE  /\ Cardinality(s.visited) \in Nat /\ Count \in Nat
           /\ Cardinality(s.visited) <= Count
           /\ k \notin s.visited =>
                /\ Cardinality(s.visited \cup {k}) = Cardinality(s.visited) + 1
                /\ Cardinality(s.visited) + 1 <= Count
<1>1. s.visited \in SUBSET FlightKeys /\ s.visited \cup {k} \in SUBSET FlightKeys
  BY VisitsFields
<1>2. /\ IsFiniteSet(s.visited) /\ Cardinality(s.visited) <= Count
      /\ Cardinality(s.visited \cup {k}) <= Count
  BY <1>1, PoolAssumption, FS_Subset DEF Count
<1>3. Cardinality(s.visited) \in Nat /\ Count \in Nat
  BY <1>2, PoolAssumption, FS_CardinalityType DEF Count
<1>4. k \notin s.visited => Cardinality(s.visited \cup {k}) = Cardinality(s.visited) + 1
  BY <1>2, FS_AddElement
<1> QED BY <1>2, <1>3, <1>4

LEMMA WorkFalls ==
    ASSUME NEW g \in Shaped, NEW N, N = Nodes(g), NEW s \in Visits(N), s.queue # <<>>,
           NEW t, t = BfsTurn(g, s)
    PROVE  Work(s) \in Int /\ Work(t) \in Int /\ Work(t) <= Work(s) - 1
<1> DEFINE e == Head(s.queue)
           v == Cardinality(s.visited)
           n == Len(s.queue)
<1>1. s.queue \in Seq(Entry(N)) /\ N \subseteq FlightKeys /\ g \in Graphs
  BY VisitsFields, GraphFields DEF Shaped
<1>2. n \in Nat /\ n >= 1 /\ Len(Tail(s.queue)) = n - 1 /\ e.key \in N
  <2>1. n \in Nat /\ n >= 1 /\ Len(Tail(s.queue)) = n - 1 /\ e \in Entry(N)
    BY <1>1, TailFacts
  <2> QED BY <2>1 DEF Entry
<1> HIDE DEF e
<1>3. v \in Nat /\ Count \in Nat /\ v <= Count
  BY <1>1, <1>2, VisitedCount
<1>4. Work(s) = n + Count * (Count - v)
  BY DEF Work
<1>5. CASE t = [s EXCEPT !.queue = Tail(@)]
  <2>1. t.queue = Tail(s.queue) /\ t.visited = s.visited
    BY <1>5 DEF Visits
  <2>2. Work(t) = (n - 1) + Count * (Count - v)
    BY <1>2, <2>1 DEF Work
  <2> HIDE DEF n, v
  <2> QED BY <1>2, <1>3, <1>4, <2>2
<1>6. CASE e.key \notin s.visited /\ t = Visited(g, s)
  <2> DEFINE m == Len(Found(g, s))
             tail == Tail(s.queue)
             found == Found(g, s)
  <2>1. QueuedAfter(s, t, tail, found)
    <3>1. tail = Tail(s.queue) /\ found = Found(g, s)
      OBVIOUS
    <3> HIDE DEF tail, found
    <3> QED BY <1>6, <3>1, VisitedQueue
  <2>2. Len(t.queue) = (n - 1) + m
    BY <1>2, <2>1 DEF QueuedAfter
  <2>3. t.visited = s.visited \cup {e.key}
    BY <1>6, VisitedFields DEF e
  <2>4. Cardinality(t.visited) = v + 1
    BY <1>1, <1>2, <1>6, <2>3, VisitedCount
  <2>5. m \in Nat /\ m <= Count
    <3>1. Distinct(g.adj[e.key]) /\ g.adj[e.key] \in Seq(FlightKeys)
      BY <1>1, <1>2, GraphFields, ShapeParts DEF Shaped
    <3>2. Distinct(Found(g, s)) /\ Found(g, s) \in Seq(FlightKeys)
      BY <3>1, AmongKeeps DEF Found, e
    <3> QED BY <3>2, NoMoreThanCount
  <2>6. Work(t) = ((n - 1) + m) + Count * (Count - (v + 1))
    BY <2>2, <2>4 DEF Work
  <2> HIDE DEF n, v, m
  <2>7. Count * (Count - (v + 1)) = Count * (Count - v) - Count /\ Count * (Count - v) \in Int
    BY <1>3
  <2> DEFINE w == Count * (Count - v)
  <2>8. w \in Int /\ Work(s) = n + w /\ Work(t) = ((n - 1) + m) + (w - Count)
    BY <1>4, <2>6, <2>7
  <2> HIDE DEF w
  <2> QED BY <1>2, <1>3, <2>5, <2>8
<1> QED BY <1>5, <1>6, BfsTurnCases DEF e

LEMMA WorkStart ==
    ASSUME NEW g \in Shaped, NEW key \in Nodes(g), NEW d \in Nat
    PROVE  Work(SearchStart(g, key, d)) = Turns
<1> DEFINE s == SearchStart(g, key, d)
<1>1. Len(s.queue) = 1 /\ s.visited = {}
  BY DEF SearchStart
<1> HIDE DEF s
<1>2. Cardinality(s.visited) = 0
  BY <1>1, FS_EmptySet
<1>3. Count \in Nat
  BY PoolAssumption, FS_CardinalityType DEF Count
<1>4. Work(s) = 1 + Count * (Count - 0)
  BY <1>1, <1>2 DEF Work
<1> QED BY <1>3, <1>4 DEF Turns, Count, s

LEMMA NoWorkLeft ==
    ASSUME NEW N, N \subseteq FlightKeys, NEW s \in Visits(N), Work(s) <= 0
    PROVE  s.queue = <<>>
<1> SUFFICES ASSUME s.queue # <<>> PROVE FALSE
  OBVIOUS
<1> DEFINE e == Head(s.queue)
           v == Cardinality(s.visited)
           n == Len(s.queue)
<1>1. s.queue \in Seq(Entry(N))
  BY VisitsFields
<1>2. n \in Nat /\ n >= 1 /\ e.key \in N
  <2>1. n \in Nat /\ n >= 1 /\ e \in Entry(N)
    BY <1>1, TailFacts
  <2> QED BY <2>1 DEF Entry
<1>3. v \in Nat /\ Count \in Nat /\ v <= Count
  BY <1>2, VisitedCount
<1>4. Work(s) = n + Count * (Count - v)
  BY DEF Work
<1> HIDE DEF n, v, e
<1>5. Count - v \in Nat
  BY <1>3
<1>6. Count * (Count - v) \in Nat
  BY <1>3, <1>5
<1> QED BY <1>2, <1>4, <1>6

\* What is queued is within reach, and what was raised is below M.
Contained(g, key, M, s) ==
    /\ \A q \in ToSet(s.queue) : /\ q.delay <= M
                                 /\ q.key \in Within(g, key, q.hops)
                                 /\ q.hops <= Cardinality(s.visited)
    /\ \A k \in Nodes(g) : s.delay[k] <= M
    /\ \A k \in Nodes(g) :
          \/ s.delay[k] = g.flight[k].delay
          \/ s.delay[k] <= Decay(M) /\ k \in Within(g, key, Count)

LEMMA ContainedVisit ==
    ASSUME NEW g \in Shaped, NEW N, N = Nodes(g), NEW key \in N, NEW M \in Nat,
           NEW s \in Visits(N), Contained(g, key, M, s),
           s.queue # <<>>, Head(s.queue).key \notin s.visited,
           NEW t, t = Visited(g, s)
    PROVE  Contained(g, key, M, t)
<1> DEFINE e == Head(s.queue)
           v == Cardinality(s.visited)
           tail == Tail(s.queue)
           found == Found(g, s)
<1>1. /\ s.queue \in Seq(Entry(N)) /\ N \subseteq FlightKeys /\ key \in FlightKeys
      /\ \A k \in FlightKeys : s.delay[k] \in Nat
  <2>1. Holds(N, s)
    BY LevelTypes
  <2> QED BY <2>1, VisitsFields DEF Holds
<1>2. e \in Entry(N) /\ e \in ToSet(s.queue) /\ ToSet(tail) \subseteq ToSet(s.queue)
  BY <1>1, TailFacts
<1>3. e.key \in N /\ e.delay \in Nat /\ e.hops \in Nat
  BY <1>2 DEF Entry
<1>4. QueuedAfter(s, t, tail, found)
  <2>1. tail = Tail(s.queue) /\ found = Found(g, s)
    OBVIOUS
  <2> HIDE DEF tail, found
  <2> QED BY <2>1, VisitedQueue
<1>5. /\ t.visited = s.visited \cup {e.key}
      /\ \A k \in FlightKeys : t.delay[k] = IF k \in ToSet(found) THEN Delayed(s, k) ELSE s.delay[k]
  BY VisitedFields
<1>6. /\ \A k \in FlightKeys : k \in ToSet(found) <=> /\ HasEdge(g, e.key, k)
                                                      /\ k \notin s.visited /\ k # e.key
      /\ found \in Seq(N)
  BY FoundFacts
<1>7. ToSet(found) \subseteq N
  BY <1>6 DEF ToSet
<1>8. e.key \notin s.visited
  OBVIOUS
<1>9. \A k \in N : /\ NewEntry(s, k).key = k /\ NewEntry(s, k).delay = Delayed(s, k)
                   /\ NewEntry(s, k).hops = e.hops + 1
                   /\ Delayed(s, k) = s.delay[k] \/ Delayed(s, k) = Decay(e.delay)
  <2> SUFFICES ASSUME NEW k \in N
               PROVE  /\ NewEntry(s, k).key = k /\ NewEntry(s, k).delay = Delayed(s, k)
                      /\ NewEntry(s, k).hops = e.hops + 1
                      /\ Delayed(s, k) = s.delay[k] \/ Delayed(s, k) = Decay(e.delay)
    OBVIOUS
  <2>1. N \subseteq FlightKeys
    BY <1>1
  <2>2. /\ NewEntry(s, k).key = k /\ NewEntry(s, k).delay = Delayed(s, k)
        /\ NewEntry(s, k).hops = Head(s.queue).hops + 1
    BY <2>1, NewEntryTypes
  <2>3. Delayed(s, k) = s.delay[k] \/ Delayed(s, k) = Decay(Head(s.queue).delay)
    BY <2>1, NewEntryTypes
  <2> QED BY <2>2, <2>3
<1> HIDE DEF e, tail, found
<1>10. v \in Nat /\ Count \in Nat /\ Cardinality(t.visited) = v + 1 /\ v + 1 <= Count
  <2>1. N \subseteq FlightKeys /\ e.key \in N /\ e.key \notin s.visited
    BY <1>1, <1>3, <1>8
  <2> DEFINE k == e.key
  <2>2. k \in N /\ k \notin s.visited
    BY <2>1
  <2> HIDE DEF k
  <2>3. /\ v \in Nat /\ Count \in Nat
        /\ Cardinality(s.visited \cup {k}) = v + 1 /\ v + 1 <= Count
    BY <2>1, <2>2, VisitedCount
  <2> QED BY <1>5, <2>3 DEF k
<1>11. e.delay <= M /\ e.key \in Within(g, key, e.hops) /\ e.hops <= v
  <2>1. \A q \in ToSet(s.queue) : /\ q.delay <= M
                                  /\ q.key \in Within(g, key, q.hops)
                                  /\ q.hops <= Cardinality(s.visited)
    BY DEF Contained
  <2> QED BY <1>2, <2>1
<1> HIDE DEF v
<1>12. Decay(e.delay) <= Decay(M) /\ Decay(M) <= M /\ Decay(e.delay) \in Nat /\ Decay(M) \in Nat
  BY <1>3, <1>11, DecayBounds, DecayIsMonotone
<1>13. e.hops + 1 \in Nat /\ e.hops + 1 <= Count /\ e.hops + 1 <= v + 1
  BY <1>3, <1>10, <1>11
<1>14. ASSUME NEW k \in ToSet(found)
       PROVE  k \in Within(g, key, e.hops + 1) /\ k \in Within(g, key, Count)
  <2>1. k \in FlightKeys /\ HasEdge(g, e.key, k)
    BY <1>1, <1>6, <1>7
  <2>2. /\ Within(g, key, e.hops + 1) = Spread(g, Within(g, key, e.hops))
        /\ Within(g, key, e.hops) \in KeySets
    BY <1>1, <1>3, WithinOnce
  <2>3. k \in Within(g, key, e.hops + 1)
    BY <1>11, <2>1, <2>2, SpreadTypes
  <2>4. Within(g, key, e.hops + 1) \subseteq Within(g, key, Count)
    BY <1>1, <1>10, <1>13, WithinGrows
  <2> QED BY <2>3, <2>4
<1>15. \A k \in N : s.delay[k] \in Nat /\ s.delay[k] <= M
  BY <1>1 DEF Contained
<1>16. \A k \in N : Delayed(s, k) <= M
  BY <1>9, <1>12, <1>15
<1>17. \A k \in N : t.delay[k] <= M
  BY <1>1, <1>5, <1>15, <1>16
<1>18. ASSUME NEW k \in N
       PROVE  \/ t.delay[k] = g.flight[k].delay
              \/ t.delay[k] <= Decay(M) /\ k \in Within(g, key, Count)
  <2>1. CASE k \in ToSet(found) /\ Delayed(s, k) = Decay(e.delay)
    BY <1>1, <1>5, <1>12, <1>14, <2>1
  <2>2. CASE t.delay[k] = s.delay[k]
    BY <2>2 DEF Contained
  <2>3. t.delay[k] = IF k \in ToSet(found) THEN Delayed(s, k) ELSE s.delay[k]
    BY <1>1, <1>5
  <2> QED BY <1>9, <2>1, <2>2, <2>3
<1>19. ASSUME NEW q \in ToSet(t.queue)
       PROVE  q.delay <= M /\ q.key \in Within(g, key, q.hops) /\ q.hops <= v + 1
  <2>1. CASE q \in ToSet(tail)
    <3>1. q.delay <= M /\ q.key \in Within(g, key, q.hops) /\ q.hops <= v
      BY <1>2, <2>1 DEF Contained, v
    <3>2. q.hops \in Nat
      <4>1. Holds(N, s) /\ q \in ToSet(s.queue)
        BY <1>2, <2>1, LevelTypes
      <4> QED BY <4>1 DEF Holds
    <3> QED BY <1>10, <3>1, <3>2
  <2>2. CASE \E k \in ToSet(found) : q = NewEntry(s, k)
    <3>1. PICK k \in ToSet(found) : q = NewEntry(s, k)
      BY <2>2
    <3>2. q.key = k /\ q.delay = Delayed(s, k) /\ q.hops = e.hops + 1 /\ k \in N
      BY <1>7, <1>9, <3>1
    <3> QED BY <1>13, <1>14, <1>16, <3>2
  <2> QED BY <1>4, <2>1, <2>2 DEF QueuedAfter
<1> QED BY <1>10, <1>17, <1>18, <1>19 DEF Contained

LEMMA ContainedTurn ==
    ASSUME NEW g \in Shaped, NEW N, N = Nodes(g), NEW key \in N, NEW M \in Nat,
           NEW s \in Visits(N), Contained(g, key, M, s),
           NEW t, t = BfsTurn(g, s)
    PROVE  Contained(g, key, M, t)
<1>1. CASE s.queue # <<>> /\ t = [s EXCEPT !.queue = Tail(@)]
  <2>1. t.queue = Tail(s.queue) /\ t.visited = s.visited /\ t.delay = s.delay
    BY <1>1 DEF Visits
  <2>2. s.queue \in Seq(Entry(N))
    BY VisitsFields
  <2>3. ToSet(t.queue) \subseteq ToSet(s.queue)
    BY <1>1, <2>1, <2>2, TailFacts
  <2> QED BY <2>1, <2>3 DEF Contained
<1>2. CASE s.queue # <<>> /\ Head(s.queue).key \notin s.visited /\ t = Visited(g, s)
  BY <1>2, ContainedVisit
<1> QED BY <1>1, <1>2, BfsTurnCases

LEMMA ContainedStart ==
    ASSUME NEW g \in Shaped, NEW N, N = Nodes(g), NEW key \in N, NEW d \in Nat, NEW M \in Nat,
           d <= M, \A k \in N : g.flight[k].delay <= M,
           NEW s, s = SearchStart(g, key, d)
    PROVE  Contained(g, key, M, s)
<1> DEFINE q == [key |-> key, delay |-> d, hops |-> 0]
<1>1. s.queue = <<q>> /\ s.visited = {} /\ \A k \in N : k \in FlightKeys /\ s.delay[k] = g.flight[k].delay
  BY NodesAreFlights DEF SearchStart
<1>2. q.key = key /\ q.delay = d /\ q.hops = 0
  OBVIOUS
<1> HIDE DEF q
<1>3. Len(s.queue) = 1 /\ s.queue[1] = q /\ DOMAIN s.queue = 1..1
  BY <1>1
<1>4. ToSet(s.queue) = {q}
  BY <1>3 DEF ToSet
<1>5. Within(g, key, 0) = {key} /\ Cardinality(s.visited) = 0
  BY <1>1, WithinOnce, FS_EmptySet
<1>6. \A x \in ToSet(s.queue) : /\ x.delay <= M
                                /\ x.key \in Within(g, key, x.hops)
                                /\ x.hops <= Cardinality(s.visited)
  BY <1>2, <1>4, <1>5
<1> QED BY <1>1, <1>6 DEF Contained

\* What a search has done when it ends.
Searched(g, key, d, M, s) ==
    /\ \A h \in Nat : \A k \in Within(g, key, h) : DecayedBy(d, h) <= s.delay[k]
    /\ \A k \in Nodes(g) :
          \/ s.delay[k] = g.flight[k].delay
          \/ s.delay[k] <= Decay(M) /\ k \in Within(g, key, Count)

\* Breadth first, the turns of the loop being enough for its queue.
LEMMA BfsSearches ==
    ASSUME NEW g \in Shaped, NEW N, N = Nodes(g), NEW key \in N, NEW d \in Nat, NEW M \in Nat,
           d <= g.flight[key].delay, \A k \in N : g.flight[k].delay <= M,
           NEW final, final = Bfs(g, key, d)
    PROVE  Searched(g, key, d, M, final)
<1> DEFINE start == SearchStart(g, key, d)
<1>1. PICK f \in [0..Turns -> Visits(N)] :
              /\ f[0] = start
              /\ \A i \in 1..Turns : f[i] = BfsTurn(g, f[i - 1])
              /\ final = f[Turns]
  BY BfsSteps
<1>2. Turns \in Nat /\ N \subseteq FlightKeys
  BY TurnsAreEnough, GraphFields DEF Shaped
<1>3. \A i \in 1..Turns : i - 1 \in 0..Turns /\ i \in 0..Turns
  BY <1>2
<1>4. 0 \in 0..Turns /\ Turns \in 0..Turns
  BY <1>2
<1>5. start = SearchStart(g, key, d)
  OBVIOUS
<1> HIDE DEF start
<1>6. d <= M
  <2>1. g.flight[key].delay \in Nat /\ g.flight[key].delay <= M
    BY NodesAreFlights, EventFields
  <2> QED BY <2>1
<1> DEFINE Leveled(s) == \E L : Level(g, key, d, s, L)
           Paid(s, i) == s.queue = <<>> \/ (Work(s) \in Int /\ Work(s) <= Turns - i)
           S == {i \in 0..Turns : Leveled(f[i]) /\ Contained(g, key, M, f[i]) /\ Paid(f[i], i)}
<1>7. 0 \in S
  <2>1. Leveled(start)
    BY <1>5, LevelStart
  <2>2. Contained(g, key, M, start)
    BY <1>5, <1>6, ContainedStart
  <2>3. Paid(start, 0)
    BY <1>2, <1>5, WorkStart
  <2> QED BY <1>1, <1>4, <2>1, <2>2, <2>3
<1>8. ASSUME NEW i \in 1..Turns, i - 1 \in S PROVE i \in S
  <2> DEFINE s == f[i - 1]
             t == f[i]
  <2>1. s \in Visits(N) /\ t = BfsTurn(g, s) /\ i \in 0..Turns
    BY <1>1, <1>3
  <2>2. Leveled(s) /\ Contained(g, key, M, s) /\ Paid(s, i - 1)
    BY <1>8
  <2> HIDE DEF s, t
  <2>3. Leveled(t)
    <3>1. PICK L : Level(g, key, d, s, L)
      BY <2>2
    <3> QED BY <2>1, <3>1, LevelTurn
  <2>4. Contained(g, key, M, t)
    BY <2>1, <2>2, ContainedTurn
  <2>5. Paid(t, i)
    <3>1. CASE s.queue = <<>>
      <4>1. t = s
        BY <2>1, <3>1, BfsTurnCases
      <4> QED BY <3>1, <4>1
    <3>2. CASE s.queue # <<>>
      <4>1. Work(s) \in Int /\ Work(t) \in Int /\ Work(t) <= Work(s) - 1
        BY <2>1, <3>2, WorkFalls
      <4>2. Work(s) <= Turns - (i - 1)
        BY <2>2, <3>2
      <4>3. i \in Int
        OBVIOUS
      <4>4. Work(t) <= Turns - i
        BY <1>2, <4>1, <4>2, <4>3
      <4> QED BY <4>1, <4>4
    <3> QED BY <3>1, <3>2
  <2> HIDE DEF Leveled, Paid
  <2> QED BY <2>1, <2>3, <2>4, <2>5 DEF t
<1>9. \A i \in 1..Turns : i - 1 \in S => i \in S
  BY <1>8
<1> HIDE DEF S
<1>10. 0..Turns \subseteq S
  BY <1>2, <1>7, <1>9, UpTo
<1>11. Leveled(final) /\ Contained(g, key, M, final) /\ Paid(final, Turns) /\ final \in Visits(N)
  BY <1>1, <1>4, <1>10 DEF S
<1>12. final.queue = <<>>
  <2>1. CASE Work(final) \in Int /\ Work(final) <= Turns - Turns
    <3>1. Turns - Turns = 0
      BY <1>2
    <3>2. Work(final) <= 0
      BY <2>1, <3>1
    <3> QED BY <1>2, <1>11, <3>2, NoWorkLeft
  <2> QED BY <1>11, <2>1
<1>13. PICK L : Level(g, key, d, final, L)
  BY <1>11
<1>14. ASSUME NEW h \in Nat, NEW k \in Within(g, key, h) PROVE DecayedBy(d, h) <= final.delay[k]
  BY <1>11, <1>12, <1>13, LevelEnd
<1> QED BY <1>11, <1>14 DEF Searched, Contained

----------------------------------------------------------------------------
(* The delays after a message.                                             *)

\* A finite set of numbers has a largest.
LEMMA Largest ==
    ASSUME NEW S \in SUBSET Nat, IsFiniteSet(S), S # {}
    PROVE  Max(S) \in S /\ \A y \in S : y <= Max(S)
<1>1. PICK f : f \in Bijection(1..Cardinality(S), S)
  BY FS_CardinalityType DEF ExistsBijection
<1> DEFINE n == Cardinality(S)
<1>2. n \in Nat /\ f \in [1..n -> S] /\ \A y \in S : \E i \in 1..n : f[i] = y
  BY <1>1, FS_CardinalityType DEF Bijection, Surjection
<1> HIDE DEF n
<1> DEFINE B == {i \in 0..n : \E m \in Nat : \A j \in 1..i : f[j] <= m}
<1>3. 0 \in B
  <2>1. \A j \in 1..0 : f[j] <= 0
    OBVIOUS
  <2> QED BY <1>2, <2>1
<1>4. ASSUME NEW i \in 1..n, i - 1 \in B PROVE i \in B
  <2>1. PICK m \in Nat : \A j \in 1..(i - 1) : f[j] <= m
    BY <1>4
  <2>5. i \in 0..n /\ \A j \in 1..i : j \in 1..n /\ (j = i \/ j \in 1..(i - 1))
    BY <1>2
  <2>6. \A j \in 1..n : f[j] \in Nat
    <3>1. \A y \in S : y \in Nat
      OBVIOUS
    <3> QED BY <1>2, <3>1
  <2>2. f[i] \in Nat /\ m + f[i] \in Nat /\ i \in 0..n
    BY <2>5, <2>6
  <2>3. \A j \in 1..i : f[j] \in Nat /\ (j = i \/ j \in 1..(i - 1))
    BY <2>5, <2>6
  <2>4. \A j \in 1..i : f[j] <= m + f[i]
    BY <2>1, <2>2, <2>3
  <2> QED BY <2>2, <2>4
<1> HIDE DEF B
<1>5. 0..n \subseteq B
  BY <1>2, <1>3, <1>4, UpTo
<1>6. n \in B
  BY <1>2, <1>5
<1>7. PICK m \in Nat : \A y \in S : y <= m
  BY <1>2, <1>6 DEF B
<1> DEFINE T == {x \in Nat : \A y \in S : y <= x}
<1>8. T \in SUBSET Nat /\ T # {}
  BY <1>7
<1>9. PICK x \in T : \A y \in T : x <= y
  <2> HIDE DEF T
  <2> QED BY <1>8, Least
<1>10. x \in S
  <2> SUFFICES ASSUME x \notin S PROVE FALSE
    OBVIOUS
  <2>1. \A y \in S : y \in Nat /\ y <= x /\ y # x
    BY <1>9
  <2>4. x \in Nat /\ \E y \in S : TRUE
    BY <1>9
  <2>5. x # 0
    BY <2>1, <2>4
  <2>2. x \in Nat /\ x - 1 \in Nat /\ \A y \in S : y <= x - 1
    BY <2>1, <2>4, <2>5
  <2>3. x <= x - 1
    BY <1>9, <2>2
  <2> QED BY <2>2, <2>3
<1>11. \E z \in S : \A y \in S : z >= y
  <2>1. \A y \in S : y <= x /\ y \in Nat /\ x \in Nat
    BY <1>9
  <2>2. \A y \in S : x >= y
    BY <2>1
  <2> QED BY <1>10, <2>2
<1>12. Max(S) \in S /\ \A y \in S : Max(S) >= y
  BY <1>11 DEF Max
<1>13. Max(S) \in Nat /\ \A y \in S : y \in Nat
  BY <1>12
<1> QED BY <1>12, <1>13

\* Adding an event and reassigning gates leave the others' delays alone.
LEMMA AppliedDelays ==
    ASSUME NEW g \in Sound, NEW e \in Event, NEW r, r = Applied(g, e)
    PROVE  /\ r.graph.flight[e.key].delay = e.delay
           /\ \A k \in Nodes(g) \ {e.key} : r.graph.flight[k].delay = g.flight[k].delay
<1> DEFINE a == AddFlight(g, e)
           p == AddEdges(a, e)
<1>1. g \in Shaped /\ g \in Graphs /\ e.key \in FlightKeys
  BY EventFields DEF Sound, Shaped
<1>2. a \in Graphs /\ a.flight = [g.flight EXCEPT ![e.key] = e]
  BY <1>1, AddFlightKeeps DEF Shaped
<1>3. p = ProcessEvent(g, e)
  BY DEF ProcessEvent
<1>4. p.flight = a.flight
  <2> HIDE DEF a
  <2> QED BY <1>2, AddEdgesFields
<1> HIDE DEF a, p
<1>5. p \in Sound /\ Nodes(p) = Nodes(g) \cup {e.key}
  BY <1>1, <1>3, ProcessEventIsSound, ProcessEventKeeps
<1>6. r = Resolve(p)
  BY <1>3 DEF Applied
<1>7. Keeps(p, r.graph)
  BY <1>5, <1>6, ResolveKeeps
<1>8. \A k \in Nodes(p) : r.graph.flight[k].delay = p.flight[k].delay
  <2> TAKE k \in Nodes(p)
  <2>1. p.flight[k] \in Event
    BY <1>5, NodesAreFlights DEF Sound
  <2>2. r.graph.flight[k] = [p.flight[k] EXCEPT !.gate = r.graph.flight[k].gate]
    BY <1>7 DEF Keeps
  <2> QED BY <2>1, <2>2 DEF Event
<1>9. p.flight[e.key] = e /\ \A k \in FlightKeys \ {e.key} : p.flight[k] = g.flight[k]
  BY <1>1, <1>2, <1>4, GraphFields
<1>10. Nodes(g) \subseteq FlightKeys
  BY <1>1, GraphFields
<1> QED BY <1>5, <1>8, <1>9, <1>10

\* What propagation does to the delays of a graph.
DelaysReach(h, key, d) ==
    \A i \in Nat : \A k \in Within(h, key, i) : h.flight[k].delay >= DecayedBy(d, i)

DelaysWithin(g, h, key, M) ==
    \A k \in Nodes(g) :
        /\ g.flight[k].delay <= h.flight[k].delay
        /\ \/ h.flight[k].delay = g.flight[k].delay
           \/ h.flight[k].delay <= Decay(M) /\ k \in Within(h, key, Count)

LEMMA PropagateDelays ==
    ASSUME NEW g \in Shaped, NEW N, N = Nodes(g), NEW key \in N, NEW d \in Nat, NEW M \in Nat,
           d <= g.flight[key].delay, \A k \in N : g.flight[k].delay <= M,
           NEW r, r = Propagate(g, key, d), NEW h, h = r.graph
    PROVE  DelaysReach(h, key, d) /\ DelaysWithin(g, h, key, M)
<1> DEFINE final == Bfs(g, key, d)
<1>1. final = Bfs(g, key, d)
  OBVIOUS
<1>2. /\ h \in Shaped /\ Delays(g, h)
      /\ \A k \in N : h.flight[k].delay = final.delay[k]
  BY PropagateKeeps
<1> HIDE DEF final
<1>3. Searched(g, key, d, M, final)
  BY <1>1, BfsSearches
<1>4. h.link = g.link /\ key \in FlightKeys
  BY <1>2, NodesAreFlights DEF Delays
<1>5. \A i \in Nat : Within(h, key, i) = Within(g, key, i)
  BY <1>4, WithinLinks
<1>6. \A i \in Nat : Within(g, key, i) \subseteq N
  BY WithinNodes
<1>7. ASSUME NEW i \in Nat, NEW k \in Within(h, key, i) PROVE h.flight[k].delay >= DecayedBy(d, i)
  <2>1. k \in Within(g, key, i) /\ k \in N
    BY <1>5, <1>6
  <2>2. DecayedBy(d, i) <= h.flight[k].delay
    BY <1>2, <1>3, <2>1 DEF Searched
  <2>3. DecayedBy(d, i) \in Nat /\ h.flight[k].delay \in Nat
    <3>1. Nodes(h) = N
      BY <1>2 DEF Delays
    <3>2. h.flight[k].delay \in Nat
      BY <1>2, <2>1, <3>1, NodesAreFlights, EventFields
    <3> QED BY <3>2, DecayedOnce
  <2> QED BY <2>2, <2>3
<1>8. Count \in Nat
  BY PoolAssumption, FS_CardinalityType DEF Count
<1>9. ASSUME NEW k \in N
      PROVE  /\ g.flight[k].delay <= h.flight[k].delay
             /\ \/ h.flight[k].delay = g.flight[k].delay
                \/ h.flight[k].delay <= Decay(M) /\ k \in Within(h, key, Count)
  <2>1. g.flight[k].delay <= h.flight[k].delay /\ h.flight[k].delay = final.delay[k]
    BY <1>2 DEF Delays
  <2>2. \/ final.delay[k] = g.flight[k].delay
        \/ final.delay[k] <= Decay(M) /\ k \in Within(g, key, Count)
    BY <1>3 DEF Searched
  <2> QED BY <1>5, <1>8, <2>1, <2>2
<1>10. DelaysReach(h, key, d)
  BY <1>7 DEF DelaysReach
<1> QED BY <1>9, <1>10 DEF DelaysWithin

\* One message: its event, and what it does to every delay.
LEMMA ReceivedDelays ==
    ASSUME NEW g \in Sound, NEW e \in Event, NEW M \in Nat, e.delay <= M,
           \A k \in Nodes(g) \ {e.key} : g.flight[k].delay <= M,
           NEW r, r = Applied(g, e), NEW d, d = Propagated(r.graph, e), NEW h, h = d.graph
    PROVE  /\ e.delay > 0 => DelaysReach(h, e.key, e.delay)
           /\ \A k \in Nodes(g) \ {e.key} :
                 /\ g.flight[k].delay <= h.flight[k].delay
                 /\ h.flight[k].delay # g.flight[k].delay =>
                      e.delay > 0 /\ h.flight[k].delay <= Decay(M) /\ k \in Within(h, e.key, Count)
<1> DEFINE p == r.graph
           N == Nodes(p)
<1>1. p \in Sound /\ N = Nodes(g) \cup {e.key}
  BY AppliedKeeps
<1>2. /\ p.flight[e.key].delay = e.delay
      /\ \A k \in Nodes(g) \ {e.key} : p.flight[k].delay = g.flight[k].delay
  BY AppliedDelays
<1>3. d = Propagated(p, e) /\ N = Nodes(p)
  OBVIOUS
<1>4. e.delay \in Nat /\ p \in Shaped
  BY <1>1, EventFields DEF Sound
<1>5. \A k \in Nodes(g) : g.flight[k].delay \in Nat
  BY NodesAreFlights, EventFields DEF Sound
<1> HIDE DEF p, N
<1>6. \A k \in N : p.flight[k].delay <= M
  BY <1>1, <1>2
<1>7. CASE e.delay > 0
  <2>1. d = Propagate(p, e.key, e.delay)
    BY <1>3, <1>7 DEF Propagated
  <2> DEFINE key == e.key
             delay == e.delay
  <2>2. /\ key \in N /\ delay \in Nat /\ delay <= p.flight[key].delay
        /\ d = Propagate(p, key, delay)
    BY <1>1, <1>2, <1>4, <2>1
  <2> HIDE DEF key, delay
  <2>3. DelaysReach(h, key, delay) /\ DelaysWithin(p, h, key, M)
    BY <1>3, <1>4, <1>6, <2>2, PropagateDelays
  <2>4. \A k \in N : /\ p.flight[k].delay <= h.flight[k].delay
                     /\ \/ h.flight[k].delay = p.flight[k].delay
                        \/ h.flight[k].delay <= Decay(M) /\ k \in Within(h, key, Count)
    BY <1>3, <2>3 DEF DelaysWithin
  <2> QED BY <1>1, <1>2, <1>7, <2>3, <2>4 DEF key, delay
<1>8. CASE ~(e.delay > 0)
  <2>1. h = p
    BY <1>3, <1>8 DEF Propagated
  <2>2. \A k \in Nodes(g) \ {e.key} : h.flight[k].delay = g.flight[k].delay
    BY <1>2, <2>1
  <2>3. \A k \in Nodes(g) \ {e.key} : g.flight[k].delay <= h.flight[k].delay
    BY <1>5, <2>2
  <2> QED BY <1>8, <2>2, <2>3
<1> QED BY <1>7, <1>8

LargestDelay(g, e) ==
    Max({e.delay} \cup {g.flight[k].delay : k \in Nodes(g) \ {e.key}})

LEMMA LargestDelayBounds ==
    ASSUME NEW g \in Sound, NEW e \in Event
    PROVE  /\ LargestDelay(g, e) \in Nat /\ e.delay <= LargestDelay(g, e)
           /\ \A k \in Nodes(g) \ {e.key} : g.flight[k].delay <= LargestDelay(g, e)
<1> DEFINE O == Nodes(g) \ {e.key}
           T == {g.flight[k].delay : k \in O}
           S == {e.delay} \cup T
<1>1. IsFiniteSet(O)
  <2>1. O \in SUBSET FlightKeys
    BY GraphFields DEF Sound, Shaped
  <2> QED BY <2>1, PoolAssumption, FS_Subset
<1>2. IsFiniteSet(T)
  <2> DEFINE f == [k \in O |-> g.flight[k].delay]
  <2>1. f \in [O -> T] /\ \A t \in T : \E k \in O : f[k] = t
    OBVIOUS
  <2> HIDE DEF O, T, f
  <2> QED BY <1>1, <2>1, ImageIsFinite
<1>3. S \in SUBSET Nat
  BY NodesAreFlights, EventFields DEF Sound
<1>4. IsFiniteSet(S) /\ S # {}
  <2> HIDE DEF T
  <2>1. IsFiniteSet({e.delay})
    BY FS_Singleton
  <2> QED BY <1>2, <2>1, FS_Union
<1>5. LargestDelay(g, e) = Max(S)
  BY DEF LargestDelay
<1>6. e.delay \in S /\ \A k \in O : g.flight[k].delay \in S
  OBVIOUS
<1> HIDE DEF S
<1>7. Max(S) \in S /\ \A y \in S : y <= Max(S)
  BY <1>3, <1>4, Largest
<1> HIDE DEF T
<1> QED BY <1>3, <1>5, <1>6, <1>7

\* The step that takes a message and leads to its predictions.
LEMMA ReceiveDelays ==
    ASSUME IInv, NEW p \in Partitions, Receive(p)
    PROVE  /\ EventOf(cur') \in Event
           /\ EventOf(cur').delay > 0 =>
                DelaysReach(graph', EventOf(cur').key, EventOf(cur').delay)
           /\ \A k \in Nodes(graph) \ {EventOf(cur').key} :
                 /\ graph.flight[k].delay <= graph'.flight[k].delay
                 /\ graph'.flight[k].delay # graph.flight[k].delay =>
                      /\ EventOf(cur').delay > 0
                      /\ graph'.flight[k].delay <= Decay(LargestDelay(graph, EventOf(cur')))
                      /\ k \in Within(graph', EventOf(cur').key, Count)
<1> DEFINE m == <<p, pos[p] + 1>>
           e == EventOf(m)
           r == Applied(graph, e)
           d == Propagated(r.graph, e)
           M == LargestDelay(graph, e)
           h == d.graph
<1>1. Take(p) /\ cur' = m /\ m \in Messages /\ Parses(m)
  BY TakeFacts DEF Receive
<1>2. e \in Event /\ graph \in Sound /\ EventOf(cur') = e
  BY <1>1, MessageFacts DEF IInv, TypeInv
<1>3. graph' = h
  BY <1>1 DEF Receive
<1>4. r = Applied(graph, e) /\ d = Propagated(r.graph, e) /\ h = d.graph /\ M = LargestDelay(graph, e)
  OBVIOUS
<1> HIDE DEF m, e, r, d, M, h
<1>5. /\ M \in Nat /\ e.delay <= M
      /\ \A k \in Nodes(graph) \ {e.key} : graph.flight[k].delay <= M
  BY <1>2, <1>4, LargestDelayBounds
<1>6. /\ e.delay > 0 => DelaysReach(h, e.key, e.delay)
      /\ \A k \in Nodes(graph) \ {e.key} :
            /\ graph.flight[k].delay <= h.flight[k].delay
            /\ h.flight[k].delay # graph.flight[k].delay =>
                 e.delay > 0 /\ h.flight[k].delay <= Decay(M) /\ k \in Within(h, e.key, Count)
  BY <1>2, <1>4, <1>5, ReceivedDelays
<1> QED BY <1>2, <1>3, <1>4, <1>6

\* While the predictions of a delayed event are published, the graph is as
\* its propagation left it, whatever the number of hops.
ReachInv ==
    pc = "publish" /\ EventOf(cur).delay > 0 =>
        DelaysReach(graph, EventOf(cur).key, EventOf(cur).delay)

\* Only Receive leads to "publish"; until the last prediction is out, nothing
\* touches the graph.
LEMMA ToPublish ==
    ASSUME IInv, [Next]_vars, pc' = "publish"
    PROVE  \/ pc = "idle" /\ \E p \in Partitions : Receive(p)
           \/ pc = "publish" /\ UNCHANGED <<cur, graph>>
BY DEF Next, Step, Quiescent, Receive, Take, Publish, PublishFails, DeadLetter, DeadLetterFails,
       Commit, Crash, Restart, RestartFails, Rebalance, ProcessRestart,
       ReceiveGarbage, ReceiveUnpredicted, vars

LEMMA ReachStep ==
    ASSUME IInv, ReachInv, [Next]_vars
    PROVE  ReachInv'
<1> SUFFICES ASSUME pc' = "publish", EventOf(cur').delay > 0
             PROVE  DelaysReach(graph', EventOf(cur').key, EventOf(cur').delay)
  BY DEF ReachInv, EventOf, DelaysReach, Within, DecayedBy, HasEdge
<1>1. CASE \E p \in Partitions : Receive(p)
  BY <1>1, ReceiveDelays
<1>2. CASE pc = "publish" /\ UNCHANGED <<cur, graph>>
  BY <1>2 DEF ReachInv
<1> QED BY <1>1, <1>2, ToPublish

\* propagate_delay is complete: whatever the order of the edges, every flight
\* within reach of a delayed one has at least the delay decayed once per hop,
\* although the loop visits a flight once and is the only one to raise it.
THEOREM DelaysAreComplete == Spec => []DelayReachesEveryFlight
<1>1. Init => ReachInv
  BY DEF Init, ReachInv
<1>2. IInv /\ ReachInv /\ [Next]_vars => ReachInv'
  BY ReachStep
<1>3. ReachInv => DelayReachesEveryFlight
  <2> SUFFICES ASSUME ReachInv, pc = "publish", EventOf(cur).delay > 0,
                      NEW h \in 1..Cardinality(FlightKeys),
                      NEW k \in Within(graph, EventOf(cur).key, h)
               PROVE  graph.flight[k].delay >= DecayedBy(EventOf(cur).delay, h)
    BY DEF DelayReachesEveryFlight
  <2>1. Cardinality(FlightKeys) \in Nat
    BY PoolAssumption, FS_CardinalityType
  <2>2. h \in Nat
    BY <2>1
  <2> QED BY <2>2 DEF ReachInv, DelaysReach
<1> QED BY <1>1, <1>2, <1>3, IInvHolds, PTL DEF Spec

\* propagate_delay is contained: applying an event lowers no other flight's
\* delay, and raises one only if the event is delayed and leads to it, and by
\* then to no more than the largest delay decayed once.
THEOREM PropagationStaysContained == Spec => PropagationIsContained
<1>1. ASSUME IInv, [Next]_vars, pc = "idle", pc' = "publish",
             NEW e, e = EventOf(cur'), NEW after, after = graph',
             NEW k \in Nodes(graph) \ {e.key}
      PROVE  /\ graph.flight[k].delay <= after.flight[k].delay
             /\ after.flight[k].delay # graph.flight[k].delay =>
                  /\ e.delay > 0
                  /\ after.flight[k].delay <= Decay(LargestDelay(graph, e))
                  /\ k \in Within(after, e.key, Cardinality(FlightKeys))
  <2>1. PICK p \in Partitions : Receive(p)
    BY <1>1, ToPublish
  <2> QED BY <1>1, <2>1, ReceiveDelays DEF Count
<1>2. IInv /\ [Next]_vars =>
        [pc = "idle" /\ pc' = "publish" =>
         \A e \in {EventOf(cur')}, after \in {graph'} :
             LET others == Nodes(graph) \ {e.key}
                 reached == Within(after, e.key, Cardinality(FlightKeys))
                 largest == Max({e.delay} \cup {graph.flight[k].delay : k \in others})
             IN  \A k \in others :
                   LET was == graph.flight[k].delay
                       is == after.flight[k].delay
                   IN  /\ was <= is
                       /\ is # was => e.delay > 0 /\ is <= Decay(largest) /\ k \in reached]_vars
  BY <1>1 DEF LargestDelay
<1> QED BY <1>2, IInvHolds, PTL DEF Spec, PropagationIsContained
=============================================================================
