--------------------------- MODULE Ingestion_proofs ---------------------------
(***************************************************************************)
(* Proofs about Ingestion, for every set of flights, every listing and     *)
(* every bound.  KeysIdentifyContents is not inductive: what the next poll *)
(* stamps has to be compared with what the source holds by then, and with  *)
(* what this poll has yet to send.  StampInv says how.                     *)
(***************************************************************************)
EXTENDS Ingestion, TLAPS

USE IngestionAssumption

\* What this poll has to send.
Unsent == {todo[i] : i \in DOMAIN todo}
Out == topic \cup Unsent

\* Whatever was taken from the source and could still be told apart by key.
OutIdentified ==
    \A x, y \in Out : x.flight = y.flight =>
        /\ x.stamp = y.stamp => x.rev = y.rev
        /\ ~live /\ x.rev = y.rev => x.stamp = y.stamp

\* The live client: nothing is stamped ahead of the poll; and when a poll is
\* about to start, what has its stamp already is of the last poll told apart,
\* in which AeroAPI does not change any more.
LiveInv ==
    live => \A x \in Out :
        /\ x.stamp <= clock
        /\ x.stamp = clock /\ (pc = "fetch" \/ clock = MaxClock) =>
              clock = MaxClock /\ x.rev = source[x.flight].rev

\* The mock: the source is the newest of everything taken from it, in both of
\* its counts, and has not been stamped yet with the poll about to start.
MockInv ==
    ~live =>
        /\ \A x \in Out :
              /\ x.rev <= source[x.flight].rev /\ x.stamp <= source[x.flight].stamp
              /\ x.rev = source[x.flight].rev <=> x.stamp = source[x.flight].stamp
        /\ \A f \in Flights :
              pc = "fetch" /\ clock < MaxClock => source[f].stamp < clock /\ source[f].rev < clock

StampInv == OutIdentified /\ LiveInv /\ MockInv

IInv == TypeOK /\ StampInv

----------------------------------------------------------------------------
(* What a step does to Out.                                                *)

LEMMA EventTypes ==
    ASSUME NEW f \in Flights, NEW r \in 0..MaxClock, NEW t \in 0..MaxClock
    PROVE  [flight |-> f, rev |-> r, stamp |-> t] \in Events
BY DEF Events

LEMMA SourceTypes ==
    ASSUME TypeOK
    PROVE  /\ clock \in Nat /\ clock >= 1 /\ clock <= MaxClock /\ MaxClock \in Nat
           /\ clock \in 0..MaxClock
           /\ \A f \in Flights : /\ source[f].rev \in Nat /\ source[f].rev <= clock
                                 /\ source[f].stamp \in Nat /\ source[f].stamp <= clock
                                 /\ source[f].complete \in BOOLEAN
           /\ \A f \in Flights : source[f].rev \in 0..MaxClock /\ source[f].stamp \in 0..MaxClock
<1>1. MaxClock \in Nat /\ clock \in 1..MaxClock
  BY DEF TypeOK
<1>2. clock \in Nat /\ clock >= 1 /\ clock <= MaxClock /\ clock \in 0..MaxClock
  BY <1>1
<1>3. ASSUME NEW f \in Flights
      PROVE  source[f].rev \in 0..clock /\ source[f].stamp \in 0..clock /\ source[f].complete \in BOOLEAN
  BY DEF TypeOK
<1>4. ASSUME NEW x \in 0..clock PROVE x \in Nat /\ x <= clock /\ x \in 0..MaxClock
  BY <1>1, <1>2
<1> QED BY <1>1, <1>2, <1>3, <1>4

\* What the live client returns: events of this poll, with what it found.
LEMMA SnapshotTypes ==
    ASSUME TypeOK, NEW s \in LiveSnapshots
    PROVE  /\ s \in Seq(Events) /\ Len(s) <= Len(Listing)
           /\ \A i \in DOMAIN s : /\ s[i].stamp = clock
                                  /\ s[i].rev = source[s[i].flight].rev
<1>1. PICK n \in 0..Len(Listing) : \E at \in [1..n -> DOMAIN Listing] :
          s = [i \in DOMAIN at |-> Event(Listing[at[i]], source[Listing[at[i]]].rev, clock)]
  BY DEF LiveSnapshots, Complete
<1>2. PICK at \in [1..n -> DOMAIN Listing] :
          s = [i \in DOMAIN at |-> Event(Listing[at[i]], source[Listing[at[i]]].rev, clock)]
  BY <1>1
<1>3. n \in Nat /\ n <= Len(Listing)
  OBVIOUS
<1>4. \A i \in 1..n : Listing[at[i]] \in Flights
  BY <1>2
<1>5. \A i \in 1..n : source[Listing[at[i]]].rev \in 0..MaxClock
  BY <1>4, SourceTypes
<1>6. clock \in 0..MaxClock
  BY SourceTypes
<1>7. \A i \in 1..n : s[i] = [flight |-> Listing[at[i]], rev |-> source[Listing[at[i]]].rev, stamp |-> clock]
  BY <1>2 DEF Event
<1>8. DOMAIN s = 1..n
  BY <1>2
<1>9. s \in [1..n -> Events]
  <2>1. \A i \in 1..n : s[i] \in Events
    <3> TAKE i \in 1..n
    <3>1. Listing[at[i]] \in Flights /\ source[Listing[at[i]]].rev \in 0..MaxClock
      BY <1>4, <1>5
    <3>2. [flight |-> Listing[at[i]], rev |-> source[Listing[at[i]]].rev, stamp |-> clock] \in Events
      BY <3>1, <1>6, EventTypes
    <3> QED BY <3>2, <1>7
  <2>2. s = [i \in 1..n |-> s[i]]
    BY <1>2
  <2> QED BY <2>1, <2>2
<1>10. s \in Seq(Events) /\ Len(s) = n
  BY <1>3, <1>9
<1>11. \A i \in DOMAIN s : s[i].stamp = clock /\ s[i].rev = source[s[i].flight].rev
  BY <1>7, <1>8
<1> QED BY <1>3, <1>10, <1>11

\* What the mock returns: events of what it has drifted to.
LEMMA MockTypes ==
    ASSUME source' \in [Flights -> [rev : 0..MaxClock, stamp : 0..MaxClock, complete : BOOLEAN]],
           todo' = [i \in DOMAIN Listing |->
                      Event(Listing[i], source'[Listing[i]].rev, source'[Listing[i]].stamp)]
    PROVE  /\ todo' \in Seq(Events) /\ Len(todo') = Len(Listing)
           /\ \A i \in DOMAIN todo' : /\ todo'[i].stamp = source'[todo'[i].flight].stamp
                                      /\ todo'[i].rev = source'[todo'[i].flight].rev
<1> DEFINE n == Len(Listing)
<1>1. n \in Nat /\ DOMAIN Listing = 1..n /\ \A i \in 1..n : Listing[i] \in Flights
  OBVIOUS
<1> HIDE DEF n
<1>2. \A i \in 1..n : todo'[i] = Event(Listing[i], source'[Listing[i]].rev, source'[Listing[i]].stamp)
  BY <1>1
<1>3. DOMAIN todo' = 1..n
  BY <1>1
<1>4. \A i \in 1..n : todo'[i] \in Events
  <2> TAKE i \in 1..n
  <2>1. Listing[i] \in Flights
    BY <1>1
  <2>2. source'[Listing[i]].rev \in 0..MaxClock /\ source'[Listing[i]].stamp \in 0..MaxClock
    BY <2>1
  <2>3. Event(Listing[i], source'[Listing[i]].rev, source'[Listing[i]].stamp) \in Events
    BY <2>1, <2>2, EventTypes DEF Event
  <2> QED BY <1>2, <2>3
<1>5. todo' \in [1..n -> Events]
  BY <1>1, <1>4
<1>6. todo' \in Seq(Events) /\ Len(todo') = n
  BY <1>1, <1>5
<1>7. \A i \in DOMAIN todo' : /\ todo'[i].stamp = source'[todo'[i].flight].stamp
                             /\ todo'[i].rev = source'[todo'[i].flight].rev
  <2> TAKE i \in DOMAIN todo'
  <2>1. todo'[i] = Event(Listing[i], source'[Listing[i]].rev, source'[Listing[i]].stamp)
    BY <1>2, <1>3
  <2> QED BY <2>1 DEF Event
<1> QED BY <1>6, <1>7 DEF n

LEMMA UnsentTypes == ASSUME TypeOK PROVE Unsent \subseteq Events /\ Out \subseteq Events
BY DEF TypeOK, Unsent, Out

\* Sending moves an event on, and keeps none that was not there.
LEMMA DeliverShrinks ==
    ASSUME TypeOK, todo # <<>>, Deliver(Head(todo)) \/ UNCHANGED <<topic, last>>,
           todo' \in {todo, Tail(todo), <<>>}
    PROVE  /\ Out' \subseteq Out
           /\ topic' \subseteq Events
           /\ last' \in [Flights -> topic' \cup {None}]
           /\ todo' \in Seq(Events) /\ Len(todo') <= Len(Listing)
<1>1. todo \in Seq(Events) /\ Len(todo) <= Len(Listing)
  BY DEF TypeOK
<1>2. Head(todo) \in Unsent /\ Head(todo) \in Events
  BY <1>1 DEF Unsent
<1>3. Tail(todo) \in Seq(Events) /\ Len(Tail(todo)) = Len(todo) - 1
      /\ \A i \in DOMAIN Tail(todo) : Tail(todo)[i] \in Unsent
  BY <1>1 DEF Unsent
<1>4. topic' \subseteq topic \cup {Head(todo)} /\ topic \subseteq topic'
  BY DEF Deliver
<1>5. Unsent' \subseteq Unsent
  BY <1>3 DEF Unsent
<1>6. Out' \subseteq Out
  BY <1>2, <1>4, <1>5 DEF Out
<1>7. topic' \subseteq Events
  BY <1>2, <1>4 DEF TypeOK
<1>8. last' \in [Flights -> topic' \cup {None}]
  <2>1. last \in [Flights -> topic' \cup {None}]
    BY <1>4 DEF TypeOK
  <2>2. CASE Deliver(Head(todo))
    BY <2>1, <2>2 DEF Deliver
  <2> QED BY <2>1, <2>2
<1>9. todo' \in Seq(Events) /\ Len(todo') <= Len(Listing)
  <2>1. Len(todo) \in Nat /\ Len(Listing) \in Nat
    BY <1>1
  <2>2. CASE todo' = Tail(todo)
    BY <1>1, <1>3, <2>1, <2>2
  <2>3. CASE todo' = <<>>
    BY <2>1, <2>3
  <2> QED BY <1>1, <2>2, <2>3
<1> QED BY <1>6, <1>7, <1>8, <1>9

----------------------------------------------------------------------------
(* Every step keeps IInv.                                                  *)

\* Clock and source stand still, and nothing new is in Out.
LEMMA QuietStep ==
    ASSUME StampInv, UNCHANGED <<live, clock, source>>, Out' \subseteq Out,
           pc' = "fetch" => pc = "fetch"
    PROVE  StampInv'
<1>1. OutIdentified'
  BY DEF StampInv, OutIdentified
<1>2. LiveInv'
  BY DEF StampInv, LiveInv
<1>3. MockInv'
  BY DEF StampInv, MockInv
<1> QED BY <1>1, <1>2, <1>3 DEF StampInv

LEMMA FetchLiveStep == ASSUME IInv, FetchLive PROVE IInv'
<1>1. /\ TypeOK /\ pc = "fetch" /\ live /\ todo' \in LiveSnapshots /\ pc' = "publish"
      /\ UNCHANGED <<live, clock, source, topic, last, faults>>
  BY DEF IInv, FetchLive
<1>2. /\ todo' \in Seq(Events) /\ Len(todo') <= Len(Listing)
      /\ \A i \in DOMAIN todo' : /\ todo'[i].stamp = clock
                                 /\ todo'[i].rev = source[todo'[i].flight].rev
  BY <1>1, SnapshotTypes
<1>3. TypeOK'
  BY <1>1, <1>2 DEF TypeOK
<1>4. \A x \in Unsent' : x.stamp = clock /\ x.rev = source[x.flight].rev
  BY <1>2 DEF Unsent
<1>5. \A x \in Out' : x \in Out \/ x \in Unsent'
  BY <1>1 DEF Out
<1>6. \A x \in Out : x.stamp <= clock /\ (x.stamp = clock => x.rev = source[x.flight].rev)
  BY <1>1 DEF IInv, StampInv, LiveInv
<1>7. \A x \in Out' : x.stamp = clock => x.rev = source[x.flight].rev
  BY <1>4, <1>5, <1>6
<1>8. OutIdentified'
  <2>1. SUFFICES ASSUME NEW x \in Out', NEW y \in Out', x.flight = y.flight, x.stamp = y.stamp
                 PROVE  x.rev = y.rev
    BY <1>1 DEF OutIdentified
  <2>2. CASE x.stamp = clock
    BY <1>7, <2>1, <2>2
  <2>3. CASE x.stamp # clock
    BY <1>4, <1>5, <2>1, <2>3 DEF IInv, StampInv, OutIdentified
  <2> QED BY <2>2, <2>3
<1>9. LiveInv'
  <2>1. SUFFICES ASSUME NEW x \in Out'
                 PROVE  /\ x.stamp <= clock
                        /\ x.stamp = clock /\ clock = MaxClock => x.rev = source[x.flight].rev
    BY <1>1 DEF LiveInv
  <2>2. clock <= clock
    BY <1>1, SourceTypes
  <2> QED BY <1>4, <1>5, <1>6, <1>7, <2>2
<1>10. MockInv'
  BY <1>1 DEF MockInv
<1> QED BY <1>3, <1>8, <1>9, <1>10 DEF IInv, StampInv

LEMMA FetchMockStep == ASSUME IInv, FetchMock PROVE IInv'
<1>1. PICK drifting \in SUBSET Flights :
        /\ clock = MaxClock => drifting = {}
        /\ source' = [f \in Flights |-> IF f \in drifting THEN Drift(f) ELSE source[f]]
  BY DEF FetchMock
<1>2. /\ TypeOK /\ pc = "fetch" /\ ~live /\ pc' = "publish"
      /\ todo' = [i \in DOMAIN Listing |->
                    Event(Listing[i], source'[Listing[i]].rev, source'[Listing[i]].stamp)]
      /\ UNCHANGED <<live, clock, topic, last, faults>>
  BY DEF IInv, FetchMock
<1>3. /\ clock \in Nat /\ clock >= 1 /\ clock <= MaxClock /\ MaxClock \in Nat
      /\ \A f \in Flights : /\ source[f].rev \in Nat /\ source[f].rev <= clock
                            /\ source[f].stamp \in Nat /\ source[f].stamp <= clock
                            /\ source[f].complete \in BOOLEAN
  BY <1>2, SourceTypes
\* A flight drifts while the poll's time is ahead of both its counts.
<1>4. \A f \in drifting : /\ source'[f].rev = source[f].rev + 1 /\ source[f].rev < clock
                          /\ source'[f].stamp = clock /\ source[f].stamp < clock
                          /\ source'[f].complete = source[f].complete
  <2> TAKE f \in drifting
  <2>1. f \in Flights /\ clock < MaxClock
    BY <1>1, <1>3
  <2>2. source[f].rev < clock /\ source[f].stamp < clock
    BY <1>2, <2>1 DEF IInv, StampInv, MockInv
  <2>3. source[f] \in [rev : 0..clock, stamp : 0..clock, complete : BOOLEAN]
    BY <1>2, <2>1 DEF TypeOK
  <2>4. source'[f] = [source[f] EXCEPT !.rev = @ + 1, !.stamp = clock]
    BY <1>1, <2>1 DEF Drift
  <2> QED BY <2>2, <2>3, <2>4
<1>5. \A f \in Flights \ drifting : source'[f] = source[f]
  BY <1>1
<1>6. \A f \in Flights : /\ source'[f].rev \in Nat /\ source'[f].rev <= clock
                         /\ source'[f].stamp \in Nat /\ source'[f].stamp <= clock
                         /\ source'[f].complete \in BOOLEAN
                         /\ source[f].rev <= source'[f].rev /\ source[f].stamp <= source'[f].stamp
                         /\ source[f].rev = source'[f].rev <=> source[f].stamp = source'[f].stamp
  <2> TAKE f \in Flights
  <2>1. CASE f \in drifting
    BY <1>3, <1>4, <2>1
  <2>2. CASE f \notin drifting
    BY <1>3, <1>5, <2>2
  <2> QED BY <2>1, <2>2
<1>7. source' \in [Flights -> [rev : 0..clock, stamp : 0..clock, complete : BOOLEAN]]
  <2>1. \A f \in Flights : source'[f] \in [rev : 0..clock, stamp : 0..clock, complete : BOOLEAN]
    <3> TAKE f \in Flights
    <3>1. source[f] \in [rev : 0..clock, stamp : 0..clock, complete : BOOLEAN]
      BY <1>2 DEF TypeOK
    <3>2. CASE f \in drifting
      <4>1. source[f].rev + 1 \in 0..clock /\ clock \in 0..clock
        BY <1>3, <1>4, <3>2
      <4> QED BY <1>1, <3>1, <3>2, <4>1 DEF Drift
    <3>3. CASE f \notin drifting
      BY <1>5, <3>1, <3>3
    <3> QED BY <3>2, <3>3
  <2> QED BY <1>1, <2>1
<1>8. source' \in [Flights -> [rev : 0..MaxClock, stamp : 0..MaxClock, complete : BOOLEAN]]
  <2>1. \A x \in 0..clock : x \in 0..MaxClock
    BY <1>3
  <2> QED BY <1>7, <2>1
<1>9. /\ todo' \in Seq(Events) /\ Len(todo') = Len(Listing)
      /\ \A i \in DOMAIN todo' : /\ todo'[i].stamp = source'[todo'[i].flight].stamp
                                 /\ todo'[i].rev = source'[todo'[i].flight].rev
  BY <1>2, <1>8, MockTypes
<1>10. TypeOK'
  <2>1. Len(todo') <= Len(Listing)
    BY <1>9
  <2> QED BY <1>2, <1>7, <1>9, <2>1 DEF TypeOK
<1>11. \A x \in Unsent' : x.stamp = source'[x.flight].stamp /\ x.rev = source'[x.flight].rev
  BY <1>9 DEF Unsent
<1>12. Out \subseteq Events /\ Out' \subseteq Events /\ \A x \in Out' : x \in Out \/ x \in Unsent'
  BY <1>2, <1>10, UnsentTypes DEF Out, TypeOK, Unsent
\* What had the counts of a flight that drifts has them no more.
<1>13. \A x \in Out' :
          /\ x.rev <= source'[x.flight].rev /\ x.stamp <= source'[x.flight].stamp
          /\ x.rev = source'[x.flight].rev <=> x.stamp = source'[x.flight].stamp
  <2> TAKE x \in Out'
  <2>1. x.flight \in Flights /\ x.rev \in Nat /\ x.stamp \in Nat
    BY <1>12 DEF Events
  <2>2. CASE x \in Unsent'
    BY <1>6, <1>11, <2>1, <2>2
  <2>3. CASE x \in Out
    <3>1. /\ x.rev <= source[x.flight].rev /\ x.stamp <= source[x.flight].stamp
          /\ x.rev = source[x.flight].rev <=> x.stamp = source[x.flight].stamp
      BY <1>2, <2>3 DEF IInv, StampInv, MockInv
    <3> DEFINE old == source[x.flight]
               new == source'[x.flight]
    <3>2. /\ old.rev \in Nat /\ old.stamp \in Nat /\ new.rev \in Nat /\ new.stamp \in Nat
          /\ old.rev <= new.rev /\ old.stamp <= new.stamp
          /\ old.rev = new.rev <=> old.stamp = new.stamp
      BY <1>3, <1>6, <2>1
    <3>3. x.rev <= old.rev /\ x.stamp <= old.stamp /\ (x.rev = old.rev <=> x.stamp = old.stamp)
      BY <3>1
    <3> HIDE DEF old, new
    <3>4. x.rev <= new.rev /\ x.stamp <= new.stamp /\ (x.rev = new.rev <=> x.stamp = new.stamp)
      BY <2>1, <3>2, <3>3
    <3> QED BY <3>4 DEF new
  <2> QED BY <1>12, <2>2, <2>3
<1>14. OutIdentified'
  <2>1. SUFFICES ASSUME NEW x \in Out', NEW y \in Out', x.flight = y.flight
                 PROVE  x.stamp = y.stamp <=> x.rev = y.rev
    BY DEF OutIdentified
  <2>2. CASE x \in Unsent' \/ y \in Unsent'
    BY <1>11, <1>13, <2>1, <2>2
  <2>3. CASE x \in Out /\ y \in Out
    BY <1>2, <2>1, <2>3 DEF IInv, StampInv, OutIdentified
  <2> QED BY <1>12, <2>2, <2>3
<1>15. LiveInv'
  BY <1>2 DEF LiveInv
<1>16. MockInv'
  BY <1>2, <1>13 DEF MockInv
<1> QED BY <1>10, <1>14, <1>15, <1>16 DEF IInv, StampInv

LEMMA ReviseStep == ASSUME IInv, NEW f \in Flights, Revise(f) PROVE IInv'
<1>1. PICK complete \in BOOLEAN :
         source' = [source EXCEPT ![f].rev = @ + 1, ![f].complete = complete]
  BY DEF Revise
<1>2. /\ TypeOK /\ live /\ clock < MaxClock /\ source[f].rev < clock
      /\ UNCHANGED <<live, clock, pc, todo, topic, last, faults>>
  BY DEF IInv, Revise
<1>3. /\ clock \in Nat /\ source[f].rev \in Nat
  BY <1>2, SourceTypes
<1>4. source[f].rev + 1 \in 0..clock
  BY <1>2, <1>3
<1>5. source' \in [Flights -> [rev : 0..clock, stamp : 0..clock, complete : BOOLEAN]]
  <2>1. source[f] \in [rev : 0..clock, stamp : 0..clock, complete : BOOLEAN]
    BY <1>2 DEF TypeOK
  <2>2. [source[f] EXCEPT !.rev = @ + 1, !.complete = complete]
           \in [rev : 0..clock, stamp : 0..clock, complete : BOOLEAN]
    BY <1>4, <2>1
  <2>3. source' = [source EXCEPT ![f] = [source[f] EXCEPT !.rev = @ + 1, !.complete = complete]]
    BY <1>1, <1>2 DEF TypeOK
  <2> QED BY <1>2, <2>2, <2>3 DEF TypeOK
<1>6. TypeOK'
  BY <1>2, <1>5 DEF TypeOK
<1>7. Out' = Out
  BY <1>2 DEF Out, Unsent
<1>8. OutIdentified'
  BY <1>2, <1>7 DEF IInv, StampInv, OutIdentified
\* Nothing is compared with AeroAPI as long as it may change.
<1>9. LiveInv'
  <2>1. clock # MaxClock
    BY <1>2, <1>3, SourceTypes
  <2>2. \A x \in Out : x.stamp <= clock /\ (x.stamp = clock /\ pc = "fetch" => clock = MaxClock)
    BY <1>2 DEF IInv, StampInv, LiveInv
  <2> QED BY <1>2, <1>7, <2>1, <2>2 DEF LiveInv
<1>10. MockInv'
  BY <1>2 DEF MockInv
<1> QED BY <1>6, <1>8, <1>9, <1>10 DEF IInv, StampInv

LEMMA WakeStep == ASSUME IInv, Wake PROVE IInv'
<1>1. /\ TypeOK /\ pc = "sleep" /\ pc' = "fetch"
      /\ clock' = IF clock < MaxClock THEN clock + 1 ELSE clock
      /\ UNCHANGED <<live, source, todo, topic, last, faults>>
  BY DEF IInv, Wake
<1>2. /\ clock \in Nat /\ clock >= 1 /\ clock <= MaxClock /\ MaxClock \in Nat
      /\ \A f \in Flights : /\ source[f].rev \in Nat /\ source[f].rev <= clock
                            /\ source[f].stamp \in Nat /\ source[f].stamp <= clock
  BY <1>1, SourceTypes
<1>3. clock' \in 1..MaxClock /\ clock <= clock' /\ clock' \in Nat
  BY <1>1, <1>2
<1>4. source' \in [Flights -> [rev : 0..clock', stamp : 0..clock', complete : BOOLEAN]]
  <2>1. \A x \in 0..clock : x \in 0..clock'
    BY <1>2, <1>3
  <2>2. source \in [Flights -> [rev : 0..clock, stamp : 0..clock, complete : BOOLEAN]]
    BY <1>1 DEF TypeOK
  <2> QED BY <1>1, <2>1, <2>2
<1>5. TypeOK'
  BY <1>1, <1>3, <1>4 DEF TypeOK
<1>6. Out' = Out /\ Out \subseteq Events
  BY <1>1, UnsentTypes DEF Out, Unsent
<1>7. OutIdentified'
  BY <1>1, <1>6 DEF IInv, StampInv, OutIdentified
<1>8. LiveInv'
  <2>1. SUFFICES ASSUME live, NEW x \in Out
                 PROVE  /\ x.stamp <= clock'
                        /\ x.stamp = clock' => clock' = MaxClock /\ x.rev = source[x.flight].rev
    BY <1>1, <1>6 DEF LiveInv
  <2>2. x.stamp <= clock /\ (x.stamp = clock /\ clock = MaxClock => x.rev = source[x.flight].rev)
    BY <2>1 DEF IInv, StampInv, LiveInv
  <2>3. x.stamp \in Nat
    BY <1>6, <2>1 DEF Events
  <2> QED BY <1>1, <1>2, <2>2, <2>3
<1>9. MockInv'
  <2>1. \A f \in Flights : clock' < MaxClock => source[f].stamp < clock' /\ source[f].rev < clock'
    BY <1>1, <1>2
  <2> QED BY <1>1, <1>6, <2>1 DEF IInv, StampInv, MockInv
<1> QED BY <1>5, <1>7, <1>8, <1>9 DEF IInv, StampInv

LEMMA DeliveryStep ==
    ASSUME IInv, Publish \/ SendFails \/ PublishFails
    PROVE  IInv'
<1>1. /\ TypeOK /\ pc = "publish" /\ todo # <<>>
      /\ Deliver(Head(todo)) \/ UNCHANGED <<topic, last>>
      /\ todo' \in {todo, Tail(todo), <<>>}
      /\ pc' \in {"publish", "sleep"} /\ (pc' = "sleep" => todo' = <<>>)
      /\ UNCHANGED <<live, clock, source>>
      /\ faults' = faults \/ Fault
  BY DEF IInv, Publish, SendFails, PublishFails
<1>2. /\ Out' \subseteq Out /\ topic' \subseteq Events
      /\ last' \in [Flights -> topic' \cup {None}]
      /\ todo' \in Seq(Events) /\ Len(todo') <= Len(Listing)
  BY <1>1, DeliverShrinks
<1>3. faults' \in 0..MaxFaults
  BY <1>1 DEF Fault, TypeOK
<1>4. TypeOK'
  BY <1>1, <1>2, <1>3 DEF TypeOK
<1>5. StampInv'
  BY <1>1, <1>2, QuietStep DEF IInv
<1> QED BY <1>4, <1>5 DEF IInv

LEMMA IdleStep ==
    ASSUME IInv, FetchFails \/ PollEnds \/ UNCHANGED vars
    PROVE  IInv'
<1>1. /\ TypeOK /\ UNCHANGED <<live, clock, source, todo, topic, last>>
      /\ pc' \in {pc, "sleep"}
      /\ todo = <<>> \/ pc' = pc
      /\ faults' = faults \/ Fault
  BY DEF IInv, FetchFails, PollEnds, vars, TypeOK
<1>2. faults' \in 0..MaxFaults
  BY <1>1 DEF Fault, TypeOK
<1>3. TypeOK'
  BY <1>1, <1>2 DEF TypeOK
<1>4. Out' = Out
  BY <1>1 DEF Out, Unsent
<1>5. StampInv'
  BY <1>1, <1>4, QuietStep DEF IInv
<1> QED BY <1>3, <1>5 DEF IInv

LEMMA InitInv == Init => IInv
<1> SUFFICES ASSUME Init PROVE IInv
  OBVIOUS
<1>1. clock \in 1..MaxClock /\ faults \in 0..MaxFaults
  BY DEF Init
<1>2. source \in [Flights -> [rev : 0..clock, stamp : 0..clock, complete : BOOLEAN]]
  BY DEF Init
<1>3. TypeOK
  BY <1>1, <1>2 DEF Init, TypeOK
<1>4. Out = {}
  BY DEF Init, Out, Unsent
<1>5. StampInv
  BY <1>4 DEF Init, StampInv, OutIdentified, LiveInv, MockInv
<1> QED BY <1>3, <1>5 DEF IInv

LEMMA NextInv == IInv /\ [Next]_vars => IInv'
<1> SUFFICES ASSUME IInv, [Next]_vars PROVE IInv'
  OBVIOUS
<1>1. CASE FetchLive
  BY <1>1, FetchLiveStep
<1>2. CASE FetchMock
  BY <1>2, FetchMockStep
<1>3. CASE Publish \/ SendFails \/ PublishFails
  BY <1>3, DeliveryStep
<1>4. CASE FetchFails \/ PollEnds \/ UNCHANGED vars
  BY <1>4, IdleStep
<1>5. CASE Wake
  BY <1>5, WakeStep
<1>6. ASSUME NEW f \in Flights, Revise(f) PROVE IInv'
  BY <1>6, ReviseStep
<1> QED BY <1>1, <1>2, <1>3, <1>4, <1>5, <1>6 DEF Next, Run

\* Every variable keeps its type: in particular a poll never has more to send
\* than there are flights, and the record of the newest is one of the topic.
THEOREM TypeCorrect == Spec => []TypeOK
<1>1. IInv => TypeOK
  BY DEF IInv
<1> QED BY <1>1, InitInv, NextInv, PTL DEF Spec

\* flight_id and timestamp identify the content of an event, whatever fails
\* and is sent again, and the mock's contents identify the timestamp: what the
\* idempotency key and the unique index of flight_events rely on.
THEOREM KeysAreSafe == Spec => []KeysIdentifyContents
<1>1. IInv => KeysIdentifyContents
  BY DEF IInv, StampInv, OutIdentified, KeysIdentifyContents, Out
<1> QED BY <1>1, InitInv, NextInv, PTL DEF Spec
=============================================================================
