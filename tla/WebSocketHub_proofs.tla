------------------------- MODULE WebSocketHub_proofs -------------------------
(***************************************************************************)
(* Proofs about WebSocketHub, for every feed, every number of connections  *)
(* and every bound.                                                        *)
(***************************************************************************)
EXTENDS WebSocketHub, FiniteSetTheorems, TLAPS

----------------------------------------------------------------------------
(* Sequences.                                                              *)

LEMMA SeqMono ==
    ASSUME NEW S, NEW T, S \subseteq T, NEW s \in Seq(S)
    PROVE  s \in Seq(T)
<1>1. \A i \in 1..Len(s) : s[i] \in T
  OBVIOUS
<1> QED BY <1>1

LEMMA SeqOps ==
    ASSUME NEW S, NEW s \in Seq(S), NEW x \in S
    PROVE  /\ Append(s, x) \in Seq(S) /\ Len(Append(s, x)) = Len(s) + 1
           /\ Len(s) \in Nat
OBVIOUS

LEMMA HeadTail ==
    ASSUME NEW S, NEW s \in Seq(S), s # <<>>
    PROVE  Head(s) \in S /\ Tail(s) \in Seq(S) /\ Len(Tail(s)) = Len(s) - 1
OBVIOUS

----------------------------------------------------------------------------
(* Types.                                                                  *)

HubTypes == TypeOK /\ IsFiniteSet(failed)

LEMMA CapIsPositive == Cap \in Nat /\ Cap >= 1 /\ MaxFaults \in Nat /\ Len(Feed) \in Nat
BY HubAssumption

LEMMA FaultTypes ==
    ASSUME HubTypes, NEW c \in Conns, Fault(c)
    PROVE  failed' \subseteq Conns /\ IsFiniteSet(failed') /\ Cardinality(failed') <= MaxFaults
<1>1. IsFiniteSet(failed) /\ failed \subseteq Conns /\ Cardinality(failed) <= MaxFaults
  BY DEF HubTypes, TypeOK
<1>2. failed' = failed \cup {c}
  BY DEF Fault
<1>3. CASE c \in failed
  <2>1. failed' = failed
    BY <1>2, <1>3
  <2> QED BY <1>1, <2>1
<1>4. CASE c \notin failed
  <2>1. Cardinality(failed) < MaxFaults
    BY <1>4 DEF Fault
  <2>2. IsFiniteSet(failed \cup {c}) /\ Cardinality(failed \cup {c}) = Cardinality(failed) + 1
    BY <1>1, <1>4, FS_AddElement
  <2>3. Cardinality(failed) \in Nat
    BY <1>1, FS_CardinalityType
  <2>4. Cardinality(failed') <= MaxFaults
    BY <1>2, <2>1, <2>2, <2>3, CapIsPositive
  <2> QED BY <1>1, <1>2, <2>2, <2>4
<1> QED BY <1>3, <1>4

\* Every entry has a partition.
LEMMA PartTypes == \A n \in 1..Len(Feed) : Feed[n].flight \in Flights /\ Part(n) \in Partitions
<1> SUFFICES ASSUME NEW n \in 1..Len(Feed)
             PROVE  Feed[n].flight \in Flights /\ Part(n) \in Partitions
  OBVIOUS
<1> DEFINE R == [flight : Flights, source : Flights \cup {None}, gate : BOOLEAN, delayed : BOOLEAN]
<1>1. Feed \in Seq(R) /\ Home \in [Flights -> Partitions]
  BY HubAssumption
<1>2. Feed[n] \in R
  <2> HIDE DEF R
  <2> QED BY <1>1
<1>3. Feed[n].flight \in Flights
  BY <1>2
<1> QED BY <1>1, <1>3 DEF Part

LEMMA MessageTypes ==
    /\ \A n \in 0..Len(Feed) : Snapshot(n) \in Messages /\ Past(n) \in Messages /\ Update(n) \in Messages
    /\ Heartbeat \in Messages
<1>1. 0 \in 0..Len(Feed)
  BY CapIsPositive
<1> QED BY <1>1 DEF Snapshot, Past, Update, Heartbeat, Messages

LEMMA WriteTypes ==
    ASSUME HubTypes, NEW c \in Conns, NEW m \in Messages, Write(c, m)
    PROVE  sent' \in [Conns -> Seq(Messages)]
<1>1. sent \in [Conns -> Seq(Messages)]
  BY DEF HubTypes, TypeOK
<1>2. Append(sent[c], m) \in Seq(Messages)
  BY <1>1, SeqOps
<1> QED BY <1>1, <1>2 DEF Write

LEMMA PutTypes ==
    ASSUME HubTypes, NEW c \in Conns, NEW m \in Messages, Put(c, m)
    PROVE  outbox' \in [Conns -> Seq(Messages)]
<1>1. outbox \in [Conns -> Seq(Messages)]
  BY DEF HubTypes, TypeOK
<1>2. Append(outbox[c], m) \in Seq(Messages)
  BY <1>1, SeqOps
<1> QED BY <1>1, <1>2 DEF Put

LEMMA GotoTypes ==
    ASSUME HubTypes, NEW c \in Conns, NEW p \in Phases, Goto(c, p)
    PROVE  phase' \in [Conns -> Phases]
BY DEF HubTypes, TypeOK, Goto

LEMMA ReturnTypes ==
    ASSUME HubTypes, NEW c \in Conns, Return(c)
    PROVE  /\ phase' \in [Conns -> Phases]
           /\ replay' \in [Conns -> Seq(1..published)]
           /\ outbox' \in [Conns -> Seq(Messages)]
           /\ DOMAIN up' = Conns /\ \A d \in Conns : up'[d] \in Seq(Frames[d])
           /\ filter' \in [Conns -> Flights \cup {None}]
           /\ filters' \in [Conns -> SUBSET (Flights \cup {None})]
           /\ start' \in [Conns -> [Partitions -> 0..published]]
           /\ pos' \in [Conns -> [Partitions -> 0..published]]
<1>1. published \in Nat /\ Ends(0) \in [Partitions -> 0..published]
  BY DEF HubTypes, TypeOK, Ends
<1>2. phase' \in [Conns -> Phases]
  <2>1. "closed" \in Phases
    BY DEF Phases
  <2> QED BY <2>1, GotoTypes DEF Return
<1>3. replay' \in [Conns -> Seq(1..published)]
  <2>1. <<>> \in Seq(1..published)
    OBVIOUS
  <2> QED BY <2>1 DEF HubTypes, TypeOK, Return
<1>4. outbox' \in [Conns -> Seq(Messages)]
  <2>1. <<>> \in Seq(Messages)
    OBVIOUS
  <2> QED BY <2>1 DEF HubTypes, TypeOK, Return
<1>5. DOMAIN up' = Conns /\ \A d \in Conns : up'[d] \in Seq(Frames[d])
  <2>1. \A d \in Conns : <<>> \in Seq(Frames[d])
    OBVIOUS
  <2> QED BY <2>1 DEF HubTypes, TypeOK, Return
<1>6. filter' \in [Conns -> Flights \cup {None}]
  BY DEF HubTypes, TypeOK, Return
<1>7. filters' \in [Conns -> SUBSET (Flights \cup {None})]
  BY DEF HubTypes, TypeOK, Return
<1>8. start' \in [Conns -> [Partitions -> 0..published]]
  BY <1>1 DEF HubTypes, TypeOK, Return
<1>9. pos' \in [Conns -> [Partitions -> 0..published]]
  BY <1>1 DEF HubTypes, TypeOK, Return
<1> QED BY <1>2, <1>3, <1>4, <1>5, <1>6, <1>7, <1>8, <1>9

\* The topic grows, and what was read of it is still there.
LEMMA TopicTypes ==
    ASSUME HubTypes, Apply \/ Publish
    PROVE  HubTypes'
<1> USE DEF HubTypes
<1>1. published \in 0..applied /\ applied \in 0..Len(Feed) /\ Len(Feed) \in Nat
  BY CapIsPositive DEF TypeOK
<1>2. /\ published' \in 0..applied' /\ applied' \in 0..Len(Feed)
      /\ published \in Nat /\ published' \in Nat /\ published <= published'
  BY <1>1 DEF Apply, Publish
<1>3. /\ 1..published \subseteq 1..published'
      /\ [Partitions -> 0..published] \subseteq [Partitions -> 0..published']
  BY <1>2
<1>4. UNCHANGED <<history, phase, replay, streamVars, outbox, sent, clientVars, consumers, failed>>
  BY DEF Apply, Publish
<1>5. history' \in Seq(1..published') /\ Len(history') <= Cap
  BY <1>3, <1>4, SeqMono DEF TypeOK
<1>6. replay' \in [Conns -> Seq(1..published')]
  <2>1. \A c \in Conns : replay[c] \in Seq(1..published')
    BY <1>3, SeqMono DEF TypeOK
  <2> QED BY <1>4, <2>1 DEF TypeOK
<1>7. /\ start' \in [Conns -> [Partitions -> 0..published']]
      /\ pos' \in [Conns -> [Partitions -> 0..published']]
  BY <1>3, <1>4 DEF TypeOK, streamVars
<1> QED BY <1>2, <1>4, <1>5, <1>6, <1>7 DEF TypeOK, streamVars, clientVars

LEMMA TypeFacts ==
    ASSUME HubTypes
    PROVE  /\ published \in Nat /\ applied \in 0..Len(Feed) /\ published \in 0..applied
           /\ published \in 0..published
           /\ \A n \in 1..published : n \in 0..Len(Feed) /\ n \in 1..Len(Feed)
           /\ history \in Seq(1..published)
           /\ \A c \in Conns : /\ replay[c] \in Seq(1..published)
                               /\ pos[c] \in [Partitions -> 0..published]
                               /\ outbox[c] \in Seq(Messages) /\ sent[c] \in Seq(Messages)
                               /\ up[c] \in Seq(Frames[c])
BY CapIsPositive DEF HubTypes, TypeOK

LEMMA GreetTypes ==
    ASSUME HubTypes, NEW c \in Conns, Accept(c) \/ CopyHistory(c) \/ Replay(c)
    PROVE  HubTypes'
<1> USE DEF streamVars, topicVars, clientVars
<1>1. CASE Accept(c)
  <2>1. phase' \in [Conns -> Phases]
    <3>1. "greeted" \in Phases
      BY DEF Phases
    <3> QED BY <1>1, <3>1, GotoTypes DEF Accept
  <2>2. sent' \in [Conns -> Seq(Messages)]
    BY <1>1, WriteTypes, MessageTypes, TypeFacts DEF Accept
  <2> QED BY <1>1, <2>1, <2>2 DEF Accept, HubTypes, TypeOK
<1>2. CASE CopyHistory(c)
  <2>1. phase' \in [Conns -> Phases]
    <3>1. "replay" \in Phases
      BY DEF Phases
    <3> QED BY <1>2, <3>1, GotoTypes DEF CopyHistory
  <2>2. replay' \in [Conns -> Seq(1..published)]
    BY <1>2 DEF CopyHistory, HubTypes, TypeOK
  <2> QED BY <1>2, <2>1, <2>2 DEF CopyHistory, HubTypes, TypeOK
<1>3. CASE Replay(c)
  <2>1. replay[c] \in Seq(1..published) /\ replay[c] # <<>>
    BY <1>3, TypeFacts DEF Replay
  <2>2. Head(replay[c]) \in 1..published /\ Tail(replay[c]) \in Seq(1..published)
    BY <2>1, HeadTail
  <2>3. replay' \in [Conns -> Seq(1..published)]
    BY <1>3, <2>2 DEF Replay, HubTypes, TypeOK
  <2>4. Past(Head(replay[c])) \in Messages
    BY <2>2, MessageTypes, TypeFacts
  <2>5. sent' \in [Conns -> Seq(Messages)]
    BY <1>3, <2>4, WriteTypes DEF Replay
  <2> QED BY <1>3, <2>3, <2>5 DEF Replay, HubTypes, TypeOK
<1> QED BY <1>1, <1>2, <1>3

LEMMA StartTypes ==
    ASSUME HubTypes, NEW c \in Conns, Start(c)
    PROVE  HubTypes'
<1>1. phase' \in [Conns -> Phases]
  <2>1. "live" \in Phases
    BY DEF Phases
  <2> QED BY <2>1, GotoTypes DEF Start
<1>2. /\ start' \in [Conns -> [Partitions -> 0..published]]
      /\ pos' \in [Conns -> [Partitions -> 0..published]]
  <2>1. Ends(published) \in [Partitions -> 0..published]
    BY TypeFacts DEF Ends
  <2> QED BY <2>1 DEF Start, HubTypes, TypeOK
<1> QED BY <1>1, <1>2 DEF Start, HubTypes, TypeOK, topicVars, clientVars

LEMMA EndTypes ==
    ASSUME HubTypes, NEW c \in Conns,
           GreetingFails(c) \/ StartFails(c) \/ End(c) \/ EndFails(c)
    PROVE  HubTypes'
<1>1. /\ Return(c) /\ UNCHANGED <<topicVars, history, sent, gone>>
      /\ consumers' \in {consumers, consumers \cup {c}, consumers \ {c}}
      /\ failed' = failed \/ Fault(c)
  BY DEF GreetingFails, StartFails, End, EndFails
<1>2. failed' \subseteq Conns /\ IsFiniteSet(failed') /\ Cardinality(failed') <= MaxFaults
  BY <1>1, FaultTypes DEF HubTypes, TypeOK
<1>3. consumers' \subseteq Conns
  BY <1>1 DEF HubTypes, TypeOK
<1>4. /\ phase' \in [Conns -> Phases]
      /\ replay' \in [Conns -> Seq(1..published)]
      /\ outbox' \in [Conns -> Seq(Messages)]
      /\ DOMAIN up' = Conns /\ \A d \in Conns : up'[d] \in Seq(Frames[d])
      /\ filter' \in [Conns -> Flights \cup {None}]
      /\ filters' \in [Conns -> SUBSET (Flights \cup {None})]
      /\ start' \in [Conns -> [Partitions -> 0..published]]
      /\ pos' \in [Conns -> [Partitions -> 0..published]]
  BY <1>1, ReturnTypes
<1> QED BY <1>1, <1>2, <1>3, <1>4 DEF HubTypes, TypeOK, topicVars

LEMMA StreamTypes ==
    ASSUME HubTypes, NEW c \in Conns, Stream(c)
    PROVE  HubTypes'
<1>1. PICK n \in 1..published :
         /\ pos' = [pos EXCEPT ![c] = [@ EXCEPT ![Part(n)] = n]] /\ Remember(n)
         /\ Put(c, Update(n)) \/ UNCHANGED outbox
  BY DEF Stream
<1>2. /\ n \in 0..published
      /\ UNCHANGED <<topicVars, phase, replay, start, filter, filters, sent, clientVars,
                     consumers, failed>>
  BY TypeFacts DEF Stream
<1>3. pos' \in [Conns -> [Partitions -> 0..published]]
  <2>1. [pos[c] EXCEPT ![Part(n)] = n] \in [Partitions -> 0..published]
    BY <1>2, TypeFacts
  <2> QED BY <1>1, <2>1 DEF HubTypes, TypeOK
<1>4. outbox' \in [Conns -> Seq(Messages)]
  <2>1. Update(n) \in Messages
    BY <1>1, MessageTypes, TypeFacts
  <2> QED BY <1>1, <2>1, PutTypes DEF HubTypes, TypeOK
<1>5. history' \in Seq(1..published) /\ Len(history') <= Cap
  <2>1. history \in Seq(1..published) /\ Len(history) <= Cap /\ Len(history) \in Nat
    BY TypeFacts DEF HubTypes, TypeOK
  <2>2. CASE Len(history) < Cap
    <3>1. history' = Append(history, n)
      BY <1>1, <2>2 DEF Remember
    <3>2. history' \in Seq(1..published) /\ Len(history') = Len(history) + 1
      BY <1>1, <2>1, <3>1, SeqOps
    <3> QED BY <2>1, <2>2, <3>2, CapIsPositive
  <2>3. CASE ~(Len(history) < Cap)
    <3>1. history' = Append(Tail(history), n)
      BY <1>1, <2>3 DEF Remember
    <3>2. Len(history) # 0
      BY <2>1, <2>3, CapIsPositive
    <3>3. history # <<>>
      BY <3>2
    <3>4. Tail(history) \in Seq(1..published) /\ Len(Tail(history)) = Len(history) - 1
      BY <2>1, <3>3
    <3>5. history' \in Seq(1..published) /\ Len(history') = Len(Tail(history)) + 1
      BY <1>1, <3>1, <3>4, SeqOps
    <3> QED BY <2>1, <3>4, <3>5, CapIsPositive
  <2> QED BY <2>2, <2>3
<1> QED BY <1>2, <1>3, <1>4, <1>5 DEF HubTypes, TypeOK, topicVars, clientVars

LEMMA SendTypes ==
    ASSUME HubTypes, NEW c \in Conns, Send(c)
    PROVE  HubTypes'
<1>1. outbox[c] \in Seq(Messages) /\ outbox[c] # <<>>
  BY TypeFacts DEF Send
<1>2. Head(outbox[c]) \in Messages /\ Tail(outbox[c]) \in Seq(Messages)
  BY <1>1, HeadTail
<1>3. outbox' \in [Conns -> Seq(Messages)]
  BY <1>2 DEF Send, HubTypes, TypeOK
<1>4. phase' \in [Conns -> Phases]
  <2>1. "ending" \in Phases
    BY DEF Phases
  <2> QED BY <2>1, GotoTypes DEF Send, HubTypes, TypeOK
<1>5. sent' \in [Conns -> Seq(Messages)]
  BY <1>2, WriteTypes DEF Send, HubTypes, TypeOK
<1>6. UNCHANGED <<topicVars, history, replay, streamVars, clientVars, consumers, failed>>
  BY DEF Send
<1> QED BY <1>3, <1>4, <1>5, <1>6 DEF HubTypes, TypeOK, topicVars, clientVars, streamVars

LEMMA BeatTypes ==
    ASSUME HubTypes, NEW c \in Conns, Beat(c)
    PROVE  HubTypes'
<1>1. outbox' \in [Conns -> Seq(Messages)]
  BY PutTypes, MessageTypes DEF Beat
<1> QED BY <1>1 DEF Beat, HubTypes, TypeOK, topicVars, clientVars, streamVars

\* What a frame does is one of three things.
LEMMA HeedCases ==
    ASSUME HubTypes, NEW c \in Conns, Receive(c)
    PROVE  /\ up[c] # <<>> /\ Head(up[c]) \in Frames[c]
           /\ up' = [up EXCEPT ![c] = Tail(@)] /\ Tail(up[c]) \in Seq(Frames[c])
           /\ \/ UNCHANGED phase /\ \E f \in Flights \cup {None} : Subscribe(c, f)
              \/ UNCHANGED <<phase, filter, filters>>
              \/ /\ \E frame \in Frames[c] : frame.action = "list"
                 /\ Goto(c, "ending") /\ UNCHANGED <<filter, filters>>
<1> DEFINE frame == Head(up[c])
<1>1. up[c] \in Seq(Frames[c]) /\ up[c] # <<>>
  BY TypeFacts DEF Receive
<1>2. frame \in Frames[c] /\ Tail(up[c]) \in Seq(Frames[c])
  BY <1>1, HeadTail
<1>3. Heed(c, frame)
  BY DEF Receive
<1>4. /\ frame.action \in {"subscribe", "unsubscribe", "noise", "list"}
      /\ frame.action = "subscribe" => frame.flight \in Flights \cup {None}
  BY <1>2, HubAssumption
<1> HIDE DEF frame
<1>5. CASE frame.action = "subscribe"
  <2>1. UNCHANGED phase /\ \E f \in Flights \cup {None} : Subscribe(c, f)
    BY <1>3, <1>4, <1>5 DEF Heed
  <2> QED BY <1>1, <1>2, <2>1 DEF Receive, frame
<1>6. CASE frame.action = "unsubscribe"
  <2>1. UNCHANGED phase /\ \E f \in Flights \cup {None} : Subscribe(c, f)
    BY <1>3, <1>6 DEF Heed
  <2> QED BY <1>1, <1>2, <2>1 DEF Receive, frame
<1>7. CASE frame.action = "noise"
  <2>1. UNCHANGED <<phase, filter, filters>>
    BY <1>3, <1>7 DEF Heed
  <2> QED BY <1>1, <1>2, <2>1 DEF Receive, frame
<1>8. CASE frame.action = "list"
  <2>1. Goto(c, "ending") /\ UNCHANGED <<filter, filters>>
    BY <1>3, <1>8 DEF Heed
  <2> QED BY <1>1, <1>2, <1>8, <2>1 DEF Receive, frame
<1> QED BY <1>4, <1>5, <1>6, <1>7, <1>8

LEMMA ReceiveTypes ==
    ASSUME HubTypes, NEW c \in Conns, Receive(c)
    PROVE  HubTypes'
<1>1. /\ up' = [up EXCEPT ![c] = Tail(@)] /\ Tail(up[c]) \in Seq(Frames[c])
      /\ \/ UNCHANGED phase /\ \E f \in Flights \cup {None} : Subscribe(c, f)
         \/ UNCHANGED <<phase, filter, filters>>
         \/ Goto(c, "ending") /\ UNCHANGED <<filter, filters>>
  BY HeedCases
<1>2. DOMAIN up' = Conns /\ \A d \in Conns : up'[d] \in Seq(Frames[d])
  BY <1>1 DEF HubTypes, TypeOK
<1>3. phase' \in [Conns -> Phases]
  <2>1. "ending" \in Phases
    BY DEF Phases
  <2> QED BY <1>1, <2>1, GotoTypes DEF HubTypes, TypeOK
<1>4. filter' \in [Conns -> Flights \cup {None}]
  BY <1>1 DEF Subscribe, HubTypes, TypeOK
<1>5. filters' \in [Conns -> SUBSET (Flights \cup {None})]
  BY <1>1, SMTT(30) DEF Subscribe, HubTypes, TypeOK
<1> QED BY <1>2, <1>3, <1>4, <1>5 DEF Receive, HubTypes, TypeOK, topicVars

LEMMA EndingTypes ==
    ASSUME HubTypes, NEW c \in Conns, StreamFails(c) \/ Disconnected(c)
    PROVE  HubTypes'
<1>1. /\ Goto(c, "ending")
      /\ failed' = failed \/ Fault(c)
      /\ UNCHANGED <<topicVars, history, replay, streamVars, outbox, sent, clientVars, consumers>>
  BY DEF StreamFails, Disconnected
<1>2. failed' \subseteq Conns /\ IsFiniteSet(failed') /\ Cardinality(failed') <= MaxFaults
  BY <1>1, FaultTypes DEF HubTypes, TypeOK
<1>3. phase' \in [Conns -> Phases]
  <2>1. "ending" \in Phases
    BY DEF Phases
  <2>2. Goto(c, "ending")
    BY DEF StreamFails, Disconnected
  <2> QED BY <2>1, <2>2, GotoTypes
<1> QED BY <1>1, <1>2, <1>3 DEF HubTypes, TypeOK, topicVars, clientVars, streamVars

LEMMA ClientTypes ==
    ASSUME HubTypes, NEW c \in Conns, Leave(c) \/ \E frame \in Frames[c] : Say(c, frame)
    PROVE  HubTypes'
<1>1. CASE Leave(c)
  <2>1. sent' \in [Conns -> Seq(Messages)]
    <3>1. <<>> \in Seq(Messages)
      OBVIOUS
    <3> QED BY <1>1, <3>1 DEF Leave, HubTypes, TypeOK
  <2>2. gone' \subseteq Conns
    BY <1>1 DEF Leave, HubTypes, TypeOK
  <2> QED BY <1>1, <2>1, <2>2 DEF Leave, HubTypes, TypeOK, topicVars, streamVars
<1>2. ASSUME NEW frame \in Frames[c], Say(c, frame) PROVE HubTypes'
  <2>1. Append(up[c], frame) \in Seq(Frames[c])
    BY TypeFacts, SeqOps
  <2>2. DOMAIN up' = Conns /\ \A d \in Conns : up'[d] \in Seq(Frames[d])
    BY <1>2, <2>1 DEF Say, HubTypes, TypeOK
  <2> QED BY <1>2, <2>2 DEF Say, HubTypes, TypeOK, topicVars, streamVars
<1> QED BY <1>1, <1>2

\* The actions, apart.
LEMMA NextCases ==
    ASSUME [Next]_vars
    PROVE  \/ Apply \/ Publish
           \/ \E c \in Conns :
                \/ Accept(c) \/ CopyHistory(c) \/ Replay(c) \/ GreetingFails(c) \/ Start(c)
                \/ Stream(c) \/ Send(c) \/ Receive(c) \/ Disconnected(c) \/ End(c)
                \/ Beat(c)
                \/ StartFails(c) \/ StreamFails(c) \/ EndFails(c)
                \/ Leave(c) \/ \E frame \in Frames[c] : Say(c, frame)
           \/ UNCHANGED vars
BY DEF Next, Serve, Greet, Wind, Disturb, Quiescent

LEMMA StepTypes == HubTypes /\ [Next]_vars => HubTypes'
<1> SUFFICES ASSUME HubTypes, [Next]_vars PROVE HubTypes'
  OBVIOUS
<1>1. CASE Apply \/ Publish
  BY <1>1, TopicTypes
<1>2. CASE UNCHANGED vars
  BY <1>2 DEF vars, topicVars, clientVars, streamVars, HubTypes, TypeOK
<1>3. ASSUME NEW c \in Conns,
             \/ Accept(c) \/ CopyHistory(c) \/ Replay(c) \/ GreetingFails(c) \/ Start(c)
             \/ Stream(c) \/ Send(c) \/ Receive(c) \/ Disconnected(c) \/ End(c)
             \/ Beat(c)
             \/ StartFails(c) \/ StreamFails(c) \/ EndFails(c)
             \/ Leave(c) \/ \E frame \in Frames[c] : Say(c, frame)
      PROVE  HubTypes'
  BY <1>3, GreetTypes, StartTypes, EndTypes, StreamTypes, SendTypes, BeatTypes,
     ReceiveTypes, EndingTypes, ClientTypes
<1> QED BY <1>1, <1>2, <1>3, NextCases

LEMMA InitTypes == Init => HubTypes
<1> SUFFICES ASSUME Init PROVE HubTypes
  OBVIOUS
<1>1. /\ \A S : <<>> \in Seq(S)
      /\ Len(<<>>) = 0
  OBVIOUS
<1>2. IsFiniteSet({}) /\ Cardinality({}) = 0
  BY FS_EmptySet
<1>3. published \in 0..applied /\ applied \in 0..Len(Feed)
  BY CapIsPositive DEF Init
<1>4. history \in Seq(1..published) /\ Len(history) <= Cap
  BY <1>1, CapIsPositive DEF Init
<1>5. failed \subseteq Conns /\ IsFiniteSet(failed) /\ Cardinality(failed) <= MaxFaults
  BY <1>2, CapIsPositive DEF Init
<1>6. phase \in [Conns -> Phases]
  BY DEF Init, Phases
<1>7. replay \in [Conns -> Seq(1..published)]
  BY <1>1 DEF Init
<1>8. outbox \in [Conns -> Seq(Messages)] /\ sent \in [Conns -> Seq(Messages)]
  BY <1>1 DEF Init
<1>9. /\ start \in [Conns -> [Partitions -> 0..published]]
      /\ pos \in [Conns -> [Partitions -> 0..published]]
  <2>1. Ends(0) \in [Partitions -> 0..published]
    BY DEF Init, Ends
  <2> QED BY <2>1 DEF Init
<1>10. DOMAIN up = Conns /\ \A c \in Conns : up[c] \in Seq(Frames[c])
  BY <1>1 DEF Init
<1>11. filter \in [Conns -> Flights \cup {None}] /\ filters \in [Conns -> SUBSET (Flights \cup {None})]
  BY DEF Init
<1>12. gone \subseteq Conns /\ consumers \subseteq Conns
  BY DEF Init
<1> QED BY <1>3, <1>4, <1>5, <1>6, <1>7, <1>8, <1>9, <1>10, <1>11, <1>12 DEF HubTypes, TypeOK

\* Every variable keeps its type: the history its bound, and what is read,
\* queued and remembered is of the topic.
THEOREM TypeCorrect == Spec => []TypeOK
<1>1. HubTypes => TypeOK
  BY DEF HubTypes
<1> QED BY <1>1, InitTypes, StepTypes, PTL DEF Spec

----------------------------------------------------------------------------
(* What a step of one connection leaves alone.                             *)

Untouched(d) ==
    /\ phase'[d] = phase[d]
    /\ outbox'[d] = outbox[d] /\ sent'[d] = sent[d]
    /\ start'[d] = start[d] /\ pos'[d] = pos[d]
    /\ filter'[d] = filter[d] /\ filters'[d] = filters[d]
    /\ d \in consumers' <=> d \in consumers
    /\ gone \subseteq gone' /\ failed \subseteq failed'

LEMMA TopicElsewhere ==
    ASSUME Apply \/ Publish \/ UNCHANGED vars, NEW d \in Conns
    PROVE  Untouched(d)
BY DEF Apply, Publish, vars, topicVars, clientVars, streamVars, Untouched

LEMMA ReturnElsewhere ==
    ASSUME HubTypes, NEW c \in Conns, NEW d \in Conns, d # c,
           GreetingFails(c) \/ StartFails(c) \/ End(c) \/ EndFails(c)
    PROVE  Untouched(d)
<1>1. /\ Return(c) /\ UNCHANGED <<sent, gone>>
      /\ consumers' \in {consumers, consumers \cup {c}, consumers \ {c}}
      /\ failed' = failed \/ failed' = failed \cup {c}
  BY DEF GreetingFails, StartFails, End, EndFails, Fault
<1>2. d \in consumers' <=> d \in consumers
  BY <1>1
<1>3. /\ phase'[d] = phase[d] /\ outbox'[d] = outbox[d]
      /\ start'[d] = start[d] /\ pos'[d] = pos[d]
      /\ filter'[d] = filter[d] /\ filters'[d] = filters[d]
  BY <1>1 DEF Return, Goto, HubTypes, TypeOK
<1> QED BY <1>1, <1>2, <1>3 DEF Untouched

LEMMA WorkElsewhere ==
    ASSUME HubTypes, NEW c \in Conns, NEW d \in Conns, d # c,
           \/ Accept(c) \/ CopyHistory(c) \/ Replay(c) \/ Start(c)
           \/ Stream(c) \/ Send(c) \/ Disconnected(c) \/ StreamFails(c) \/ Beat(c)
    PROVE  Untouched(d)
<1> USE DEF topicVars, clientVars, streamVars, HubTypes, TypeOK, Untouched, Goto
<1>1. CASE Accept(c)
  BY <1>1 DEF Accept, Write
<1>2. CASE CopyHistory(c)
  BY <1>2 DEF CopyHistory
<1>3. CASE Replay(c)
  BY <1>3 DEF Replay, Write
<1>4. CASE Start(c)
  BY <1>4 DEF Start
<1>5. CASE Stream(c)
  BY <1>5 DEF Stream, Put
<1>6. CASE Send(c)
  BY <1>6 DEF Send, Write
<1>7. CASE Disconnected(c)
  BY <1>7 DEF Disconnected
<1>8. CASE StreamFails(c)
  BY <1>8 DEF StreamFails, Fault
<1>9. CASE Beat(c)
  BY <1>9 DEF Beat, Put
<1> QED BY <1>1, <1>2, <1>3, <1>4, <1>5, <1>6, <1>7, <1>8, <1>9

LEMMA ClientElsewhere ==
    ASSUME HubTypes, NEW c \in Conns, NEW d \in Conns, d # c,
           Receive(c) \/ Leave(c) \/ \E frame \in Frames[c] : Say(c, frame)
    PROVE  Untouched(d)
<1>1. CASE Receive(c)
  <2>1. /\ \/ UNCHANGED phase /\ \E f \in Flights \cup {None} : Subscribe(c, f)
           \/ UNCHANGED <<phase, filter, filters>>
           \/ Goto(c, "ending") /\ UNCHANGED <<filter, filters>>
    BY <1>1, HeedCases
  <2>2. UNCHANGED <<start, pos, outbox, sent, gone, consumers, failed>>
    BY <1>1 DEF Receive
  <2>3. phase'[d] = phase[d] /\ filter'[d] = filter[d] /\ filters'[d] = filters[d]
    BY <2>1 DEF Goto, Subscribe, HubTypes, TypeOK
  <2> QED BY <2>2, <2>3 DEF Untouched
<1>2. CASE Leave(c)
  BY <1>2 DEF Leave, Untouched, HubTypes, TypeOK, streamVars
<1>3. CASE \E frame \in Frames[c] : Say(c, frame)
  BY <1>3 DEF Say, Untouched, streamVars
<1> QED BY <1>1, <1>2, <1>3

----------------------------------------------------------------------------
(* Consumers and the ends of connections.                                  *)

Early == {"idle", "greeted", "replay"}

\* Neither property is inductive: an endpoint that gives up before it has
\* tasks ends without stopping anything, so it must not have a consumer.
Controlled(c) ==
    /\ phase[c] \in Early => c \notin consumers
    /\ Working(c) => c \in consumers
    /\ c \in consumers /\ phase[c] = "closed" => c \in failed
    /\ phase[c] \in {"ending", "closed"}
          => c \in gone \cup failed \/ \E frame \in Frames[c] : frame.action = "list"

ControlInv == \A c \in Conns : Controlled(c)

LEMMA ControlElsewhere ==
    ASSUME NEW d \in Conns, Controlled(d), Untouched(d)
    PROVE  Controlled(d)'
BY DEF Controlled, Untouched, Working

LEMMA ControlGreet ==
    ASSUME HubTypes, NEW c \in Conns, Controlled(c),
           Accept(c) \/ CopyHistory(c) \/ Replay(c) \/ Start(c)
    PROVE  Controlled(c)'
<1> USE DEF HubTypes, TypeOK, Controlled, Early, Working, Goto
<1>1. CASE Accept(c)
  BY <1>1 DEF Accept
<1>2. CASE CopyHistory(c)
  BY <1>2 DEF CopyHistory
<1>3. CASE Replay(c)
  BY <1>3 DEF Replay
<1>4. CASE Start(c)
  BY <1>4 DEF Start
<1> QED BY <1>1, <1>2, <1>3, <1>4

LEMMA ControlReturn ==
    ASSUME HubTypes, NEW c \in Conns, Controlled(c),
           GreetingFails(c) \/ StartFails(c) \/ End(c) \/ EndFails(c)
    PROVE  Controlled(c)'
<1>1. phase'[c] = "closed"
  BY DEF GreetingFails, StartFails, End, EndFails, Return, Goto, HubTypes, TypeOK
<1>2. CASE GreetingFails(c)
  BY <1>1, <1>2 DEF GreetingFails, Controlled, Early, Working
<1>3. CASE StartFails(c)
  BY <1>1, <1>3 DEF StartFails, Fault, Controlled, Early, Working
<1>4. CASE End(c)
  BY <1>1, <1>4 DEF End, Controlled, Early, Working
<1>5. CASE EndFails(c)
  BY <1>1, <1>5 DEF EndFails, Fault, Controlled, Early, Working
<1> QED BY <1>2, <1>3, <1>4, <1>5

LEMMA ControlWork ==
    ASSUME HubTypes, NEW c \in Conns, Controlled(c),
           \/ Stream(c) \/ Send(c) \/ Disconnected(c) \/ StreamFails(c) \/ Beat(c)
           \/ Receive(c) \/ Leave(c) \/ \E frame \in Frames[c] : Say(c, frame)
    PROVE  Controlled(c)'
<1> USE DEF HubTypes, TypeOK, Controlled, Early, Working, Goto, clientVars
<1>1. CASE Stream(c)
  BY <1>1 DEF Stream
<1>2. CASE Send(c)
  BY <1>2 DEF Send
<1>3. CASE Disconnected(c)
  BY <1>3 DEF Disconnected
<1>4. CASE StreamFails(c)
  BY <1>4 DEF StreamFails, Fault
<1>5. CASE Beat(c)
  BY <1>5 DEF Beat
<1>6. CASE Receive(c)
  <2>1. \/ UNCHANGED phase
        \/ (\E frame \in Frames[c] : frame.action = "list") /\ Goto(c, "ending")
    BY <1>6, HeedCases
  <2> QED BY <1>6, <2>1 DEF Receive
<1>7. CASE Leave(c)
  BY <1>7 DEF Leave
<1>8. CASE \E frame \in Frames[c] : Say(c, frame)
  BY <1>8 DEF Say
<1> QED BY <1>1, <1>2, <1>3, <1>4, <1>5, <1>6, <1>7, <1>8

LEMMA StepControl == HubTypes /\ ControlInv /\ [Next]_vars => ControlInv'
<1> SUFFICES ASSUME HubTypes, ControlInv, [Next]_vars, NEW d \in Conns PROVE Controlled(d)'
  BY DEF ControlInv
<1>1. Controlled(d)
  BY DEF ControlInv
<1>2. CASE Apply \/ Publish \/ UNCHANGED vars
  BY <1>1, <1>2, TopicElsewhere, ControlElsewhere
<1>3. ASSUME NEW c \in Conns,
             \/ Accept(c) \/ CopyHistory(c) \/ Replay(c) \/ GreetingFails(c) \/ Start(c)
             \/ Stream(c) \/ Send(c) \/ Receive(c) \/ Disconnected(c) \/ End(c)
             \/ Beat(c)
             \/ StartFails(c) \/ StreamFails(c) \/ EndFails(c)
             \/ Leave(c) \/ \E frame \in Frames[c] : Say(c, frame)
      PROVE  Controlled(d)'
  <2>1. CASE d = c
    BY <1>1, <1>3, <2>1, ControlGreet, ControlReturn, ControlWork
  <2>2. CASE d # c
    <3>1. Untouched(d)
      BY <1>3, <2>2, ReturnElsewhere, WorkElsewhere, ClientElsewhere
    <3> QED BY <1>1, <3>1, ControlElsewhere
  <2> QED BY <2>1, <2>2
<1> QED BY <1>2, <1>3, NextCases

LEMMA InitControl == Init => ControlInv
BY DEF Init, ControlInv, Controlled, Early, Working

\* A consumer outlives its endpoint only if Kafka failed that connection, and
\* no endpoint is at work without one.
THEOREM ConsumersAreStopped == Spec => []ConsumersEndWithConnections
<1>1. ControlInv => ConsumersEndWithConnections
  BY DEF ControlInv, Controlled, ConsumersEndWithConnections
<1> QED BY <1>1, InitTypes, StepTypes, InitControl, StepControl, PTL DEF Spec

\* A connection ends because its client left, because it failed itself, or
\* because its client sent JSON that is not an object: never because of
\* another connection or a frame that makes no sense.
THEOREM EndsHaveReasons == Spec => []ConnectionsEndForAReason
<1>1. ControlInv => ConnectionsEndForAReason
  BY DEF ControlInv, Controlled, ConnectionsEndForAReason
<1> QED BY <1>1, InitTypes, StepTypes, InitControl, StepControl, PTL DEF Spec

----------------------------------------------------------------------------
(* The stream from the topic to the socket.                                *)

\* What line has of the entries N that have been read, for a filter that has
\* been each of F.
Faithful(line, N, F) ==
    LET updates == {i \in DOMAIN line : line[i].what = "update"}
        streamed == {line[i].n : i \in updates}
    IN  /\ \A i, j \in updates :
              i < j /\ Part(line[i].n) = Part(line[j].n) => line[i].n < line[j].n
        /\ streamed \subseteq {n \in N : \E f \in F : Passes(f, n)}
        /\ {n \in N : \A f \in F : Passes(f, n)} \subseteq streamed

NoUpdates(line) == \A i \in DOMAIN line : line[i].what # "update"

\* For each connection: before its consumer runs it has been sent nothing
\* live, and from then on what is on its way or written is faithful.
Streaming(c) ==
    /\ phase[c] \in Early => outbox[c] = <<>> /\ NoUpdates(sent[c])
    /\ filter[c] \in filters[c] /\ \A p \in Partitions : start[c][p] <= pos[c][p]
    /\ Working(c) /\ c \notin gone
          => Faithful(sent[c] \o outbox[c], Between(start[c], pos[c]), filters[c])

StreamInv == \A c \in Conns : Streaming(c)

LEMMA LineFacts ==
    ASSUME NEW line \in Seq(Messages), NEW m \in Messages
    PROVE  /\ Len(line) \in Nat /\ DOMAIN line = 1..Len(line)
           /\ DOMAIN Append(line, m) = 1 .. Len(line) + 1
           /\ Append(line, m)[Len(line) + 1] = m
           /\ \A i \in 1..Len(line) : Append(line, m)[i] = line[i]
           /\ \A i \in 1..Len(line) : line[i].n \in Nat
<1>1. \A x \in Messages : x.n \in Nat
  BY CapIsPositive DEF Messages
<1> QED BY <1>1

\* Nothing is on its way yet.
LEMMA FaithfulNone ==
    ASSUME NEW line \in Seq(Messages), NoUpdates(line), NEW F
    PROVE  Faithful(line, {}, F)
<1>1. {i \in DOMAIN line : line[i].what = "update"} = {}
  BY DEF NoUpdates
<1> QED BY <1>1 DEF Faithful

\* Something else is put in the line.
LEMMA FaithfulOther ==
    ASSUME NEW line \in Seq(Messages), NEW m \in Messages, m.what # "update",
           NEW N, NEW F, Faithful(line, N, F)
    PROVE  Faithful(Append(line, m), N, F)
<1> DEFINE longer == Append(line, m)
           updates == {i \in DOMAIN line : line[i].what = "update"}
           after == {i \in DOMAIN longer : longer[i].what = "update"}
<1>1. /\ Len(line) \in Nat /\ DOMAIN line = 1..Len(line)
      /\ DOMAIN longer = 1 .. Len(line) + 1
      /\ longer[Len(line) + 1] = m
      /\ \A i \in 1..Len(line) : longer[i] = line[i]
  BY LineFacts
<1> HIDE DEF longer
<1>2. after = updates
  BY <1>1
<1>3. \A i \in updates : longer[i] = line[i]
  BY <1>1
<1>4. {longer[i].n : i \in after} = {line[i].n : i \in updates}
  BY <1>2, <1>3
<1>5. \A i, j \in after :
         i < j /\ Part(longer[i].n) = Part(longer[j].n) => longer[i].n < longer[j].n
  BY <1>2, <1>3 DEF Faithful
<1> QED BY <1>4, <1>5 DEF Faithful, longer

\* The filter has been something more.
LEMMA FaithfulMore ==
    ASSUME NEW line, NEW N, NEW F, NEW G, F \subseteq G, Faithful(line, N, F)
    PROVE  Faithful(line, N, G)
BY DEF Faithful

\* Another entry is held back.
LEMMA FaithfulHeld ==
    ASSUME NEW line, NEW N, NEW k, NEW F, Faithful(line, N, F), NEW f \in F, ~Passes(f, k)
    PROVE  Faithful(line, N \cup {k}, F)
<1>1. {n \in N : \E g \in F : Passes(g, n)} \subseteq {n \in N \cup {k} : \E g \in F : Passes(g, n)}
  OBVIOUS
<1>2. {n \in N \cup {k} : \A g \in F : Passes(g, n)} \subseteq {n \in N : \A g \in F : Passes(g, n)}
  OBVIOUS
<1> QED BY <1>1, <1>2 DEF Faithful

\* Another entry, newer than what was read of its partition, is put in the
\* line after everything that is in it.
LEMMA FaithfulNext ==
    ASSUME NEW line \in Seq(Messages), NEW N \in SUBSET Nat, NEW F, Faithful(line, N, F),
           NEW k \in Nat, \A n \in N : Part(n) = Part(k) => n < k,
           NEW f \in F, Passes(f, k), Update(k) \in Messages
    PROVE  Faithful(Append(line, Update(k)), N \cup {k}, F)
<1> DEFINE m == Update(k)
           longer == Append(line, m)
           last == Len(line) + 1
           updates == {i \in DOMAIN line : line[i].what = "update"}
           after == {i \in DOMAIN longer : longer[i].what = "update"}
           streamed == {line[i].n : i \in updates}
<1>1. m.what = "update" /\ m.n = k
  BY DEF Update
<1> HIDE DEF m
<1>2. /\ Len(line) \in Nat /\ DOMAIN line = 1..Len(line)
      /\ DOMAIN longer = 1 .. last
      /\ longer[last] = m
      /\ \A i \in 1..Len(line) : longer[i] = line[i]
  BY LineFacts DEF m
<1> HIDE DEF longer
<1>3. last \notin updates /\ \A i \in updates : i \in 1..Len(line) /\ i < last
  BY <1>2
<1>4. after = updates \cup {last}
  BY <1>1, <1>2
<1>5. \A i \in updates : longer[i].n = line[i].n
  BY <1>2, <1>3
<1>6. longer[last].n = k
  BY <1>1, <1>2
<1> HIDE DEF last
<1>7. {longer[i].n : i \in after} = streamed \cup {k}
  <2> HIDE DEF updates, after
  <2> QED BY <1>4, <1>5, <1>6
<1>8. streamed \subseteq {n \in N : \E g \in F : Passes(g, n)}
  BY DEF Faithful
<1>9. \A i \in updates : line[i].n \in N
  <2> TAKE i \in updates
  <2>1. line[i].n \in streamed
    OBVIOUS
  <2> HIDE DEF streamed, updates
  <2> QED BY <1>8, <2>1
<1>10. \A i, j \in after :
          i < j /\ Part(longer[i].n) = Part(longer[j].n) => longer[i].n < longer[j].n
  <2>1. SUFFICES ASSUME NEW i \in after, NEW j \in after, i < j,
                        Part(longer[i].n) = Part(longer[j].n)
                 PROVE  longer[i].n < longer[j].n
    OBVIOUS
  <2>2. last \in Nat /\ \A l \in updates : l \in Nat
    BY <1>2, <1>3 DEF last
  <2>3. CASE i \in updates /\ j \in updates
    <3>1. longer[i].n = line[i].n /\ longer[j].n = line[j].n
      BY <1>5, <2>3
    <3>2. line[i].n < line[j].n
      BY <2>1, <2>3, <3>1 DEF Faithful
    <3> QED BY <3>1, <3>2
  <2>4. CASE i \in updates /\ j = last
    <3>1. longer[i].n = line[i].n /\ longer[j].n = k /\ line[i].n \in N
      BY <1>5, <1>6, <1>9, <2>4
    <3>2. Part(line[i].n) = Part(k)
      BY <2>1, <3>1
    <3> QED BY <3>1, <3>2
  <2>5. i # last
    <3>1. \A l \in after : ~(last < l)
      BY <1>3, <1>4, <2>2
    <3> QED BY <2>1, <3>1
  <2> QED BY <1>4, <2>1, <2>3, <2>4, <2>5
<1>11. streamed \cup {k} \subseteq {n \in N \cup {k} : \E g \in F : Passes(g, n)}
  <2> HIDE DEF streamed
  <2> QED BY <1>8
<1>12. {n \in N \cup {k} : \A g \in F : Passes(g, n)} \subseteq streamed \cup {k}
  <2>1. {n \in N : \A g \in F : Passes(g, n)} \subseteq streamed
    BY DEF Faithful
  <2> HIDE DEF streamed
  <2> QED BY <2>1
<1> HIDE DEF streamed
<1> QED BY <1>7, <1>10, <1>11, <1>12 DEF Faithful, longer, m

\* The head of the queue is written: the line is the same.
LEMMA LineShifts ==
    ASSUME NEW S, NEW s \in Seq(S), NEW t \in Seq(S), t # <<>>
    PROVE  Append(s, Head(t)) \o Tail(t) = s \o t
<1> DEFINE left == Append(s, Head(t)) \o Tail(t)
           right == s \o t
<1>1. Len(s) \in Nat /\ Len(t) \in Nat /\ Len(t) # 0
  OBVIOUS
<1>2. Head(t) = t[1] /\ Tail(t) \in Seq(S) /\ Len(Tail(t)) = Len(t) - 1
  OBVIOUS
<1>3. Append(s, Head(t)) \in Seq(S) /\ Len(Append(s, Head(t))) = Len(s) + 1
  BY <1>2
<1>4. left \in Seq(S) /\ Len(left) = Len(s) + Len(t)
  BY <1>1, <1>2, <1>3
<1>5. right \in Seq(S) /\ Len(right) = Len(s) + Len(t)
  BY <1>1
<1>6. ASSUME NEW i \in 1 .. Len(s) + Len(t) PROVE left[i] = right[i]
  <2>1. CASE i <= Len(s)
    <3>1. left[i] = s[i]
      BY <1>1, <1>2, <1>3, <2>1
    <3> QED BY <1>1, <2>1, <3>1
  <2>2. CASE i = Len(s) + 1
    <3>1. left[i] = Head(t)
      BY <1>1, <1>2, <1>3, <2>2
    <3> QED BY <1>1, <1>2, <2>2, <3>1
  <2>3. CASE i > Len(s) + 1
    <3>1. left[i] = Tail(t)[i - (Len(s) + 1)]
      BY <1>1, <1>2, <1>3, <2>3
    <3>2. i - (Len(s) + 1) \in 1..Len(Tail(t)) /\ i - (Len(s) + 1) + 1 = i - Len(s)
      BY <1>1, <1>2, <2>3
    <3>3. Tail(t)[i - (Len(s) + 1)] = t[i - Len(s)]
      BY <1>1, <1>2, <3>2
    <3>4. right[i] = t[i - Len(s)]
      BY <1>1, <2>3
    <3> QED BY <3>1, <3>3, <3>4
  <2> QED BY <1>1, <2>1, <2>2, <2>3
<1> HIDE DEF left, right
<1>7. left = right
  BY <1>4, <1>5, <1>6
<1> QED BY <1>7 DEF left, right

\* A message is put in the queue: it is the last of the line.
LEMMA LineGrows ==
    ASSUME NEW s \in Seq(Messages), NEW t \in Seq(Messages), NEW m \in Messages
    PROVE  s \o Append(t, m) = Append(s \o t, m)
<1> DEFINE left == s \o Append(t, m)
           right == Append(s \o t, m)
<1>1. Len(s) \in Nat /\ Len(t) \in Nat /\ Append(t, m) \in Seq(Messages) /\ Len(Append(t, m)) = Len(t) + 1
  OBVIOUS
<1>2. s \o t \in Seq(Messages) /\ Len(s \o t) = Len(s) + Len(t)
  OBVIOUS
<1>3. left \in Seq(Messages) /\ Len(left) = Len(s) + Len(t) + 1
  BY <1>1
<1>4. right \in Seq(Messages) /\ Len(right) = Len(s) + Len(t) + 1
  BY <1>1, <1>2
<1>5. ASSUME NEW i \in 1 .. Len(s) + Len(t) + 1 PROVE left[i] = right[i]
  <2>1. CASE i <= Len(s)
    <3>1. left[i] = s[i] /\ (s \o t)[i] = s[i]
      BY <1>1, <2>1
    <3>2. right[i] = (s \o t)[i]
      BY <1>1, <1>2, <2>1
    <3> QED BY <3>1, <3>2
  <2>2. CASE i > Len(s) /\ i <= Len(s) + Len(t)
    <3>1. left[i] = Append(t, m)[i - Len(s)] /\ (s \o t)[i] = t[i - Len(s)]
      BY <1>1, <2>2
    <3>2. right[i] = (s \o t)[i]
      BY <1>1, <1>2, <2>2
    <3>3. Append(t, m)[i - Len(s)] = t[i - Len(s)]
      BY <1>1, <2>2
    <3> QED BY <3>1, <3>2, <3>3
  <2>3. CASE i = Len(s) + Len(t) + 1
    <3>1. right[i] = m
      BY <1>1, <1>2, <2>3
    <3>2. left[i] = Append(t, m)[Len(t) + 1]
      BY <1>1, <2>3
    <3> QED BY <1>1, <3>1, <3>2
  <2> QED BY <1>1, <2>1, <2>2, <2>3
<1> HIDE DEF left, right
<1>6. left = right
  BY <1>3, <1>4, <1>5
<1> QED BY <1>6 DEF left, right

LEMMA StreamFacts ==
    ASSUME HubTypes, NEW c \in Conns
    PROVE  /\ sent[c] \in Seq(Messages) /\ outbox[c] \in Seq(Messages)
           /\ sent[c] \o outbox[c] \in Seq(Messages)
           /\ start[c] \in [Partitions -> Nat] /\ pos[c] \in [Partitions -> Nat]
           /\ published \in Nat
<1>1. sent[c] \in Seq(Messages) /\ outbox[c] \in Seq(Messages)
  BY DEF HubTypes, TypeOK
<1>2. /\ start[c] \in [Partitions -> 0..published] /\ pos[c] \in [Partitions -> 0..published]
      /\ published \in Nat
  BY DEF HubTypes, TypeOK
<1> QED BY <1>1, <1>2

LEMMA StreamElsewhere ==
    ASSUME NEW d \in Conns, Streaming(d), Untouched(d)
    PROVE  Streaming(d)'
BY DEF Streaming, Untouched, Working

LEMMA StreamGreet ==
    ASSUME HubTypes, NEW c \in Conns, Streaming(c), Accept(c) \/ CopyHistory(c) \/ Replay(c)
    PROVE  Streaming(c)'
<1>1. phase[c] \in Early /\ phase'[c] \in Early /\ outbox' = outbox /\ UNCHANGED streamVars
  BY DEF Accept, CopyHistory, Replay, Early, Goto, HubTypes, TypeOK
<1>2. NoUpdates(sent'[c])
  <2>1. NoUpdates(sent[c])
    BY <1>1 DEF Streaming
  <2>2. CASE CopyHistory(c)
    BY <2>1, <2>2 DEF CopyHistory
  <2>3. ASSUME NEW m \in Messages, m.what # "update", Write(c, m)
        PROVE  NoUpdates(sent'[c])
    <3>1. CASE c \in gone
      BY <2>1, <2>3, <3>1 DEF Write
    <3>2. CASE c \notin gone
      <4>1. sent'[c] = Append(sent[c], m)
        BY <2>3, <3>2 DEF Write, HubTypes, TypeOK
      <4>2. sent[c] \in Seq(Messages)
        BY StreamFacts
      <4>3. /\ Len(sent[c]) \in Nat /\ DOMAIN sent[c] = 1..Len(sent[c])
            /\ DOMAIN Append(sent[c], m) = 1 .. Len(sent[c]) + 1
            /\ Append(sent[c], m)[Len(sent[c]) + 1] = m
            /\ \A i \in 1..Len(sent[c]) : Append(sent[c], m)[i] = sent[c][i]
        BY <4>2, LineFacts
      <4>4. \A i \in 1 .. Len(sent[c]) + 1 : i \in 1..Len(sent[c]) \/ i = Len(sent[c]) + 1
        BY <4>3
      <4> QED BY <2>1, <2>3, <4>1, <4>3, <4>4 DEF NoUpdates
    <3> QED BY <3>1, <3>2
  <2>4. CASE Accept(c)
    <3>1. Snapshot(applied) \in Messages /\ Snapshot(applied).what # "update"
      BY TypeFacts, MessageTypes DEF Snapshot
    <3> QED BY <2>3, <2>4, <3>1 DEF Accept
  <2>5. CASE Replay(c)
    <3>1. replay[c] \in Seq(1..published) /\ replay[c] # <<>>
      BY <2>5, TypeFacts DEF Replay
    <3>2. Head(replay[c]) \in 1..published
      BY <3>1, HeadTail
    <3>3. Past(Head(replay[c])) \in Messages /\ Past(Head(replay[c])).what # "update"
      BY <3>2, TypeFacts, MessageTypes DEF Past
    <3> QED BY <2>3, <2>5, <3>3 DEF Replay
  <2> QED BY <2>2, <2>4, <2>5
<1>3. ~Working(c)'
  BY <1>1 DEF Working, Early
<1> QED BY <1>1, <1>2, <1>3 DEF Streaming, streamVars

LEMMA StreamStart ==
    ASSUME HubTypes, NEW c \in Conns, Streaming(c), Start(c)
    PROVE  Streaming(c)'
<1>1. phase[c] \in Early /\ phase'[c] = "live"
  BY DEF Start, Early, Goto, HubTypes, TypeOK
<1>2. outbox[c] = <<>> /\ NoUpdates(sent[c]) /\ filter[c] \in filters[c]
  BY <1>1 DEF Streaming
<1>3. start'[c] = Ends(published) /\ pos'[c] = Ends(published)
      /\ UNCHANGED <<outbox, sent, filter, filters>>
  BY DEF Start, HubTypes, TypeOK
<1>4. sent[c] \in Seq(Messages) /\ published \in Nat
  BY StreamFacts
<1>5. sent[c] \o outbox[c] = sent[c]
  BY <1>2, <1>4
<1>6. Faithful(sent[c], {}, filters[c])
  BY <1>2, <1>4, FaithfulNone
<1>7. Between(start'[c], pos'[c]) = {}
  <2>1. \A n \in 1..Len(Feed) : ~(Ends(published)[Part(n)] < n /\ n <= Ends(published)[Part(n)])
    BY <1>4, PartTypes DEF Ends
  <2> QED BY <1>3, <2>1 DEF Between
<1>8. \A p \in Partitions : start'[c][p] <= pos'[c][p]
  BY <1>3, <1>4 DEF Ends
<1> QED BY <1>1, <1>2, <1>3, <1>5, <1>6, <1>7, <1>8 DEF Streaming, Early

LEMMA StreamReturn ==
    ASSUME HubTypes, NEW c \in Conns, Streaming(c),
           GreetingFails(c) \/ StartFails(c) \/ End(c) \/ EndFails(c)
    PROVE  Streaming(c)'
<1>1. Return(c)
  BY DEF GreetingFails, StartFails, End, EndFails
<1>2. /\ phase'[c] = "closed" /\ filter'[c] = None /\ filters'[c] = {None}
      /\ start'[c] = Ends(0) /\ pos'[c] = Ends(0)
  BY <1>1 DEF Return, Goto, HubTypes, TypeOK
<1>3. \A p \in Partitions : start'[c][p] <= pos'[c][p]
  BY <1>2 DEF Ends
<1> QED BY <1>2, <1>3 DEF Streaming, Early, Working

\* Reading n, the next of its partition, adds it to what has been read.
LEMMA StreamReads ==
    ASSUME HubTypes, NEW c \in Conns, Streaming(c), NEW n \in 1..published, NextOf(c, n),
           pos'[c] = [pos[c] EXCEPT ![Part(n)] = n]
    PROVE  /\ Between(start[c], pos'[c]) = Between(start[c], pos[c]) \cup {n}
           /\ \A m \in Between(start[c], pos[c]) : Part(m) = Part(n) => m < n
           /\ \A p \in Partitions : pos[c][p] <= pos'[c][p]
           /\ pos[c][Part(n)] < n
<1>1. /\ start[c] \in [Partitions -> Nat] /\ pos[c] \in [Partitions -> Nat]
      /\ n \in 1..Len(Feed) /\ n \in Nat /\ Part(n) \in Partitions
      /\ \A m \in 1..Len(Feed) : m \in Nat /\ Part(m) \in Partitions
  BY StreamFacts, TypeFacts, PartTypes
<1>2. pos[c][Part(n)] < n /\ start[c][Part(n)] < n
  <2>1. n \in 1..n /\ ~(n <= pos[c][Part(n)])
    BY <1>1 DEF NextOf
  <2>2. pos[c][Part(n)] \in Nat /\ start[c][Part(n)] \in Nat /\ start[c][Part(n)] <= pos[c][Part(n)]
    BY <1>1 DEF Streaming
  <2> QED BY <1>1, <2>1, <2>2
<1>3. ASSUME NEW m \in 1..Len(Feed)
      PROVE  m <= pos'[c][Part(m)] <=> m <= pos[c][Part(m)] \/ m = n
  <2>1. CASE Part(m) # Part(n)
    <3>1. pos'[c][Part(m)] = pos[c][Part(m)] /\ m # n
      BY <1>1, <2>1
    <3> QED BY <3>1
  <2>2. CASE Part(m) = Part(n)
    <3>1. pos'[c][Part(m)] = n /\ pos[c][Part(m)] < n /\ pos[c][Part(m)] \in Nat
      BY <1>1, <1>2, <2>2
    <3>2. m \in 1..n /\ m # n => m <= pos[c][Part(m)]
      BY <2>2 DEF NextOf
    <3>3. m \in Nat /\ n \in Nat /\ 1 <= m
      BY <1>1
    <3> QED BY <3>1, <3>2, <3>3
  <2> QED BY <2>1, <2>2
<1>4. \A m \in Between(start[c], pos[c]) : Part(m) = Part(n) => m < n
  <2> SUFFICES ASSUME NEW m \in 1..Len(Feed), m <= pos[c][Part(m)], Part(m) = Part(n)
               PROVE  m < n
    BY DEF Between
  <2> QED BY <1>1, <1>2
<1>5. \A p \in Partitions : pos[c][p] <= pos'[c][p]
  BY <1>1, <1>2
<1>6. Between(start[c], pos'[c]) = Between(start[c], pos[c]) \cup {n}
  BY <1>1, <1>2, <1>3 DEF Between
<1> QED BY <1>2, <1>4, <1>5, <1>6

LEMMA StreamStream ==
    ASSUME HubTypes, NEW c \in Conns, Streaming(c), Stream(c)
    PROVE  Streaming(c)'
<1> DEFINE line == sent[c] \o outbox[c]
           N == Between(start[c], pos[c])
<1>1. /\ Working(c)
      /\ UNCHANGED <<phase, start, filter, filters, sent, gone>>
  BY DEF Stream, HubTypes, TypeOK, clientVars
<1>2. PICK n \in 1..published :
         /\ NextOf(c, n) /\ pos'[c] = [pos[c] EXCEPT ![Part(n)] = n]
         /\ IF Passes(filter[c], n) THEN Put(c, Update(n)) ELSE UNCHANGED outbox
  BY DEF Stream, HubTypes, TypeOK
<1>3. /\ Between(start[c], pos'[c]) = N \cup {n}
      /\ \A m \in N : Part(m) = Part(n) => m < n
      /\ \A p \in Partitions : pos[c][p] <= pos'[c][p]
  BY <1>2, StreamReads
<1>4. /\ filter[c] \in filters[c] /\ N \in SUBSET Nat /\ n \in Nat
      /\ sent[c] \in Seq(Messages) /\ outbox[c] \in Seq(Messages) /\ line \in Seq(Messages)
  <2>1. N \in SUBSET Nat
    BY DEF Between
  <2> HIDE DEF N
  <2> QED BY <2>1, StreamFacts DEF Streaming
<1>5. Update(n) \in Messages
  BY TypeFacts, MessageTypes
<1> HIDE DEF N
<1>6. ASSUME c \notin gone
      PROVE  Faithful(sent[c] \o outbox'[c], N \cup {n}, filters[c])
  <2>1. Faithful(line, N, filters[c])
    BY <1>1, <1>6 DEF Streaming, N
  <2>2. CASE Passes(filter[c], n)
    <3>1. outbox'[c] = Append(outbox[c], Update(n))
      BY <1>2, <2>2 DEF Put, HubTypes, TypeOK
    <3>2. sent[c] \o outbox'[c] = Append(line, Update(n))
      <4>1. sent[c] \o Append(outbox[c], Update(n)) = Append(sent[c] \o outbox[c], Update(n))
        BY <1>4, <1>5, LineGrows
      <4> QED BY <3>1, <4>1
    <3>3. Faithful(Append(line, Update(n)), N \cup {n}, filters[c])
      <4> HIDE DEF line
      <4> QED BY <1>3, <1>4, <1>5, <2>1, <2>2, FaithfulNext
    <3> QED BY <3>2, <3>3
  <2>3. CASE ~Passes(filter[c], n)
    <3>1. outbox'[c] = outbox[c]
      BY <1>2, <2>3
    <3>2. Faithful(line, N \cup {n}, filters[c])
      BY <1>4, <2>1, <2>3, FaithfulHeld
    <3> QED BY <3>1, <3>2
  <2> QED BY <2>2, <2>3
<1>7. \A p \in Partitions : start'[c][p] <= pos'[c][p]
  <2>1. /\ start[c] \in [Partitions -> Nat] /\ pos[c] \in [Partitions -> Nat]
        /\ \A p \in Partitions : start[c][p] <= pos[c][p]
    BY StreamFacts DEF Streaming
  <2>2. \A p \in Partitions : pos'[c][p] \in Nat
    BY <1>2, <1>4, <2>1
  <2> QED BY <1>1, <1>3, <2>1, <2>2
<1>8. phase[c] \notin Early
  BY <1>1 DEF Working, Early
<1>9. c \notin gone' => Faithful(sent'[c] \o outbox'[c], Between(start'[c], pos'[c]), filters'[c])
  BY <1>1, <1>3, <1>6
<1> QED BY <1>1, <1>4, <1>7, <1>8, <1>9 DEF Streaming

LEMMA StreamSend ==
    ASSUME HubTypes, NEW c \in Conns, Streaming(c), Send(c)
    PROVE  Streaming(c)'
<1>1. /\ Working(c) /\ outbox[c] # <<>> /\ outbox'[c] = Tail(outbox[c])
      /\ UNCHANGED <<start, pos, filter, filters, gone>>
  BY DEF Send, HubTypes, TypeOK, clientVars, streamVars
<1>2. phase'[c] \notin Early
  BY <1>1 DEF Send, Working, Early, Goto, HubTypes, TypeOK
<1>3. sent[c] \in Seq(Messages) /\ outbox[c] \in Seq(Messages)
  BY StreamFacts
<1>4. ASSUME c \notin gone
      PROVE  sent'[c] \o outbox'[c] = sent[c] \o outbox[c]
  <2>1. sent'[c] = Append(sent[c], Head(outbox[c]))
    BY <1>4 DEF Send, Write, HubTypes, TypeOK
  <2> QED BY <1>1, <1>3, <2>1, LineShifts
<1>5. c \notin gone => Faithful(sent[c] \o outbox[c], Between(start[c], pos[c]), filters[c])
  BY <1>1 DEF Streaming
<1> QED BY <1>1, <1>2, <1>4, <1>5 DEF Streaming

LEMMA StreamBeat ==
    ASSUME HubTypes, NEW c \in Conns, Streaming(c), Beat(c)
    PROVE  Streaming(c)'
<1>1. /\ phase[c] = "live" /\ outbox'[c] = Append(outbox[c], Heartbeat)
      /\ UNCHANGED <<phase, sent, start, pos, filter, filters, gone>>
  BY DEF Beat, Put, HubTypes, TypeOK, clientVars, streamVars
<1>2. /\ sent[c] \in Seq(Messages) /\ outbox[c] \in Seq(Messages)
      /\ sent[c] \o outbox[c] \in Seq(Messages)
  BY StreamFacts
<1>3. Heartbeat \in Messages /\ Heartbeat.what # "update"
  BY MessageTypes DEF Heartbeat
<1>4. sent[c] \o outbox'[c] = Append(sent[c] \o outbox[c], Heartbeat)
  <2>1. sent[c] \o Append(outbox[c], Heartbeat) = Append(sent[c] \o outbox[c], Heartbeat)
    BY <1>2, <1>3, LineGrows
  <2> QED BY <1>1, <2>1
<1>5. ASSUME c \notin gone
      PROVE  Faithful(sent[c] \o outbox'[c], Between(start[c], pos[c]), filters[c])
  <2>1. Faithful(sent[c] \o outbox[c], Between(start[c], pos[c]), filters[c])
    BY <1>1, <1>5 DEF Streaming, Working
  <2>2. Faithful(Append(sent[c] \o outbox[c], Heartbeat), Between(start[c], pos[c]), filters[c])
    BY <1>2, <1>3, <2>1, FaithfulOther
  <2> QED BY <1>4, <2>2
<1>6. phase[c] \notin Early
  BY <1>1 DEF Early
<1> QED BY <1>1, <1>5, <1>6 DEF Streaming

LEMMA StreamReceive ==
    ASSUME HubTypes, NEW c \in Conns, Streaming(c), Receive(c)
    PROVE  Streaming(c)'
<1>1. phase[c] = "live" /\ UNCHANGED <<start, pos, outbox, sent, gone>>
  BY DEF Receive
<1>2. /\ phase'[c] \in {"live", "ending"}
      /\ filter'[c] \in filters'[c] /\ filters[c] \subseteq filters'[c]
  <2>1. \/ UNCHANGED phase /\ \E f \in Flights \cup {None} : Subscribe(c, f)
        \/ UNCHANGED <<phase, filter, filters>>
        \/ Goto(c, "ending") /\ UNCHANGED <<filter, filters>>
    BY HeedCases
  <2>2. phase'[c] \in {"live", "ending"}
    BY <1>1, <2>1 DEF Goto, HubTypes, TypeOK
  <2>3. filter'[c] \in filters'[c] /\ filters[c] \subseteq filters'[c]
    BY <2>1 DEF Streaming, Subscribe, HubTypes, TypeOK
  <2> QED BY <2>2, <2>3
<1>3. ASSUME c \notin gone
      PROVE  Faithful(sent[c] \o outbox[c], Between(start[c], pos[c]), filters'[c])
  <2>1. Faithful(sent[c] \o outbox[c], Between(start[c], pos[c]), filters[c])
    BY <1>1, <1>3 DEF Streaming, Working
  <2> QED BY <1>2, <2>1, FaithfulMore
<1>4. phase'[c] \notin Early
  BY <1>2 DEF Early
<1> QED BY <1>1, <1>2, <1>3, <1>4 DEF Streaming

LEMMA StreamLeave ==
    ASSUME HubTypes, NEW c \in Conns, Streaming(c), Leave(c)
    PROVE  Streaming(c)'
<1>1. /\ UNCHANGED <<phase, outbox, start, pos, filter, filters>>
      /\ c \in gone' /\ sent'[c] = <<>>
  BY DEF Leave, HubTypes, TypeOK, streamVars
<1>2. NoUpdates(sent'[c])
  BY <1>1 DEF NoUpdates
<1> QED BY <1>1, <1>2 DEF Streaming

LEMMA StreamRest ==
    ASSUME HubTypes, NEW c \in Conns, Streaming(c),
           Disconnected(c) \/ StreamFails(c) \/ \E frame \in Frames[c] : Say(c, frame)
    PROVE  Streaming(c)'
<1>1. UNCHANGED <<start, pos, filter, filters, sent, outbox, gone>>
  BY DEF Disconnected, StreamFails, Say, streamVars, clientVars
<1>2. \/ phase[c] = "live" /\ phase'[c] = "ending"
      \/ phase' = phase
  BY DEF Disconnected, StreamFails, Say, Goto, HubTypes, TypeOK
<1> QED BY <1>1, <1>2 DEF Streaming, Working, Early

LEMMA StepStream == HubTypes /\ StreamInv /\ [Next]_vars => StreamInv'
<1> SUFFICES ASSUME HubTypes, StreamInv, [Next]_vars, NEW d \in Conns PROVE Streaming(d)'
  BY DEF StreamInv
<1>1. Streaming(d)
  BY DEF StreamInv
<1>2. CASE Apply \/ Publish \/ UNCHANGED vars
  BY <1>1, <1>2, TopicElsewhere, StreamElsewhere
<1>3. ASSUME NEW c \in Conns,
             \/ Accept(c) \/ CopyHistory(c) \/ Replay(c) \/ GreetingFails(c) \/ Start(c)
             \/ Stream(c) \/ Send(c) \/ Receive(c) \/ Disconnected(c) \/ End(c)
             \/ Beat(c)
             \/ StartFails(c) \/ StreamFails(c) \/ EndFails(c)
             \/ Leave(c) \/ \E frame \in Frames[c] : Say(c, frame)
      PROVE  Streaming(d)'
  <2>1. CASE d = c
    BY <1>1, <1>3, <2>1, StreamGreet, StreamStart, StreamReturn, StreamStream, StreamSend,
       StreamBeat, StreamReceive, StreamLeave, StreamRest
  <2>2. CASE d # c
    <3>1. Untouched(d)
      BY <1>3, <2>2, ReturnElsewhere, WorkElsewhere, ClientElsewhere
    <3> QED BY <1>1, <3>1, StreamElsewhere
  <2> QED BY <2>1, <2>2
<1> QED BY <1>2, <1>3, NextCases

LEMMA InitStream == Init => StreamInv
<1> SUFFICES ASSUME Init, NEW c \in Conns PROVE Streaming(c)
  BY DEF StreamInv
<1>1. /\ phase[c] = "idle" /\ outbox[c] = <<>> /\ sent[c] = <<>>
      /\ filter[c] = None /\ filters[c] = {None}
      /\ \A p \in Partitions : start[c][p] <= pos[c][p]
  BY DEF Init, Ends
<1>2. NoUpdates(sent[c])
  BY <1>1 DEF NoUpdates
<1> QED BY <1>1, <1>2 DEF Streaming, Early, Working

\* What a client gets live is the topic from where its consumer started, each
\* partition in its order, nothing twice and nothing missing but what its
\* filter held back, in whatever order the partitions are read, whatever else
\* is queued and however often the filter changes.
THEOREM StreamsAreFaithful == Spec => []StreamIsFaithful
<1>1. StreamInv => StreamIsFaithful
  <2>1. SUFFICES ASSUME StreamInv, NEW c \in Conns, Working(c), c \notin gone
                 PROVE  Faithful(sent[c] \o outbox[c], Between(start[c], pos[c]), filters[c])
    BY DEF StreamIsFaithful, Faithful
  <2> QED BY <2>1 DEF StreamInv, Streaming
<1> QED BY <1>1, InitTypes, StepTypes, InitStream, StepStream, PTL DEF Spec
=============================================================================
