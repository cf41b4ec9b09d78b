----------------------- MODULE PersistencePool_proofs -----------------------
(***************************************************************************)
(* Proofs about PersistencePool, for any number of workers, partitions,    *)
(* messages, retry attempts and faults.                                    *)
(***************************************************************************)
EXTENDS PersistencePool, FiniteSetTheorems, TLAPS

\* A message in hand exists whenever a label needs one.
HandOK == \A w \in Workers : /\ pc[w] \in Busy <=> cur[w] # None
                             /\ pc[w] = "deadletter" => error[w] # None

TypeInv == TypeOK /\ HandOK

\* Messages are pairs of a partition and an offset of its log; each holds
\* an event, which has an idempotency key.
LEMMA MessageFacts ==
    ASSUME NEW m \in Messages
    PROVE  /\ m[1] \in Partitions
           /\ m[2] \in 1..Len(Log[m[1]])
           /\ m = <<m[1], m[2]>>
           /\ EventOf(m) \in Event
           /\ IdemKey(m) \in Flights \X Nat
<1>1. PICK p \in Partitions : m \in {p} \X (1..Len(Log[p]))
  BY DEF Messages
<1>2. m[1] = p /\ m[2] \in 1..Len(Log[p]) /\ m = <<m[1], m[2]>>
  BY <1>1
<1>3. EventOf(m) \in Event
  BY <1>2, LogAssumption DEF EventOf
<1>4. IdemKey(m) \in Flights \X Nat
  BY <1>3 DEF IdemKey, Event
<1> QED BY <1>2, <1>3, <1>4

LEMMA OffsetIsMessage ==
    ASSUME NEW p \in Partitions, NEW n \in 1..Len(Log[p])
    PROVE  <<p, n>> \in Messages
  BY DEF Messages

LEMMA TypeInit == Init => TypeInv
  BY NoneAssumption, BoundsAssumption
  DEF Init, TypeInv, TypeOK, HandOK, Busy, Gone, Event

\* The transaction keeps the tables well typed.
LEMMA WriteEventsType ==
    ASSUME TypeOK, NEW e \in Event, WriteEvents(e)
    PROVE  rows' \subseteq Event /\ active' \in [FlightKeys -> Event \cup {None}]
  BY DEF TypeOK, WriteEvents, Event

LEMMA PublishType ==
    ASSUME TypeOK, NEW m \in Messages, Publish(m)
    PROVE  forwarded' \in [Partitions -> Seq(Nat)]
<1>1. m[1] \in Partitions /\ m[2] \in Nat
  BY MessageFacts, LogAssumption
<1>2. forwarded[m[1]] \in Seq(Nat)
  BY <1>1 DEF TypeOK
<1>3. Append(forwarded[m[1]], m[2]) \in Seq(Nat)
  BY <1>1, <1>2
<1> QED BY <1>1, <1>3 DEF TypeOK, Publish

\* What a call leaves alone keeps its type; a call in progress has a message.
LEMMA HandInProgress ==
    ASSUME TypeInv, NEW w \in Workers, pc[w] \in Busy
    PROVE  cur[w] \in Messages
  BY DEF TypeInv, TypeOK, HandOK

\* Goto, Fail and RetryOrFail keep the coroutine state well typed.
LEMMA GotoType ==
    ASSUME TypeInv, NEW w \in Workers, NEW l \in Busy,
           pc[w] \in Busy, Advance(w, l), l # "deadletter"
    PROVE  /\ pc' \in [Workers -> {"idle"} \cup Busy \cup Gone]
           /\ cur' \in [Workers -> Messages \cup {None}]
           /\ attempt' \in [Workers -> 1..MaxAttempts]
           /\ error' \in [Workers -> Reasons \cup {None}]
           /\ HandOK'
  BY BoundsAssumption DEF TypeInv, TypeOK, HandOK, Advance, Goto

LEMMA FailType ==
    ASSUME TypeInv, NEW w \in Workers, NEW r \in Reasons,
           pc[w] \in Busy, RetryOrFail(w, r) \/ Fail(w, r)
    PROVE  /\ pc' \in [Workers -> {"idle"} \cup Busy \cup Gone]
           /\ cur' \in [Workers -> Messages \cup {None}]
           /\ attempt' \in [Workers -> 1..MaxAttempts]
           /\ error' \in [Workers -> Reasons \cup {None}]
           /\ HandOK'
<1>1. "deadletter" \in Busy /\ r # None
  BY NoneAssumption DEF Busy
<1>2. CASE Fail(w, r)
  BY <1>1, <1>2, BoundsAssumption DEF TypeInv, TypeOK, HandOK, Fail, Goto
<1>3. CASE Retry(w)
  BY <1>3, BoundsAssumption DEF TypeInv, TypeOK, HandOK, Retry, MayRetry
<1> QED BY <1>2, <1>3 DEF RetryOrFail

\* A label that needs a message is one of Busy.
LEMMA BusyLabels ==
    /\ "check" \in Busy /\ "write" \in Busy /\ "forward" \in Busy
    /\ "remember" \in Busy /\ "deadletter" \in Busy /\ "commit" \in Busy
    /\ "idle" \notin Busy /\ "down" \notin Busy /\ "dead" \notin Busy
  BY DEF Busy

LEMMA TypeStep == TypeInv /\ [Next]_vars => TypeInv'
<1> SUFFICES ASSUME TypeInv, [Next]_vars PROVE TypeInv'
  OBVIOUS
<1> USE DEF groupVars, storeVars
<1>1. ASSUME NEW w \in Workers, NEW p \in Partitions, Fetch(w, p)
      PROVE  TypeInv'
  <2> DEFINE m == <<p, pos[p] + 1>>
  <2>1. pos[p] \in Nat /\ pos[p] + 1 \in 1..Len(Log[p])
    BY <1>1, LogAssumption DEF Fetch, TypeInv, TypeOK
  <2>2. m \in Messages /\ m # None
    BY <2>1, OffsetIsMessage, NoneAssumption
  <2>3. /\ cur' = [cur EXCEPT ![w] = m]
        /\ pos' = [pos EXCEPT ![p] = @ + 1]
        /\ \/ pc' = [pc EXCEPT ![w] = "check"] /\ error' = error
           \/ /\ pc' = [pc EXCEPT ![w] = "deadletter"]
              /\ error' = [error EXCEPT ![w] = "parse"]
        /\ UNCHANGED <<attempt, owner, committed, storeVars, faults>>
    BY <1>1 DEF Fetch
  <2>4. "parse" \in Reasons /\ "parse" # None
    BY NoneAssumption DEF Reasons
  <2>5. /\ pc' \in [Workers -> {"idle"} \cup Busy \cup Gone]
        /\ error' \in [Workers -> Reasons \cup {None}]
    BY <2>3, <2>4, BusyLabels DEF TypeInv, TypeOK
  <2>7. /\ cur' \in [Workers -> Messages \cup {None}]
        /\ pos' \in [Partitions -> Nat]
    BY <2>1, <2>2, <2>3 DEF TypeInv, TypeOK
  <2>8. TypeOK'
    BY <2>3, <2>5, <2>7 DEF TypeInv, TypeOK
  <2>6. HandOK'
    BY <2>2, <2>3, <2>4, BusyLabels DEF TypeInv, TypeOK, HandOK
  <2> QED BY <2>6, <2>8 DEF TypeInv
<1>2. ASSUME NEW w \in Workers,
             CacheHit(w) \/ CacheMiss(w)
      PROVE  TypeInv'
  BY <1>2, GotoType, BusyLabels DEF CacheHit, CacheMiss, TypeInv, TypeOK
<1>3. ASSUME NEW w \in Workers, Write(w) PROVE TypeInv'
  <2>1. EventOf(cur[w]) \in Event
    BY <1>3, HandInProgress, MessageFacts, BusyLabels DEF Write
  <2> QED
    BY <1>3, <2>1, GotoType, WriteEventsType, BusyLabels
    DEF Write, TypeInv, TypeOK
<1>4. ASSUME NEW w \in Workers, Forward(w) \/ Remember(w)
      PROVE  TypeInv'
  <2>1. cur[w] \in Messages /\ pc[w] \in Busy
    BY <1>4, HandInProgress, BusyLabels DEF Forward, Remember
  <2>2. /\ IdemKey(cur[w]) \in Flights \X Nat
        /\ cur[w][1] \in Partitions /\ cur[w][2] \in Nat
    BY <2>1, MessageFacts, LogAssumption
  <2>3. CASE Forward(w)
    BY <2>1, <2>3, GotoType, PublishType, BusyLabels
    DEF Forward, TypeInv, TypeOK
  <2>4. CASE Remember(w)
    BY <2>1, <2>2, <2>4, GotoType, BusyLabels DEF Remember, TypeInv, TypeOK
  <2> QED BY <1>4, <2>3, <2>4
<1>5. ASSUME NEW w \in Workers, DeadLetter(w) \/ DeadLetterFails(w)
      PROVE  TypeInv'
  <2>1. cur[w] \in Messages /\ pc[w] \in Busy /\ error[w] \in Reasons
    BY <1>5, HandInProgress, BusyLabels
    DEF DeadLetter, DeadLetterFails, TypeInv, TypeOK, HandOK
  <2>2. Advance(w, "commit")
    BY <1>5 DEF DeadLetter, DeadLetterFails
  <2>3. /\ pc' \in [Workers -> {"idle"} \cup Busy \cup Gone]
        /\ cur' \in [Workers -> Messages \cup {None}]
        /\ attempt' \in [Workers -> 1..MaxAttempts]
        /\ error' \in [Workers -> Reasons \cup {None}]
        /\ HandOK'
    BY <2>1, <2>2, GotoType, BusyLabels
  <2>4. /\ dlq' \subseteq [msg : Messages, reason : Reasons]
        /\ dropped' \subseteq Messages
        /\ UNCHANGED <<groupVars, rows, active, idem, forwarded>>
    BY <1>5, <2>1 DEF DeadLetter, DeadLetterFails, TypeInv, TypeOK
  <2>5. faults' \in 0..MaxFaults
    BY <1>5, BoundsAssumption
    DEF DeadLetter, DeadLetterFails, Fault, TypeInv, TypeOK
  <2> QED BY <2>3, <2>4, <2>5 DEF TypeInv, TypeOK
<1>6. ASSUME NEW w \in Workers,
             CacheFails(w) \/ WriteFails(w) \/ ForwardFails(w) \/ RememberFails(w)
      PROVE  TypeInv'
  <2>1. cur[w] \in Messages /\ pc[w] \in Busy
    BY <1>6, HandInProgress, BusyLabels
    DEF CacheFails, WriteFails, ForwardFails, RememberFails
  <2>2. /\ EventOf(cur[w]) \in Event /\ IdemKey(cur[w]) \in Flights \X Nat
        /\ cur[w][1] \in Partitions /\ cur[w][2] \in Nat
    BY <2>1, MessageFacts, LogAssumption
  <2>3. \E r \in Reasons : RetryOrFail(w, r) \/ Fail(w, r)
    BY <1>6 DEF CacheFails, WriteFails, ForwardFails, RememberFails, Reasons
  <2>4. /\ pc' \in [Workers -> {"idle"} \cup Busy \cup Gone]
        /\ cur' \in [Workers -> Messages \cup {None}]
        /\ attempt' \in [Workers -> 1..MaxAttempts]
        /\ error' \in [Workers -> Reasons \cup {None}]
        /\ HandOK'
    BY <2>1, <2>3, FailType
  <2>5. faults' \in 0..MaxFaults /\ UNCHANGED <<owner, pos, committed>>
    BY <1>6, BoundsAssumption
    DEF CacheFails, WriteFails, ForwardFails, RememberFails, Fault,
        TypeInv, TypeOK
  <2>6. rows' \subseteq Event /\ active' \in [FlightKeys -> Event \cup {None}]
    BY <1>6, <2>2, WriteEventsType
    DEF CacheFails, WriteFails, ForwardFails, RememberFails, TypeInv, TypeOK
  <2>7. idem' \subseteq Flights \X Nat
    BY <1>6, <2>2
    DEF CacheFails, WriteFails, ForwardFails, RememberFails, TypeInv, TypeOK
  <2>8. forwarded' \in [Partitions -> Seq(Nat)]
    BY <1>6, <2>1, PublishType
    DEF CacheFails, WriteFails, ForwardFails, RememberFails, TypeInv, TypeOK
  <2>9. dlq' = dlq /\ dropped' = dropped
    BY <1>6 DEF CacheFails, WriteFails, ForwardFails, RememberFails
  <2> QED
    BY <2>4, <2>5, <2>6, <2>7, <2>8, <2>9 DEF TypeInv, TypeOK
<1>7. ASSUME NEW w \in Workers, Commit(w) PROVE TypeInv'
  BY <1>7, BusyLabels, BoundsAssumption
  DEF Commit, CommittedBy, LetGo, storeVars, TypeInv, TypeOK, HandOK
<1>8. ASSUME NEW w \in Workers, Crash(w) PROVE TypeInv'
  BY <1>8, BusyLabels, BoundsAssumption
  DEF Crash, LetGo, LeaveGroup, Fault, Gone, TypeInv, TypeOK, HandOK
<1>9. ASSUME NEW w \in Workers, Restart(w) \/ RestartFails(w) PROVE TypeInv'
  <2>1. PICK l \in {"idle", "dead"} : pc' = [pc EXCEPT ![w] = l]
    BY <1>9 DEF Restart, RestartFails
  <2>2. /\ UNCHANGED <<cur, attempt, error, groupVars, storeVars>>
        /\ faults' \in 0..MaxFaults
        /\ pc[w] = "down"
    BY <1>9, BoundsAssumption
    DEF Restart, RestartFails, Fault, TypeInv, TypeOK
  <2>3. TypeOK'
    BY <2>1, <2>2 DEF TypeInv, TypeOK, Gone
  <2>4. HandOK'
    BY <2>1, <2>2, BusyLabels DEF TypeInv, TypeOK, HandOK
  <2> QED BY <2>3, <2>4 DEF TypeInv
<1>10. CASE RebalanceOrphans \/ RebalanceAnew
  <2>1. PICK a \in [Partitions -> Live] : Assign(a)
    BY <1>10 DEF RebalanceOrphans, RebalanceAnew
  <2>2. faults' \in 0..MaxFaults
    BY <1>10, BoundsAssumption
    DEF RebalanceOrphans, RebalanceAnew, Fault, TypeInv, TypeOK
  <2> QED
    BY <2>1, <2>2 DEF Assign, Live, workerVars, TypeInv, TypeOK, HandOK
<1>11. CASE Expire
  BY <1>11, BoundsAssumption
  DEF Expire, Fault, workerVars, TypeInv, TypeOK, HandOK
<1>12. CASE UNCHANGED vars
  BY <1>12 DEF vars, workerVars, TypeInv, TypeOK, HandOK
<1> QED
  BY <1>1, <1>2, <1>3, <1>4, <1>5, <1>6, <1>7, <1>8, <1>9, <1>10, <1>11, <1>12
  DEF Next, Step, Disturb, Recover, Quiescent

LEMMA TypeInvHolds == Spec => []TypeInv
  BY TypeInit, TypeStep, PTL DEF Spec

\* Type correctness of the pool.
THEOREM TypeCorrect == Spec => []TypeOK
<1>1. TypeInv => TypeOK
  BY DEF TypeInv
<1> QED BY <1>1, TypeInvHolds, PTL

----------------------------------------------------------------------------
(* Outcomes are never withdrawn.                                           *)

\* The stores only grow: the last conjunct for the forwarded sequences.
StoresGrow ==
    /\ rows \subseteq rows'
    /\ dlq \subseteq dlq'
    /\ dropped \subseteq dropped'
    /\ \A q \in Partitions :
          \/ forwarded'[q] = forwarded[q]
          \/ \E n \in Nat : forwarded'[q] = Append(forwarded[q], n)

LEMMA PublishGrows ==
    ASSUME TypeOK, NEW m \in Messages, Publish(m), NEW q \in Partitions
    PROVE  \/ forwarded'[q] = forwarded[q]
           \/ \E n \in Nat : forwarded'[q] = Append(forwarded[q], n)
<1>1. m[1] \in Partitions /\ m[2] \in Nat
  BY MessageFacts, LogAssumption
<1> QED BY <1>1 DEF TypeOK, Publish

LEMMA StoresGrowStep == TypeInv /\ [Next]_vars => StoresGrow
<1> SUFFICES ASSUME TypeInv, [Next]_vars PROVE StoresGrow
  OBVIOUS
<1>1. ASSUME UNCHANGED storeVars PROVE StoresGrow
  BY <1>1 DEF storeVars, StoresGrow
<1>2. ASSUME NEW w \in Workers, Write(w) \/ WriteFails(w) PROVE StoresGrow
  BY <1>2 DEF Write, WriteFails, WriteEvents, StoresGrow
<1>3. ASSUME NEW w \in Workers, Forward(w) \/ ForwardFails(w) PROVE StoresGrow
  <2>1. cur[w] \in Messages
    BY <1>3, HandInProgress, BusyLabels DEF Forward, ForwardFails
  <2>2. UNCHANGED <<rows, dlq, dropped>>
    BY <1>3 DEF Forward, ForwardFails
  <2>3. Publish(cur[w]) \/ UNCHANGED forwarded
    BY <1>3 DEF Forward, ForwardFails
  <2> QED BY <2>1, <2>2, <2>3, PublishGrows DEF StoresGrow, TypeInv
<1>4. ASSUME NEW w \in Workers,
             \/ Remember(w) \/ RememberFails(w)
             \/ DeadLetter(w) \/ DeadLetterFails(w)
      PROVE  StoresGrow
  BY <1>4 DEF Remember, RememberFails, DeadLetter, DeadLetterFails, StoresGrow
<1>5. CASE Expire
  BY <1>5 DEF Expire, StoresGrow
<1> QED
  BY <1>1, <1>2, <1>3, <1>4, <1>5
  DEF Next, Step, Disturb, Recover, Quiescent, Fetch, CacheHit, CacheMiss,
      CacheFails, Commit, Crash, Restart, RestartFails, RebalanceOrphans,
      RebalanceAnew, Assign, vars

LEMMA ForwardedStays ==
    ASSUME TypeOK, TypeOK', StoresGrow, NEW m \in Messages, Forwarded(m)
    PROVE  Forwarded(m)'
<1>0. PICK q \in Partitions : \E i \in 1..Len(forwarded[q]) :
         IdemKey(<<q, forwarded[q][i]>>) = IdemKey(m)
  BY DEF Forwarded
<1>1. PICK i \in 1..Len(forwarded[q]) :
         IdemKey(<<q, forwarded[q][i]>>) = IdemKey(m)
  BY <1>0
<1>2. forwarded[q] \in Seq(Nat)
  BY DEF TypeOK
<1>3. i \in 1..Len(forwarded'[q]) /\ forwarded'[q][i] = forwarded[q][i]
  BY <1>2, SMTT(30) DEF StoresGrow
<1> QED BY <1>1, <1>3 DEF Forwarded, IdemKey, EventOf

LEMMA OutcomesStay ==
    ASSUME TypeOK, TypeOK', StoresGrow, NEW m \in Messages
    PROVE  /\ Stored(m) => Stored(m)'
           /\ Forwarded(m) => Forwarded(m)'
           /\ Settled(m) => Settled(m)'
<1>1. Stored(m) => Stored(m)'
  BY DEF Stored, StoresGrow, IdemKey, EventOf
<1>2. Forwarded(m) => Forwarded(m)'
  BY ForwardedStays
<1>3. DeadLettered(m) => DeadLettered(m)'
  BY DEF DeadLettered, StoresGrow
<1> QED BY <1>1, <1>2, <1>3 DEF Settled, StoresGrow

\* What the two effects establish for the message in hand.
LEMMA WriteStores ==
    ASSUME NEW m \in Messages, WriteEvents(EventOf(m))
    PROVE  Stored(m)'
  BY DEF WriteEvents, Stored, RowKey, IdemKey, EventOf

LEMMA PublishForwards ==
    ASSUME TypeOK, NEW m \in Messages, Publish(m)
    PROVE  Forwarded(m)'
<1> DEFINE f == forwarded[m[1]]
<1>1. m[1] \in Partitions /\ m[2] \in Nat /\ m = <<m[1], m[2]>>
  BY MessageFacts, LogAssumption
<1>2. f \in Seq(Nat) /\ forwarded'[m[1]] = Append(f, m[2])
  BY <1>1 DEF TypeOK, Publish
<1>3. Len(f) + 1 \in 1..Len(forwarded'[m[1]]) /\ forwarded'[m[1]][Len(f) + 1] = m[2]
  BY <1>1, <1>2
<1> QED BY <1>1, <1>3 DEF Forwarded, IdemKey, EventOf

----------------------------------------------------------------------------
(* The inductive invariant: what is committed is settled because a commit  *)
(* moves a partition past the message in the owner's hand only, and that   *)
(* message is settled by the time the coroutine reaches its commit.        *)

CommittedInLog == \A p \in Partitions : committed[p] <= Len(Log[p])

IInv ==
    /\ TypeInv
    /\ HandMatchesLabel
    /\ PositionMatchesHand
    /\ CommittedInLog
    /\ CommittedIsSettled
    /\ CacheHitMeansProcessed

LEMMA IInvInit == Init => IInv
  BY TypeInit, BusyLabels, LogAssumption
  DEF Init, IInv, HandMatchesLabel, HandMatches, PositionMatchesHand,
      CommittedInLog, CommittedIsSettled, CacheHitMeansProcessed

\* A message's outcome, seen from the next state through a hand holding it.
LEMMA HandOutcome ==
    ASSUME NEW m \in Messages, NEW w \in Workers, cur'[w] = m
    PROVE  /\ Stored(m)' => Stored(cur[w])'
           /\ Forwarded(m)' => Forwarded(cur[w])'
           /\ Settled(m)' => Settled(cur[w])'
  BY DEF Stored, Forwarded, DeadLettered, Settled, IdemKey, EventOf

\* A worker that did not move still has in hand what its label needs.
LEMMA HandKept ==
    ASSUME TypeInv, TypeInv', StoresGrow, NEW w \in Workers, HandMatches(w),
           pc'[w] = pc[w], cur'[w] = cur[w], error'[w] = error[w]
    PROVE  HandMatches(w)'
<1>1. CASE pc[w] \in Busy
  <2>1. PICK m \in Messages : m = cur[w]
    BY <1>1, HandInProgress
  <2>2. /\ Stored(m) => Stored(m)'
        /\ Forwarded(m) => Forwarded(m)'
        /\ Settled(m) => Settled(m)'
    BY OutcomesStay DEF TypeInv
  <2>3. /\ Stored(m)' => Stored(cur[w])'
        /\ Forwarded(m)' => Forwarded(cur[w])'
        /\ Settled(m)' => Settled(cur[w])'
    BY <2>1, HandOutcome
  <2>4. EventOf(cur[w]).valid => EventOf(cur[w]).valid'
    BY DEF EventOf
  <2> QED BY <2>1, <2>2, <2>3, <2>4 DEF HandMatches
<1>2. CASE pc[w] \notin Busy
  BY <1>2, BusyLabels DEF HandMatches
<1> QED BY <1>1, <1>2

\* An action of w changes no other worker's coroutine.
LEMMA OthersStay ==
    ASSUME NEW w \in Workers, Step(w) \/ Disturb(w) \/ Recover(w), TypeInv,
           NEW v \in Workers, v # w
    PROVE  pc'[v] = pc[v] /\ cur'[v] = cur[v] /\ error'[v] = error[v]
<1>1. ASSUME NEW p \in Partitions, Fetch(w, p)
      PROVE  pc'[v] = pc[v] /\ cur'[v] = cur[v] /\ error'[v] = error[v]
  BY <1>1 DEF Fetch, TypeInv, TypeOK
<1>2. ASSUME NEW l \in Busy, NEW r \in Reasons,
             Advance(w, l) \/ Fail(w, r) \/ RetryOrFail(w, r)
      PROVE  pc'[v] = pc[v] /\ cur'[v] = cur[v] /\ error'[v] = error[v]
  BY <1>2 DEF Advance, Fail, RetryOrFail, Retry, Goto, TypeInv, TypeOK
<1>3. CASE CacheHit(w) \/ CacheMiss(w) \/ Write(w) \/ Forward(w) \/ Remember(w)
              \/ DeadLetter(w) \/ DeadLetterFails(w)
  <2>1. \E l \in Busy : Advance(w, l)
    BY <1>3, BusyLabels
    DEF CacheHit, CacheMiss, Write, Forward, Remember, DeadLetter,
        DeadLetterFails
  <2> QED BY <1>2, <2>1 DEF Reasons
<1>4. CASE CacheFails(w) \/ WriteFails(w) \/ ForwardFails(w) \/ RememberFails(w)
  <2>1. \E r \in Reasons : RetryOrFail(w, r) \/ Fail(w, r)
    BY <1>4 DEF CacheFails, WriteFails, ForwardFails, RememberFails, Reasons
  <2> QED BY <1>2, <2>1, BusyLabels
<1>5. CASE Commit(w) \/ Crash(w) \/ Restart(w) \/ RestartFails(w)
  BY <1>5 DEF Commit, Crash, LetGo, Restart, RestartFails, TypeInv, TypeOK
<1> QED BY <1>1, <1>3, <1>4, <1>5 DEF Step, Disturb, Recover

\* The worker that acted: its next label is justified by the call it made.
LEMMA ActorHand ==
    ASSUME IInv, TypeInv', StoresGrow,
           NEW w \in Workers, Step(w) \/ Disturb(w) \/ Recover(w)
    PROVE  HandMatches(w)'
<1> USE DEF IInv, TypeInv
<1>1. HandMatches(w)
  BY DEF HandMatchesLabel
<1>2. ASSUME NEW p \in Partitions, Fetch(w, p) PROVE HandMatches(w)'
  <2> DEFINE m == <<p, pos[p] + 1>>
  <2>1. pos[p] + 1 \in 1..Len(Log[p])
    BY <1>2, LogAssumption DEF Fetch, TypeOK
  <2>2. m # None
    BY <2>1, OffsetIsMessage, NoneAssumption
  <2>3. /\ cur'[w] = m
        /\ \/ pc'[w] = "check" /\ EventOf(m).valid
           \/ pc'[w] = "deadletter" /\ error'[w] = "parse"
    BY <1>2 DEF Fetch, TypeOK
  <2>4. "parse" # None
    BY NoneAssumption DEF Reasons
  <2>5. EventOf(m).valid => EventOf(cur[w])'.valid
    BY <2>3 DEF EventOf
  <2> HIDE DEF m
  <2> QED BY <2>2, <2>3, <2>4, <2>5, BusyLabels DEF HandMatches
<1>3. ASSUME pc[w] \in Busy, cur'[w] = cur[w]
      PROVE  /\ cur'[w] # None
             /\ EventOf(cur[w]).valid => EventOf(cur[w])'.valid
             /\ Stored(cur[w]) => Stored(cur[w])'
             /\ Forwarded(cur[w]) => Forwarded(cur[w])'
             /\ Settled(cur[w]) => Settled(cur[w])'
  <2>1. PICK m \in Messages : m = cur[w]
    BY <1>3, HandInProgress
  <2>2. /\ Stored(m) => Stored(m)'
        /\ Forwarded(m) => Forwarded(m)'
        /\ Settled(m) => Settled(m)'
    BY OutcomesStay
  <2>3. /\ Stored(m)' => Stored(cur[w])'
        /\ Forwarded(m)' => Forwarded(cur[w])'
        /\ Settled(m)' => Settled(cur[w])'
    BY <1>3, <2>1, HandOutcome
  <2>4. EventOf(cur[w]).valid => EventOf(cur[w])'.valid
    BY <1>3 DEF EventOf
  <2>5. cur'[w] # None
    BY <1>3, <2>1, NoneAssumption
  <2> QED BY <2>1, <2>2, <2>3, <2>4, <2>5
<1>4. ASSUME NEW r \in Reasons, pc[w] \in Busy, Fail(w, r)
      PROVE  HandMatches(w)'
  <2>1. pc'[w] = "deadletter" /\ cur'[w] = cur[w] /\ error'[w] = r /\ r # None
    BY <1>4, NoneAssumption DEF Fail, Goto, TypeOK
  <2> QED BY <1>3, <1>4, <2>1, BusyLabels DEF HandMatches
<1>5. ASSUME pc[w] \in Busy, Retry(w) PROVE HandMatches(w)'
  BY <1>1, <1>5, HandKept DEF Retry
<1>6. CASE CacheFails(w) \/ WriteFails(w) \/ ForwardFails(w) \/ RememberFails(w)
  <2>1. pc[w] \in Busy /\ \E r \in Reasons : RetryOrFail(w, r) \/ Fail(w, r)
    BY <1>6, BusyLabels
    DEF CacheFails, WriteFails, ForwardFails, RememberFails, Reasons
  <2> QED BY <1>4, <1>5, <2>1 DEF RetryOrFail
<1>7. ASSUME NEW l \in Busy \ {"deadletter"}, pc[w] \in Busy, Advance(w, l)
      PROVE  pc'[w] = l /\ cur'[w] = cur[w]
  BY <1>7 DEF Advance, Goto, TypeOK
<1>8. CASE CacheHit(w)
  <2>1. PICK m \in Messages : m = cur[w]
    BY <1>8, HandInProgress, BusyLabels DEF CacheHit
  <2>2. Stored(m) /\ Forwarded(m)
    BY <1>1, <1>8, <2>1 DEF CacheHit, HandMatches, CacheHitMeansProcessed
  <2>3. Settled(cur[w])
    BY <2>1, <2>2 DEF Settled
  <2>4. pc'[w] = "commit" /\ cur'[w] = cur[w] /\ pc[w] \in Busy
    BY <1>7, <1>8, BusyLabels DEF CacheHit
  <2> QED BY <1>3, <2>3, <2>4, BusyLabels DEF HandMatches
<1>9. CASE CacheMiss(w)
  <2>1. pc'[w] = "write" /\ cur'[w] = cur[w] /\ pc[w] \in Busy
    BY <1>7, <1>9, BusyLabels DEF CacheMiss
  <2> QED BY <1>1, <1>3, <1>9, <2>1, BusyLabels DEF HandMatches, CacheMiss
<1>10. CASE Write(w)
  <2>1. pc'[w] = "forward" /\ cur'[w] = cur[w] /\ pc[w] \in Busy
    BY <1>7, <1>10, BusyLabels DEF Write
  <2>2. PICK m \in Messages : m = cur[w]
    BY <2>1, HandInProgress
  <2>3. Stored(m)'
    BY <1>10, <2>2, WriteStores DEF Write
  <2>4. Stored(cur[w])'
    BY <2>1, <2>2, <2>3, HandOutcome
  <2> QED BY <1>1, <1>3, <1>10, <2>1, <2>4, BusyLabels DEF HandMatches, Write
<1>11. CASE Forward(w)
  <2>1. pc'[w] = "remember" /\ cur'[w] = cur[w] /\ pc[w] \in Busy
    BY <1>7, <1>11, BusyLabels DEF Forward
  <2>2. PICK m \in Messages : m = cur[w]
    BY <2>1, HandInProgress
  <2>3. Forwarded(m)'
    BY <1>11, <2>2, PublishForwards DEF Forward
  <2>4. Forwarded(cur[w])'
    BY <2>1, <2>2, <2>3, HandOutcome
  <2> QED BY <1>1, <1>3, <1>11, <2>1, <2>4, BusyLabels DEF HandMatches, Forward
<1>12. CASE Remember(w)
  <2>1. pc'[w] = "commit" /\ cur'[w] = cur[w] /\ pc[w] \in Busy
    BY <1>7, <1>12, BusyLabels DEF Remember
  <2>2. Settled(cur[w])
    BY <1>1, <1>12 DEF HandMatches, Remember, Settled
  <2> QED BY <1>3, <2>1, <2>2, BusyLabels DEF HandMatches
<1>13. CASE DeadLetter(w) \/ DeadLetterFails(w)
  <2>1. pc'[w] = "commit" /\ cur'[w] = cur[w] /\ pc[w] \in Busy
    BY <1>7, <1>13, BusyLabels DEF DeadLetter, DeadLetterFails
  <2>2. DeadLettered(cur[w])' \/ cur'[w] \in dropped'
    <3>1. CASE DeadLetter(w)
      <4> DEFINE d == [msg |-> cur[w], reason |-> error[w]]
      <4>1. d \in dlq' /\ d.msg = cur'[w]
        BY <2>1, <3>1 DEF DeadLetter
      <4> QED BY <4>1 DEF DeadLettered
    <3>2. CASE DeadLetterFails(w)
      BY <2>1, <3>2 DEF DeadLetterFails
    <3> QED BY <1>13, <3>1, <3>2
  <2>3. Settled(cur[w])'
    BY <2>2 DEF Settled
  <2> QED BY <1>3, <2>1, <2>3, BusyLabels DEF HandMatches
<1>14. CASE Commit(w) \/ Crash(w)
  <2>1. pc'[w] \in {"idle", "down"} /\ cur'[w] = None
    BY <1>14 DEF Commit, Crash, LetGo, TypeOK
  <2> QED BY <2>1, BusyLabels DEF HandMatches
<1>15. CASE Restart(w) \/ RestartFails(w)
  <2>1. cur[w] = None
    BY <1>1, <1>15, BusyLabels DEF Restart, RestartFails, HandMatches
  <2>2. pc'[w] \in {"idle", "dead"} /\ cur'[w] = cur[w]
    BY <1>15 DEF Restart, RestartFails, TypeOK
  <2> QED BY <2>1, <2>2, BusyLabels DEF HandMatches
<1> QED
  BY <1>2, <1>6, <1>8, <1>9, <1>10, <1>11, <1>12, <1>13, <1>14, <1>15
  DEF Step, Disturb, Recover

LEMMA HandStep == IInv /\ TypeInv' /\ StoresGrow /\ [Next]_vars => HandMatchesLabel'
<1> SUFFICES ASSUME IInv, TypeInv', StoresGrow, [Next]_vars, NEW v \in Workers
             PROVE  HandMatches(v)'
  BY DEF HandMatchesLabel
<1>1. HandMatches(v) /\ TypeInv
  BY DEF IInv, HandMatchesLabel
<1>2. ASSUME NEW w \in Workers, Step(w) \/ Disturb(w) \/ Recover(w)
      PROVE  HandMatches(v)'
  <2>1. CASE v = w
    BY <1>2, <2>1, ActorHand
  <2>2. CASE v # w
    BY <1>1, <1>2, <2>2, OthersStay, HandKept
  <2> QED BY <2>1, <2>2
<1>3. CASE RebalanceOrphans \/ RebalanceAnew \/ Expire \/ Quiescent
            \/ UNCHANGED vars
  <2>1. UNCHANGED workerVars
    BY <1>3 DEF RebalanceOrphans, RebalanceAnew, Assign, Expire, Quiescent, vars
  <2> QED BY <1>1, <2>1, HandKept DEF workerVars
<1> QED BY <1>2, <1>3 DEF Next

\* Positions follow commits and hands through every group event.
LEMMA PositionStep == IInv /\ [Next]_vars => PositionMatchesHand'
<1> SUFFICES ASSUME IInv, [Next]_vars PROVE PositionMatchesHand'
  OBVIOUS
<1> USE DEF IInv, TypeInv
<1>1. ASSUME NEW w \in Workers, NEW p \in Partitions, Fetch(w, p)
      PROVE  PositionMatchesHand'
  <2> SUFFICES ASSUME NEW q \in Partitions
               PROVE  \/ pos'[q] = committed'[q]
                      \/ /\ owner'[q] # None
                         /\ pos'[q] = committed'[q] + 1
                         /\ pc'[owner'[q]] \in Busy
                         /\ cur'[owner'[q]] = <<q, pos'[q]>>
    BY DEF PositionMatchesHand
  <2>1. \A r \in Partitions : owner[r] = w => pos[r] = committed[r]
    BY <1>1, BusyLabels DEF Fetch, PositionMatchesHand
  <2>2. /\ pos' = [pos EXCEPT ![p] = @ + 1]
        /\ cur' = [cur EXCEPT ![w] = <<p, pos[p] + 1>>]
        /\ owner' = owner /\ committed' = committed /\ owner[p] = w
        /\ pc'[w] \in Busy
        /\ \A v \in Workers \ {w} : pc'[v] = pc[v]
    BY <1>1, BusyLabels DEF Fetch, TypeOK
  <2>3. CASE q = p
    BY <2>1, <2>2, <2>3, NoneAssumption DEF TypeOK
  <2>4. CASE q # p
    <3>1. pos'[q] = pos[q]
      BY <2>2, <2>4 DEF TypeOK
    <3>2. CASE owner[q] = w
      BY <2>1, <2>2, <3>1, <3>2
    <3>3. CASE owner[q] # w
      BY <2>2, <3>1, <3>3 DEF TypeOK, PositionMatchesHand
    <3> QED BY <3>2, <3>3
  <2> QED BY <2>3, <2>4
<1>2. ASSUME UNCHANGED groupVars, NEW w \in Workers,
             \A v \in Workers \ {w} : pc'[v] = pc[v] /\ cur'[v] = cur[v],
             pc[w] \in Busy => pc'[w] \in Busy /\ cur'[w] = cur[w]
      PROVE  PositionMatchesHand'
  <2>1. \A v \in Workers : pc[v] \in Busy => pc'[v] \in Busy /\ cur'[v] = cur[v]
    BY <1>2
  <2> QED BY <1>2, <2>1 DEF groupVars, TypeOK, PositionMatchesHand
<1>3. ASSUME NEW w \in Workers,
             \/ CacheHit(w) \/ CacheMiss(w) \/ Write(w) \/ Forward(w)
             \/ Remember(w) \/ DeadLetter(w) \/ DeadLetterFails(w)
             \/ CacheFails(w) \/ WriteFails(w) \/ ForwardFails(w)
             \/ RememberFails(w) \/ Restart(w) \/ RestartFails(w)
      PROVE  PositionMatchesHand'
  <2>1. UNCHANGED groupVars
    BY <1>3
    DEF CacheHit, CacheMiss, Write, Forward, Remember, DeadLetter,
        DeadLetterFails, CacheFails, WriteFails, ForwardFails, RememberFails,
        Restart, RestartFails
  <2>2. \A v \in Workers \ {w} : pc'[v] = pc[v] /\ cur'[v] = cur[v]
    BY <1>3, OthersStay DEF Step, Disturb, Recover
  <2>3. pc[w] \in Busy => pc'[w] \in Busy /\ cur'[w] = cur[w]
    <3>1. CASE Restart(w) \/ RestartFails(w)
      BY <3>1, BusyLabels DEF Restart, RestartFails
    <3>2. CASE \E l \in Busy : Advance(w, l)
      BY <3>2 DEF Advance, Goto, TypeOK
    <3>3. CASE \E r \in Reasons : RetryOrFail(w, r) \/ Fail(w, r)
      BY <3>3, BusyLabels DEF RetryOrFail, Retry, Fail, Goto, TypeOK
    <3> QED
      BY <1>3, <3>1, <3>2, <3>3, BusyLabels
      DEF CacheHit, CacheMiss, Write, Forward, Remember, DeadLetter,
          DeadLetterFails, CacheFails, WriteFails, ForwardFails,
          RememberFails, Reasons
  <2> QED BY <1>2, <2>1, <2>2, <2>3
<1>4. ASSUME NEW w \in Workers, Commit(w) \/ Crash(w)
      PROVE  PositionMatchesHand'
  <2> SUFFICES ASSUME NEW q \in Partitions
               PROVE  \/ pos'[q] = committed'[q]
                      \/ /\ owner'[q] # None
                         /\ pos'[q] = committed'[q] + 1
                         /\ pc'[owner'[q]] \in Busy
                         /\ cur'[owner'[q]] = <<q, pos'[q]>>
    BY DEF PositionMatchesHand
  <2>1. CASE owner[q] = w
    BY <1>4, <2>1 DEF Commit, CommittedBy, Crash, LeaveGroup, TypeOK
  <2>2. CASE owner[q] # w
    <3>1. owner'[q] = owner[q] /\ pos'[q] = pos[q] /\ committed'[q] = committed[q]
      BY <1>4, <2>2 DEF Commit, CommittedBy, Crash, LeaveGroup, TypeOK
    <3>2. \A v \in Workers \ {w} : pc'[v] = pc[v] /\ cur'[v] = cur[v]
      BY <1>4 DEF Commit, Crash, LetGo, TypeOK
    <3>3. owner[q] \in Workers \cup {None}
      BY DEF TypeOK
    <3> QED BY <2>2, <3>1, <3>2, <3>3 DEF PositionMatchesHand
  <2> QED BY <2>1, <2>2
<1>5. CASE RebalanceOrphans \/ RebalanceAnew
  BY <1>5 DEF RebalanceOrphans, RebalanceAnew, Assign, PositionMatchesHand
<1>6. CASE Expire \/ UNCHANGED vars
  BY <1>6 DEF Expire, vars, workerVars, groupVars, PositionMatchesHand
<1> QED
  BY <1>1, <1>3, <1>4, <1>5, <1>6 DEF Next, Step, Disturb, Recover, Quiescent

\* A commit moves a partition past the message in hand, or nothing.
LEMMA CommitMoves ==
    ASSUME IInv, NEW w \in Workers, Commit(w), NEW p \in Partitions,
           committed'[p] # committed[p]
    PROVE  /\ committed'[p] = committed[p] + 1
           /\ cur[w] = <<p, committed[p] + 1>>
           /\ cur[w] \in Messages
           /\ Settled(cur[w])
<1>1. owner[p] = w /\ pos[p] # committed[p] /\ committed'[p] = pos[p]
  BY DEF Commit, CommittedBy, IInv, TypeInv, TypeOK
<1>2. pos[p] = committed[p] + 1 /\ cur[w] = <<p, pos[p]>>
  BY <1>1 DEF IInv, PositionMatchesHand
<1>3. Settled(cur[w])
  BY DEF IInv, HandMatchesLabel, HandMatches, Commit
<1>4. cur[w] \in Messages
  BY HandInProgress, BusyLabels DEF IInv, Commit
<1> QED BY <1>1, <1>2, <1>3, <1>4

LEMMA CommittedUnchanged ==
    [Next]_vars => committed' = committed \/ \E w \in Workers : Commit(w)
  BY DEF Next, Step, Disturb, Recover, Quiescent, Fetch, CacheHit, CacheMiss,
         Write, Forward, Remember, DeadLetter, DeadLetterFails, CacheFails,
         WriteFails, ForwardFails, RememberFails, Crash, LeaveGroup, Restart, RestartFails,
         RebalanceOrphans, RebalanceAnew, Assign, Expire, vars, groupVars

LEMMA CommittedStep ==
    IInv /\ TypeInv' /\ StoresGrow /\ [Next]_vars
        => CommittedInLog' /\ CommittedIsSettled'
<1> SUFFICES ASSUME IInv, TypeInv', StoresGrow, [Next]_vars, NEW p \in Partitions
             PROVE  /\ committed'[p] <= Len(Log[p])
                    /\ \A n \in 1..committed'[p] : Settled(<<p, n>>)'
  BY DEF CommittedInLog, CommittedIsSettled
<1>1. /\ committed[p] \in Nat /\ committed'[p] \in Nat
      /\ committed[p] <= Len(Log[p]) /\ Len(Log[p]) \in Nat
      /\ \A n \in 1..committed[p] : Settled(<<p, n>>)
  BY LogAssumption
  DEF IInv, TypeInv, TypeOK, CommittedInLog, CommittedIsSettled
<1>2. \A m \in Messages : Settled(m) => Settled(m)'
  BY OutcomesStay DEF IInv, TypeInv
<1>3. \A n \in 1..committed[p] : Settled(<<p, n>>)'
  <2> SUFFICES ASSUME NEW n \in 1..committed[p] PROVE Settled(<<p, n>>)'
    OBVIOUS
  <2>1. n \in 1..Len(Log[p])
    BY <1>1
  <2>2. <<p, n>> \in Messages
    BY <2>1, OffsetIsMessage
  <2> QED BY <1>1, <1>2, <2>2
<1>4. CASE committed'[p] = committed[p]
  BY <1>1, <1>3, <1>4
<1>5. CASE committed'[p] # committed[p]
  <2>1. PICK w \in Workers : Commit(w)
    BY <1>5, CommittedUnchanged
  <2>2. PICK m \in Messages : m = cur[w]
    BY <1>5, <2>1, CommitMoves
  <2>3. /\ committed'[p] = committed[p] + 1
        /\ m = <<p, committed'[p]>>
        /\ Settled(m)
    BY <1>5, <2>1, <2>2, CommitMoves
  <2>4. committed'[p] <= Len(Log[p])
    BY <2>3, MessageFacts
  <2>5. Settled(m)'
    BY <1>2, <2>3
  <2>6. ASSUME NEW n \in 1..committed'[p] PROVE Settled(<<p, n>>)'
    <3>1. n \in 1..committed[p] \/ n = committed'[p]
      BY <1>1, <2>3
    <3>2. CASE n = committed'[p]
      BY <2>3, <2>5, <3>2
    <3> QED BY <1>3, <3>1, <3>2
  <2> QED BY <2>4, <2>6
<1> QED BY <1>4, <1>5

\* A key enters Redis only after its event was stored and forwarded.
LEMMA CacheStep ==
    IInv /\ TypeInv' /\ StoresGrow /\ [Next]_vars => CacheHitMeansProcessed'
<1> SUFFICES ASSUME IInv, TypeInv', StoresGrow, [Next]_vars, NEW m \in Messages,
                    EventOf(m).valid, IdemKey(m) \in idem'
             PROVE  Stored(m)' /\ Forwarded(m)'
  BY DEF CacheHitMeansProcessed, IdemKey, EventOf
<1>1. /\ Stored(m) => Stored(m)'
      /\ Forwarded(m) => Forwarded(m)'
  BY OutcomesStay DEF IInv, TypeInv
<1>2. CASE IdemKey(m) \in idem
  BY <1>1, <1>2 DEF IInv, CacheHitMeansProcessed
<1>3. CASE IdemKey(m) \notin idem
  <2>1. PICK w \in Workers : /\ Remember(w) \/ RememberFails(w)
                             /\ IdemKey(m) = IdemKey(cur[w])
    BY <1>3
    DEF Next, Step, Disturb, Recover, Quiescent, Fetch, CacheHit, CacheMiss,
        Write, Forward, Remember, DeadLetter, DeadLetterFails, CacheFails,
        WriteFails, ForwardFails, RememberFails, Crash, Restart, RestartFails,
        RebalanceOrphans, RebalanceAnew, Assign, Expire, Commit, vars, storeVars
  <2>2. Stored(cur[w]) /\ Forwarded(cur[w])
    BY <2>1 DEF Remember, RememberFails, IInv, HandMatchesLabel, HandMatches
  <2>3. Stored(m) /\ Forwarded(m)
    BY <2>1, <2>2 DEF Stored, Forwarded
  <2> QED BY <1>1, <2>3
<1> QED BY <1>2, <1>3

LEMMA IInvStep == IInv /\ [Next]_vars => IInv'
<1> SUFFICES ASSUME IInv, [Next]_vars PROVE IInv'
  OBVIOUS
<1>1. TypeInv' /\ StoresGrow
  BY TypeStep, StoresGrowStep DEF IInv
<1>2. HandMatchesLabel' /\ PositionMatchesHand'
  BY <1>1, HandStep, PositionStep
<1>3. CommittedInLog' /\ CommittedIsSettled' /\ CacheHitMeansProcessed'
  BY <1>1, CommittedStep, CacheStep
<1> QED BY <1>1, <1>2, <1>3 DEF IInv

LEMMA IInvHolds == Spec => []IInv
  BY IInvInit, IInvStep, PTL DEF Spec

\* At-least-once: no committed message is left without an outcome.
THEOREM CommittedMessagesAreSettled == Spec => []CommittedIsSettled
<1>1. IInv => CommittedIsSettled
  BY DEF IInv
<1> QED BY <1>1, IInvHolds, PTL

\* A skipped duplicate was processed by whoever set its key.
THEOREM SkippedMessagesAreProcessed == Spec => []CacheHitMeansProcessed
<1>1. IInv => CacheHitMeansProcessed
  BY DEF IInv
<1> QED BY <1>1, IInvHolds, PTL

\* An owner is at most one message past its commit, and holds it.
THEOREM PositionsMatchHands == Spec => []PositionMatchesHand
<1>1. IInv => PositionMatchesHand
  BY DEF IInv
<1> QED BY <1>1, IInvHolds, PTL

----------------------------------------------------------------------------
(* The staleness guard.                                                    *)

LEMMA ActiveStep == TypeInv /\ ActiveIsNewest /\ [Next]_vars => ActiveIsNewest'
<1> SUFFICES ASSUME TypeInv, ActiveIsNewest, [Next]_vars PROVE ActiveIsNewest'
  OBVIOUS
<1>1. ASSUME NEW e \in Event, WriteEvents(e) PROVE ActiveIsNewest'
  <2> DEFINE k == e.flight_key
  <2>1. k \in FlightKeys /\ e.timestamp \in Nat /\ rows \subseteq Event
    BY DEF Event, TypeInv, TypeOK
  <2>2. \A r \in rows' : r \in rows \/ r = e
    BY <1>1 DEF WriteEvents
  <2>3. \A j \in FlightKeys \ {k} : active'[j] = active[j]
    BY <1>1 DEF WriteEvents, TypeInv, TypeOK
  <2>4. \/ active'[k] = e
        \/ /\ active'[k] = active[k] /\ active[k] \in Event
           /\ active[k].timestamp >= e.timestamp
    BY <1>1, <2>1 DEF WriteEvents, Event, TypeInv, TypeOK
  <2>5. active'[k] \in Event /\ active'[k] # None
    BY <2>4, NoneAssumption
  <2>6. \A r \in rows : r.flight_key = k =>
            active[k] # None /\ r.timestamp <= active[k].timestamp
    BY DEF ActiveIsNewest
  <2>7. active[k] # None /\ active'[k] # active[k]
           => active[k].timestamp < e.timestamp /\ active[k] \in Event
    BY <1>1, <2>1 DEF WriteEvents, TypeInv, TypeOK
  <2>8. ASSUME NEW r \in rows'
        PROVE  /\ active'[r.flight_key] # None
               /\ r.timestamp <= active'[r.flight_key].timestamp
    <3>1. r \in Event /\ r.flight_key \in FlightKeys /\ r.timestamp \in Nat
      BY <2>1, <2>2 DEF Event
    <3>2. CASE r.flight_key # k
      BY <2>2, <2>3, <3>1, <3>2 DEF ActiveIsNewest
    <3>3. CASE r = e
      BY <2>1, <2>4, <2>5, <3>3 DEF Event
    <3>4. CASE r.flight_key = k /\ r \in rows
      <4>1. active[k] # None /\ r.timestamp <= active[k].timestamp
        BY <2>6, <3>4
      <4>2. CASE active'[k] = active[k]
        BY <2>5, <3>4, <4>1, <4>2
      <4>3. CASE active'[k] = e /\ active'[k] # active[k]
        <5>1. active[k].timestamp < e.timestamp /\ active[k].timestamp \in Nat
          BY <2>7, <4>1, <4>3 DEF Event
        <5> QED BY <2>1, <2>5, <3>1, <3>4, <4>1, <4>3, <5>1
      <4> QED BY <2>4, <4>2, <4>3
    <3> QED BY <2>2, <3>2, <3>3, <3>4
  <2>9. ASSUME NEW j \in FlightKeys, active'[j] # None
        PROVE  /\ active'[j].flight_key = j
               /\ \E r \in rows' : RowKey(r) = RowKey(active'[j])
    <3>1. rows \subseteq rows' /\ \E r \in rows' : RowKey(r) = RowKey(e)
      BY <1>1 DEF WriteEvents
    <3>2. CASE active'[j] = active[j]
      BY <2>9, <3>1, <3>2 DEF ActiveIsNewest
    <3>3. CASE j = k /\ active'[j] = e
      BY <3>1, <3>3
    <3> QED BY <2>3, <2>4, <3>2, <3>3
  <2> QED BY <2>8, <2>9 DEF ActiveIsNewest, RowKey
<1>2. ASSUME NEW w \in Workers, Write(w) \/ WriteFails(w) PROVE ActiveIsNewest'
  <2>1. EventOf(cur[w]) \in Event
    BY <1>2, HandInProgress, MessageFacts, BusyLabels DEF Write, WriteFails
  <2>2. CASE WriteEvents(EventOf(cur[w]))
    BY <1>1, <2>1, <2>2
  <2>3. CASE UNCHANGED <<rows, active>>
    BY <2>3 DEF ActiveIsNewest
  <2> QED BY <1>2, <2>2, <2>3 DEF Write, WriteFails
<1>3. CASE UNCHANGED <<rows, active>>
  BY <1>3 DEF ActiveIsNewest
<1> QED
  BY <1>2, <1>3
  DEF Next, Step, Disturb, Recover, Quiescent, Fetch, CacheHit, CacheMiss,
      Forward, Remember, DeadLetter, DeadLetterFails, CacheFails, ForwardFails,
      RememberFails, Crash, Restart, RestartFails, RebalanceOrphans,
      RebalanceAnew, Assign, Expire, Commit, vars, storeVars

\* The active row of a flight_key is its newest stored event.
THEOREM ActiveRowIsNewest == Spec => []ActiveIsNewest
<1>1. Init => ActiveIsNewest
  BY DEF Init, ActiveIsNewest
<1> QED BY <1>1, ActiveStep, TypeInvHolds, PTL DEF Spec

----------------------------------------------------------------------------
(* processed-flights never runs ahead of the database.                     *)

\* What a reader of processed-flights is promised about m.
InTables(m) ==
    LET e == EventOf(m) IN
    /\ Stored(m)
    /\ active[e.flight_key] # None
    /\ active[e.flight_key].timestamp >= e.timestamp

\* The inductive invariant: the promise holds of every forwarded message, and
\* of the message a coroutine is about to forward.
ForwardInv ==
    /\ \A w \in Workers : pc[w] = "forward" => InTables(cur[w])
    /\ \A p \in Partitions : \A i \in 1..Len(forwarded[p]) :
          /\ <<p, forwarded[p][i]>> \in Messages
          /\ InTables(<<p, forwarded[p][i]>>)

\* An active row is replaced by newer ones only.
ActiveGrows ==
    \A k \in FlightKeys : active[k] # None =>
        active'[k] # None /\ active'[k].timestamp >= active[k].timestamp

LEMMA WriteEventsEffect ==
    ASSUME TypeOK, NEW e \in Event, WriteEvents(e)
    PROVE  /\ ActiveGrows
           /\ active'[e.flight_key] # None
           /\ active'[e.flight_key].timestamp >= e.timestamp
<1>1. /\ e.flight_key \in FlightKeys /\ e.timestamp \in Nat /\ e # None
      /\ \A k \in FlightKeys : active[k] # None =>
            active[k] \in Event /\ active[k].timestamp \in Nat
  BY NoneAssumption DEF TypeOK, Event
<1>2. CASE /\ \/ active[e.flight_key] = None
              \/ active[e.flight_key].timestamp < e.timestamp
  <2>1. active' = [active EXCEPT ![e.flight_key] = e]
    BY <1>2 DEF WriteEvents
  <2>2. active'[e.flight_key] = e
    BY <1>1, <2>1 DEF TypeOK
  <2>3. \A k \in FlightKeys \ {e.flight_key} : active'[k] = active[k]
    BY <2>1 DEF TypeOK
  <2>4. e.timestamp >= e.timestamp
    BY <1>1
  <2>5. ASSUME NEW k \in FlightKeys, active[k] # None
        PROVE  active'[k] # None /\ active'[k].timestamp >= active[k].timestamp
    <3>1. CASE k = e.flight_key
      BY <1>1, <1>2, <2>2, <2>5, <3>1
    <3>2. CASE k # e.flight_key
      BY <1>1, <2>3, <2>5, <3>2
    <3> QED BY <3>1, <3>2
  <2> QED BY <1>1, <2>2, <2>4, <2>5 DEF ActiveGrows
<1>3. CASE ~ \/ active[e.flight_key] = None
             \/ active[e.flight_key].timestamp < e.timestamp
  <2>1. active' = active
    BY <1>3 DEF WriteEvents
  <2> QED BY <1>1, <1>3, <2>1 DEF ActiveGrows
<1> QED BY <1>2, <1>3

LEMMA ActiveGrowsStep == TypeInv /\ [Next]_vars => ActiveGrows
<1> SUFFICES ASSUME TypeInv, [Next]_vars PROVE ActiveGrows
  OBVIOUS
<1>1. CASE active' = active
  <2>1. \A k \in FlightKeys : active[k] # None => active[k].timestamp \in Nat
    BY DEF TypeInv, TypeOK, Event
  <2> QED BY <1>1, <2>1 DEF ActiveGrows
<1>2. ASSUME NEW w \in Workers, Write(w) \/ WriteFails(w), active' # active
      PROVE  ActiveGrows
  <2>1. EventOf(cur[w]) \in Event
    BY <1>2, HandInProgress, MessageFacts, BusyLabels DEF Write, WriteFails
  <2>2. WriteEvents(EventOf(cur[w]))
    BY <1>2 DEF Write, WriteFails
  <2> QED BY <2>1, <2>2, WriteEventsEffect DEF TypeInv
<1> QED
  BY <1>1, <1>2
  DEF Next, Step, Disturb, Recover, Quiescent, Fetch, CacheHit, CacheMiss,
      Forward, Remember, DeadLetter, DeadLetterFails, CacheFails, ForwardFails,
      RememberFails, Crash, Restart, RestartFails, RebalanceOrphans,
      RebalanceAnew, Assign, Expire, Commit, vars, storeVars

LEMMA InTablesStays ==
    ASSUME TypeInv, TypeInv', StoresGrow, ActiveGrows, NEW m \in Messages, InTables(m)
    PROVE  InTables(m)'
<1>1. Stored(m)'
  BY OutcomesStay DEF InTables, TypeInv
<1> DEFINE e == EventOf(m)
<1>2. e \in Event /\ e.flight_key \in FlightKeys /\ e.timestamp \in Nat
  BY MessageFacts DEF Event
<1> HIDE DEF e
<1>3. active[e.flight_key] # None /\ active[e.flight_key].timestamp >= e.timestamp
  BY DEF InTables, e
<1>4. /\ active'[e.flight_key] # None
      /\ active'[e.flight_key].timestamp >= active[e.flight_key].timestamp
  BY <1>2, <1>3 DEF ActiveGrows
<1>5. active[e.flight_key].timestamp \in Nat /\ active'[e.flight_key].timestamp \in Nat
  BY <1>2, <1>3, <1>4 DEF TypeInv, TypeOK, Event
<1>6. active'[e.flight_key].timestamp >= e.timestamp
  BY <1>2, <1>3, <1>4, <1>5
<1> QED BY <1>1, <1>4, <1>6 DEF InTables, e, EventOf

LEMMA ForwardInvInit == Init => ForwardInv
  BY DEF Init, ForwardInv

LEMMA ForwardInvStep ==
    TypeInv /\ TypeInv' /\ ForwardInv /\ [Next]_vars => ForwardInv'
<1> SUFFICES ASSUME TypeInv, TypeInv', ForwardInv, [Next]_vars PROVE ForwardInv'
  OBVIOUS
<1>1. StoresGrow /\ ActiveGrows
  BY StoresGrowStep, ActiveGrowsStep
<1>2. \A m \in Messages : InTables(m) => InTables(m)'
  BY <1>1, InTablesStays
<1>3. ASSUME NEW w \in Workers, pc'[w] = "forward" PROVE InTables(cur[w])'
  <2>1. PICK m \in Messages : m = cur'[w]
    BY <1>3, BusyLabels DEF TypeInv, TypeOK, HandOK
  <2>2. CASE pc[w] = "forward"
    <3>1. cur'[w] = cur[w]
      <4>1. CASE \E v \in Workers \ {w} : Step(v) \/ Disturb(v) \/ Recover(v)
        BY <4>1, OthersStay
      <4>2. CASE Step(w) \/ Disturb(w) \/ Recover(w)
        BY <1>3, <2>2, <4>2
        DEF Step, Disturb, Recover, Fetch, CacheHit, CacheMiss, Write, Forward,
            Remember, DeadLetter, Commit, CacheFails, WriteFails, ForwardFails,
            RememberFails, DeadLetterFails, Crash, LetGo, Advance, Goto, Fail,
            Retry, RetryOrFail, Restart, RestartFails, TypeInv, TypeOK
      <4>3. CASE UNCHANGED cur
        BY <4>3
      <4> QED
        BY <4>1, <4>2, <4>3
        DEF Next, Quiescent, RebalanceOrphans, RebalanceAnew, Assign, Expire,
            vars, workerVars
    <3>2. InTables(m)
      BY <2>1, <2>2, <3>1 DEF ForwardInv
    <3> QED BY <1>2, <2>1, <3>2 DEF InTables, Stored, EventOf, IdemKey
  <2>3. CASE pc[w] # "forward"
    <3>1. Write(w)
      <4>1. Step(w) \/ Disturb(w) \/ Recover(w)
        <5>1. pc'[w] # pc[w]
          BY <1>3, <2>3
        <5> QED
          BY <5>1, OthersStay
          DEF Next, Quiescent, RebalanceOrphans, RebalanceAnew, Assign, Expire,
              vars, workerVars
      <4> QED
        BY <1>3, <2>3, <4>1
        DEF Step, Disturb, Recover, Fetch, CacheHit, CacheMiss, Forward,
            Remember, DeadLetter, Commit, CacheFails, WriteFails, ForwardFails,
            RememberFails, DeadLetterFails, Crash, LetGo, Advance, Goto, Fail,
            Retry, RetryOrFail, Restart, RestartFails, TypeInv, TypeOK
    <3>2. cur[w] = m
      BY <2>1, <3>1 DEF Write, Advance, Goto
    <3>3. WriteEvents(EventOf(m))
      BY <3>1, <3>2 DEF Write
    <3>4. Stored(m)' /\ EventOf(m) \in Event
      BY <3>3, WriteStores, MessageFacts
    <3>5. InTables(m)'
      BY <3>3, <3>4, WriteEventsEffect DEF InTables, EventOf, TypeInv
    <3> QED BY <2>1, <3>5 DEF InTables, Stored, EventOf, IdemKey
  <2> QED BY <2>2, <2>3
<1>4. ASSUME NEW p \in Partitions, NEW i \in 1..Len(forwarded'[p])
      PROVE  /\ <<p, forwarded'[p][i]>> \in Messages
             /\ InTables(<<p, forwarded[p][i]>>)'
  <2>1. forwarded[p] \in Seq(Nat)
    BY DEF TypeInv, TypeOK
  <2>2. CASE i \in 1..Len(forwarded[p]) /\ forwarded'[p][i] = forwarded[p][i]
    <3>1. PICK m \in Messages : m = <<p, forwarded[p][i]>> /\ InTables(m)
      BY <2>2 DEF ForwardInv
    <3>2. InTables(m)'
      BY <1>2, <3>1
    <3> QED BY <2>2, <3>1, <3>2 DEF InTables, Stored, EventOf, IdemKey
  <2>3. CASE ~ (i \in 1..Len(forwarded[p]) /\ forwarded'[p][i] = forwarded[p][i])
    <3>1. forwarded'[p] # forwarded[p]
      BY <2>3
    <3>2. PICK w \in Workers : (Forward(w) \/ ForwardFails(w)) /\ Publish(cur[w])
      BY <3>1
      DEF Next, Step, Disturb, Recover, Quiescent, Fetch, CacheHit, CacheMiss,
          Write, WriteFails, Forward, ForwardFails,
          Remember, DeadLetter, DeadLetterFails, CacheFails,
          RememberFails, Crash, Restart, RestartFails, RebalanceOrphans,
          RebalanceAnew, Assign, Expire, Commit, vars, storeVars
    <3>3. PICK m \in Messages : m = cur[w]
      BY <3>2, HandInProgress, BusyLabels DEF Forward, ForwardFails
    <3>4. m[1] \in Partitions /\ m[2] \in Nat /\ m = <<m[1], m[2]>>
      BY MessageFacts, LogAssumption
    <3>5. p = m[1] /\ forwarded'[p] = Append(forwarded[p], m[2])
      BY <3>1, <3>2, <3>3, <3>4 DEF Publish, TypeInv, TypeOK
    <3>6. forwarded'[p][i] = m[2]
      BY <2>1, <2>3, <3>4, <3>5
    <3>7. InTables(m)'
      BY <1>2, <3>2, <3>3 DEF ForwardInv, Forward, ForwardFails
    <3>8. <<p, forwarded'[p][i]>> = m
      BY <3>4, <3>5, <3>6
    <3> QED BY <3>3, <3>7, <3>8 DEF InTables, Stored, EventOf, IdemKey
  <2> QED BY <2>2, <2>3
<1> QED BY <1>3, <1>4 DEF ForwardInv

\* A reader of processed-flights finds every event it reads in flight_events,
\* and in active_flights that event or a newer one (event_processor.py writes
\* the database before it publishes, on every path).
THEOREM ForwardedEventsAreStored == Spec => []ForwardedIsStored
<1>1. ForwardInv => ForwardedIsStored
  BY DEF ForwardInv, ForwardedIsStored, InTables
<1> QED
  BY <1>1, ForwardInvInit, ForwardInvStep, TypeInvHolds, PTL DEF Spec
----------------------------------------------------------------------------
(* Copies are paid for by faults.  The inductive invariant counts, for     *)
(* each event, the copies made, the copies that coroutines left behind by  *)
(* a rebalance may still make, and the one that its partition's owner may  *)
(* still owe it, now and after the rebalance an orphan brings about:       *)
(* together never more than one plus the faults injected so far.           *)

Holds(w, key) == pc[w] \in {"check", "write", "forward"} /\ IdemKey(cur[w]) = key

\* What w holds is what p's position has just passed.
Current(w, p) == w = owner[p] /\ pos[p] # committed[p]

Stale(p, key) == {w \in Workers : Holds(w, key) /\ ~Current(w, p)}

\* p's owner is at one of these labels with the event.
InWork(p, key, labels) ==
    pos[p] # committed[p] /\ IdemKey(<<p, pos[p]>>) = key /\ pc[owner[p]] \in labels

\* p's owner may still forward it: it is past the check, or the key is not
\* set and not about to be.
MayForward(p, key) ==
    \/ InWork(p, key, {"write", "forward"})
    \/ key \notin idem /\ ~InWork(p, key, {"remember"})

Orphans == \E q \in Partitions : owner[q] = None
Again(p) == Orphans /\ owner[p] # None

One(condition) == IF condition THEN 1 ELSE 0
Owes(p, key) == One(MayForward(p, key)) + One(Again(p))

CopiesInv ==
    \A m \in Messages :
        /\ IsFiniteSet(Copies(IdemKey(m))) /\ IsFiniteSet(Stale(m[1], IdemKey(m)))
        /\ Cardinality(Copies(IdemKey(m))) + Cardinality(Stale(m[1], IdemKey(m)))
              + Owes(m[1], IdemKey(m)) <= 1 + faults

CopiesIn(f, key) ==
    {c \in UNION {{p} \X (1..Len(f[p])) : p \in Partitions} :
        IdemKey(<<c[1], f[c[1]][c[2]]>>) = key}

IsCopy(c, f, key) ==
    \E q \in Partitions : \E i \in 1..Len(f[q]) : c = <<q, i>> /\ IdemKey(<<q, f[q][i]>>) = key

LEMMA CopyFacts ==
    ASSUME NEW f, NEW key, NEW c
    PROVE  c \in CopiesIn(f, key) <=> IsCopy(c, f, key)
<1>1. ASSUME c \in CopiesIn(f, key) PROVE IsCopy(c, f, key)
  <2>1. PICK q \in Partitions : c \in {q} \X (1..Len(f[q]))
    BY <1>1 DEF CopiesIn
  <2>2. c = <<q, c[2]>> /\ c[1] = q /\ c[2] \in 1..Len(f[q])
    BY <2>1
  <2>3. IdemKey(<<c[1], f[c[1]][c[2]]>>) = key
    BY <1>1 DEF CopiesIn
  <2>4. IdemKey(<<q, f[q][c[2]]>>) = key
    BY <2>2, <2>3
  <2> QED BY <2>2, <2>4 DEF IsCopy
<1>2. ASSUME NEW q \in Partitions, NEW i \in 1..Len(f[q]),
             c = <<q, i>>, IdemKey(<<q, f[q][i]>>) = key
      PROVE  c \in CopiesIn(f, key)
  <2>1. c \in {q} \X (1..Len(f[q])) /\ c[1] = q /\ c[2] = i
    BY <1>2
  <2>2. c \in UNION {{p} \X (1..Len(f[p])) : p \in Partitions}
    BY <2>1
  <2>3. IdemKey(<<c[1], f[c[1]][c[2]]>>) = key
    BY <1>2, <2>1
  <2> QED BY <2>2, <2>3 DEF CopiesIn
<1> QED BY <1>1, <1>2 DEF IsCopy

\* Publishing a message adds one copy of its event and of nothing else.
LEMMA PublishCopies ==
    ASSUME TypeOK, NEW h \in Messages, Publish(h), NEW key, IsFiniteSet(Copies(key))
    PROVE  /\ IsFiniteSet(Copies(key)')
           /\ Cardinality(Copies(key)') = Cardinality(Copies(key)) + One(IdemKey(h) = key)
<1> DEFINE s == forwarded[h[1]]
           new == <<h[1], Len(s) + 1>>
<1>1. h[1] \in Partitions /\ h[2] \in Nat /\ h = <<h[1], h[2]>>
  BY MessageFacts, LogAssumption
<1>2. s \in Seq(Nat) /\ Len(s) \in Nat /\ forwarded'[h[1]] = Append(s, h[2])
  BY <1>1 DEF TypeOK, Publish
<1>3. /\ Len(forwarded'[h[1]]) = Len(s) + 1 /\ forwarded'[h[1]][Len(s) + 1] = h[2]
      /\ \A i \in 1..Len(s) : forwarded'[h[1]][i] = s[i]
  BY <1>1, <1>2
<1>4. \A q \in Partitions : q # h[1] => forwarded'[q] = forwarded[q]
  BY DEF TypeOK, Publish
<1>5. /\ \A c : c \in Copies(key) <=> IsCopy(c, forwarded, key)
      /\ \A c : c \in Copies(key)' <=> IsCopy(c, forwarded', key)
  <2>1. Copies(key) = CopiesIn(forwarded, key)
    BY DEF Copies, CopiesIn
  <2>2. Copies(key)' = CopiesIn(forwarded', key)
    BY DEF Copies, CopiesIn
  <2> QED BY <2>1, <2>2, CopyFacts
<1> HIDE DEF s
<1>6. 1..Len(forwarded'[h[1]]) = 1..Len(s) \cup {Len(s) + 1} /\ s = forwarded[h[1]]
  BY <1>2, <1>3 DEF s
<1>7. \A c : c \in Copies(key)' <=> c \in Copies(key) \/ (c = new /\ IdemKey(h) = key)
  <2> TAKE c
  <2>1. ASSUME IsCopy(c, forwarded', key)
        PROVE  IsCopy(c, forwarded, key) \/ (c = new /\ IdemKey(h) = key)
    <3>1. PICK q \in Partitions : \E i \in 1..Len(forwarded'[q]) :
             c = <<q, i>> /\ IdemKey(<<q, forwarded'[q][i]>>) = key
      BY <2>1 DEF IsCopy
    <3>2. PICK i \in 1..Len(forwarded'[q]) :
             c = <<q, i>> /\ IdemKey(<<q, forwarded'[q][i]>>) = key
      BY <3>1
    <3>3. CASE q # h[1]
      BY <1>4, <3>2, <3>3 DEF IsCopy
    <3>4. CASE q = h[1] /\ i \in 1..Len(s)
      <4>1. IdemKey(<<q, forwarded[q][i]>>) = key /\ i \in 1..Len(forwarded[q])
        BY <1>3, <1>6, <3>2, <3>4
      <4> QED BY <3>2, <4>1 DEF IsCopy
    <3>5. CASE q = h[1] /\ i = Len(s) + 1
      BY <1>1, <1>3, <3>2, <3>5
    <3> QED BY <1>6, <3>2, <3>3, <3>4, <3>5
  <2>2. ASSUME IsCopy(c, forwarded, key) PROVE IsCopy(c, forwarded', key)
    <3>1. PICK q \in Partitions : \E i \in 1..Len(forwarded[q]) :
             c = <<q, i>> /\ IdemKey(<<q, forwarded[q][i]>>) = key
      BY <2>2 DEF IsCopy
    <3>2. PICK i \in 1..Len(forwarded[q]) :
             c = <<q, i>> /\ IdemKey(<<q, forwarded[q][i]>>) = key
      BY <3>1
    <3>3. i \in 1..Len(forwarded'[q]) /\ forwarded'[q][i] = forwarded[q][i]
      BY <1>3, <1>4, <1>6, <3>2
    <3>4. IdemKey(<<q, forwarded'[q][i]>>) = key
      BY <3>2, <3>3
    <3> QED BY <3>2, <3>3, <3>4 DEF IsCopy
  <2>3. ASSUME c = new, IdemKey(h) = key PROVE IsCopy(c, forwarded', key)
    <3>1. Len(s) + 1 \in 1..Len(forwarded'[h[1]])
      BY <1>2, <1>3
    <3>2. IdemKey(<<h[1], forwarded'[h[1]][Len(s) + 1]>>) = key
      BY <1>1, <1>3, <2>3
    <3> QED BY <1>1, <2>3, <3>1, <3>2 DEF IsCopy
  <2> QED BY <1>5, <2>1, <2>2, <2>3
<1>8. new \notin Copies(key)
  <2>1. SUFFICES ASSUME IsCopy(new, forwarded, key) PROVE FALSE
    BY <1>5
  <2>2. PICK q \in Partitions : \E i \in 1..Len(forwarded[q]) : new = <<q, i>>
    BY <2>1 DEF IsCopy
  <2>3. Len(s) + 1 \in 1..Len(s)
    BY <1>6, <2>2
  <2> QED BY <1>2, <2>3
<1> HIDE DEF new
<1>9. CASE IdemKey(h) = key
  <2>1. Copies(key)' = Copies(key) \cup {new}
    BY <1>7, <1>9
  <2>2. /\ IsFiniteSet(Copies(key) \cup {new})
        /\ Cardinality(Copies(key) \cup {new}) = Cardinality(Copies(key)) + 1
    BY <1>8, FS_AddElement
  <2> QED BY <1>9, <2>1, <2>2 DEF One
<1>10. CASE IdemKey(h) # key
  <2>1. Copies(key)' = Copies(key)
    BY <1>7, <1>10
  <2>2. Cardinality(Copies(key)) \in Nat
    BY FS_CardinalityType
  <2> QED BY <1>10, <2>1, <2>2 DEF One
<1> QED BY <1>9, <1>10

\* A coroutine comes to hold an event by fetching it, not otherwise.
LEMMA HoldsOnly ==
    ASSUME TypeInv, [Next]_vars, NEW v \in Workers, NEW key, Holds(v, key)',
           ~ \E q \in Partitions : Fetch(v, q)
    PROVE  Holds(v, key)
<1> SUFFICES pc[v] \in {"check", "write", "forward"} /\ cur'[v] = cur[v]
  BY DEF Holds, IdemKey, EventOf
<1>0. pc'[v] \in {"check", "write", "forward"}
  BY DEF Holds
<1>1. CASE \E w \in Workers \ {v} : Step(w) \/ Disturb(w) \/ Recover(w)
  BY <1>0, <1>1, OthersStay
<1>2. CASE UNCHANGED workerVars
  BY <1>0, <1>2 DEF workerVars
<1>4. CASE Step(v) \/ Disturb(v) \/ Recover(v)
  BY <1>0, <1>4
  DEF Step, Disturb, Recover, CacheHit, CacheMiss, Write, Forward,
      Remember, DeadLetter, Commit, CacheFails, WriteFails, ForwardFails,
      RememberFails, DeadLetterFails, Crash, LetGo, Advance, Goto, Fail,
      Retry, RetryOrFail, Restart, RestartFails, TypeInv, TypeOK
<1> QED
  BY <1>1, <1>2, <1>4
  DEF Next, Quiescent, RebalanceOrphans, RebalanceAnew, Assign, Expire,
      vars, workerVars

\* Where no position moves, nobody is left behind.
LEMMA StaleShrinks ==
    ASSUME TypeInv, [Next]_vars, NEW p, NEW key, UNCHANGED groupVars
    PROVE  Stale(p, key)' \subseteq Stale(p, key)
<1> SUFFICES ASSUME NEW v \in Workers, Holds(v, key)', ~Current(v, p)'
             PROVE  Holds(v, key) /\ ~Current(v, p)
  BY DEF Stale
<1>1. ~Current(v, p)
  BY DEF groupVars, Current
<1>2. ASSUME NEW q \in Partitions, Fetch(v, q) PROVE FALSE
  BY <1>2 DEF groupVars, Fetch, TypeInv, TypeOK
<1> QED BY <1>1, <1>2, HoldsOnly

\* The calls of a message in hand: its owner comes to owe nothing by them.
LEMMA HandOwes ==
    ASSUME TypeInv, PositionMatchesHand, NEW w \in Workers,
           \/ CacheHit(w) \/ CacheMiss(w) \/ Write(w) \/ Remember(w) \/ DeadLetter(w)
           \/ Restart(w) \/ Forward(w) \/ ForwardFails(w),
           NEW p \in Partitions, NEW key, MayForward(p, key)'
    PROVE  MayForward(p, key)
<1>1. UNCHANGED groupVars /\ idem \subseteq idem'
  BY DEF CacheHit, CacheMiss, Write, Remember, DeadLetter, Restart, Forward, ForwardFails, storeVars
<1>2. CASE pos[p] = committed[p]
  BY <1>1, <1>2 DEF MayForward, InWork, groupVars
<1>3. CASE owner[p] # w /\ pos[p] # committed[p]
  <2>1. owner[p] \in Workers
    BY <1>3 DEF PositionMatchesHand, TypeInv, TypeOK
  <2>2. pc'[owner[p]] = pc[owner[p]]
    BY <1>3, <2>1
    DEF CacheHit, CacheMiss, Write, Remember, DeadLetter, Restart, Forward, ForwardFails,
        Advance, Goto, Fail, RetryOrFail, Retry, TypeInv, TypeOK
  <2> QED BY <1>1, <2>2 DEF MayForward, InWork, groupVars
<1>4. CASE owner[p] = w /\ pos[p] # committed[p]
  <2>1. cur[w] = <<p, pos[p]>> /\ pc[w] \in Busy
    BY <1>4 DEF PositionMatchesHand
  <2>2. CASE IdemKey(<<p, pos[p]>>) # key
    BY <1>1, <2>2 DEF MayForward, InWork, groupVars, IdemKey, EventOf
  <2>3. CASE IdemKey(<<p, pos[p]>>) = key
    <3>1. IdemKey(cur[w]) = key
      BY <2>1, <2>3
    <3>2. CASE Write(w) \/ Forward(w) \/ ForwardFails(w)
      BY <1>4, <2>3, <3>2 DEF MayForward, InWork, Write, Forward, ForwardFails
    <3>3. CASE CacheHit(w) \/ Remember(w)
      <4>1. pc'[w] = "commit" /\ key \in idem'
        BY <3>1, <3>3 DEF CacheHit, Remember, Advance, Goto, TypeInv, TypeOK, storeVars
      <4> QED BY <1>1, <1>4, <4>1 DEF MayForward, InWork, groupVars
    <3>4. CASE CacheMiss(w)
      BY <1>4, <3>1, <3>4 DEF MayForward, InWork, CacheMiss
    <3>5. CASE DeadLetter(w) \/ Restart(w)
      <4>1. pc'[w] \in {"commit", "idle"} /\ idem' = idem /\ pc[w] \in {"deadletter", "down"}
        BY <3>5 DEF DeadLetter, Restart, Advance, Goto, TypeInv, TypeOK, storeVars
      <4> QED BY <1>1, <1>4, <4>1 DEF MayForward, InWork, groupVars
    <3> QED BY <3>2, <3>3, <3>4, <3>5
  <2> QED BY <2>2, <2>3
<1> QED BY <1>2, <1>3, <1>4

\* Copies of one event are all in one partition.
LEMMA KeyHome ==
    ASSUME NEW m \in Messages, NEW n \in Messages, IdemKey(m) = IdemKey(n)
    PROVE  m[1] = n[1]
<1>1. EventOf(m).flight_id = EventOf(n).flight_id
  BY DEF IdemKey
<1> QED BY <1>1, KeyAssumption

\* A step adds to what is owed or held only what it injects of faults.
OwesLess(p, key) ==
    /\ IsFiniteSet(Stale(p, key)')
    /\ Cardinality(Stale(p, key)') + Owes(p, key)'
          <= Cardinality(Stale(p, key)) + Owes(p, key) + (faults' - faults)

LEMMA OwesLessWhen ==
    ASSUME NEW p, NEW key, IsFiniteSet(Stale(p, key)),
           Stale(p, key)' \subseteq Stale(p, key), faults \in Int, faults' \in Int,
           Owes(p, key)' <= Owes(p, key) + (faults' - faults)
    PROVE  OwesLess(p, key)
<1>1. /\ IsFiniteSet(Stale(p, key)') /\ Cardinality(Stale(p, key)') <= Cardinality(Stale(p, key))
      /\ Cardinality(Stale(p, key)') \in Nat /\ Cardinality(Stale(p, key)) \in Nat
  BY FS_Subset, FS_CardinalityType
<1>2. Owes(p, key) \in Int /\ Owes(p, key)' \in Int
  BY DEF Owes, One
<1> QED BY <1>1, <1>2 DEF OwesLess

LEMMA FetchOwes ==
    ASSUME TypeInv, PositionMatchesHand, [Next]_vars, NEW m \in Messages,
           NEW w \in Workers, NEW q \in Partitions, Fetch(w, q)
    PROVE  /\ Stale(m[1], IdemKey(m))' \subseteq Stale(m[1], IdemKey(m))
           /\ Owes(m[1], IdemKey(m))' <= Owes(m[1], IdemKey(m))
<1> DEFINE p == m[1]
           key == IdemKey(m)
           h == <<q, pos[q] + 1>>
<1>1. p \in Partitions /\ h \in Messages
  <2>1. pos[q] + 1 \in 1..Len(Log[q])
    BY LogAssumption DEF Fetch, TypeInv, TypeOK
  <2> QED BY <2>1, MessageFacts, OffsetIsMessage
<1>2. /\ pc[w] = "idle" /\ owner[q] = w /\ UNCHANGED <<owner, committed, idem>>
      /\ pos' = [pos EXCEPT ![q] = @ + 1]
      /\ cur'[w] = h /\ pc'[w] \in {"check", "deadletter"}
      /\ \A v \in Workers : v # w => pc'[v] = pc[v]
  BY DEF Fetch, TypeInv, TypeOK, storeVars
<1>3. \A r \in Partitions : owner[r] = w => pos[r] = committed[r]
  BY <1>2, BusyLabels DEF PositionMatchesHand
<1>4. \A v \in Workers : (\E r \in Partitions : Fetch(v, r)) => v = w
  BY <1>2 DEF Fetch, TypeInv, TypeOK
<1>5. IdemKey(h) = key => q = p
  <2>1. h[1] = q
    OBVIOUS
  <2> HIDE DEF h
  <2> QED BY <1>1, <2>1, KeyHome
<1> HIDE DEF p, key, h
<1>6. ASSUME NEW v \in Workers, Holds(v, key)', ~Current(v, p)'
      PROVE  Holds(v, key) /\ ~Current(v, p)
  <2>1. CASE v = w
    <3>1. IdemKey(h) = key
      BY <1>2, <1>6, <2>1 DEF Holds, IdemKey, EventOf
    <3>2. pos'[p] # committed'[p] /\ owner'[p] = w
      BY <1>1, <1>2, <1>3, <1>5, <3>1 DEF TypeInv, TypeOK
    <3> QED BY <1>6, <2>1, <3>2 DEF Current
  <2>2. CASE v # w
    <3>1. Holds(v, key)
      BY <1>4, <1>6, <2>2, HoldsOnly
    <3>2. ~Current(v, p)
      BY <1>1, <1>2, <1>6, <2>2 DEF Current, TypeInv, TypeOK
    <3> QED BY <3>1, <3>2
  <2> QED BY <2>1, <2>2
<1>7. ASSUME MayForward(p, key)' PROVE MayForward(p, key)
  <2>1. CASE owner[p] = w
    <3>1. ~InWork(p, key, {"write", "forward"})' /\ ~InWork(p, key, {"remember"})
      BY <1>1, <1>2, <1>3, <2>1 DEF InWork
    <3> QED BY <1>2, <1>7, <3>1 DEF MayForward
  <2>2. CASE owner[p] # w
    <3>1. p # q /\ pos'[p] = pos[p]
      BY <1>1, <1>2, <2>2 DEF TypeInv, TypeOK
    <3>2. pos[p] # committed[p] => pc'[owner[p]] = pc[owner[p]]
      <4>1. pos[p] # committed[p] => owner[p] \in Workers
        BY <1>1 DEF PositionMatchesHand, TypeInv, TypeOK
      <4> QED BY <1>2, <2>2, <4>1
    <3> QED BY <1>2, <1>7, <3>1, <3>2 DEF MayForward, InWork, IdemKey, EventOf
  <2> QED BY <2>1, <2>2
<1>8. Again(p)' = Again(p)
  BY <1>2 DEF Again, Orphans
<1>9. Owes(p, key)' <= Owes(p, key)
  BY <1>7, <1>8 DEF Owes, One
<1> QED BY <1>6, <1>9 DEF Stale, p, key

LEMMA CommitOwes ==
    ASSUME TypeInv, PositionMatchesHand, [Next]_vars, NEW p \in Partitions, NEW key,
           NEW w \in Workers, Commit(w)
    PROVE  /\ Stale(p, key)' \subseteq Stale(p, key)
           /\ Owes(p, key)' <= Owes(p, key)
<1>1. /\ UNCHANGED <<owner, pos, idem>> /\ pc[w] = "commit" /\ pc'[w] = "idle"
      /\ committed'[p] = IF owner[p] = w THEN pos[p] ELSE committed[p]
      /\ \A v \in Workers : v # w => pc'[v] = pc[v]
  BY DEF Commit, LetGo, CommittedBy, TypeInv, TypeOK, storeVars
<1>2. ASSUME NEW v \in Workers, Holds(v, key)', ~Current(v, p)'
      PROVE  Holds(v, key) /\ ~Current(v, p)
  <2>1. v # w
    BY <1>1, <1>2 DEF Holds
  <2>2. ~ \E q \in Partitions : Fetch(v, q)
    <3>1. ASSUME NEW q \in Partitions, Fetch(v, q) PROVE FALSE
      BY <1>1, <3>1 DEF Fetch, TypeInv, TypeOK
    <3> QED BY <3>1
  <2>3. ~Current(v, p)
    BY <1>1, <1>2, <2>1 DEF Current
  <2> QED BY <1>2, <2>2, <2>3, HoldsOnly
<1>3. ASSUME MayForward(p, key)' PROVE MayForward(p, key)
  <2>1. CASE owner[p] = w
    BY <1>1, <1>3, <2>1 DEF MayForward, InWork
  <2>2. CASE owner[p] # w
    <3>1. pos[p] # committed[p] => pc'[owner[p]] = pc[owner[p]]
      <4>1. pos[p] # committed[p] => owner[p] \in Workers
        BY DEF PositionMatchesHand, TypeInv, TypeOK
      <4> QED BY <1>1, <2>2, <4>1
    <3> QED BY <1>1, <1>3, <2>2, <3>1 DEF MayForward, InWork, IdemKey, EventOf
  <2> QED BY <2>1, <2>2
<1>4. Again(p)' = Again(p)
  BY <1>1 DEF Again, Orphans
<1>5. Owes(p, key)' <= Owes(p, key)
  BY <1>3, <1>4 DEF Owes, One
<1> QED BY <1>2, <1>5 DEF Stale

LEMMA CrashOwes ==
    ASSUME TypeInv, PositionMatchesHand, [Next]_vars, NEW p \in Partitions, NEW key,
           NEW w \in Workers, Crash(w)
    PROVE  /\ Stale(p, key)' \subseteq Stale(p, key)
           /\ Owes(p, key)' <= Owes(p, key) + 1
<1>1. /\ UNCHANGED <<committed, idem>> /\ pc'[w] = "down"
      /\ owner'[p] = IF owner[p] = w THEN None ELSE owner[p]
      /\ pos'[p] = IF owner[p] = w THEN committed[p] ELSE pos[p]
      /\ \A v \in Workers : v # w => pc'[v] = pc[v] /\ cur'[v] = cur[v]
  BY DEF Crash, LetGo, LeaveGroup, TypeInv, TypeOK, storeVars
<1>2. ASSUME NEW v \in Workers, Holds(v, key)', ~Current(v, p)'
      PROVE  Holds(v, key) /\ ~Current(v, p)
  <2>1. v # w
    BY <1>1, <1>2 DEF Holds
  <2>2. Holds(v, key)
    BY <1>1, <1>2, <2>1 DEF Holds, IdemKey, EventOf
  <2>3. ~Current(v, p)
    BY <1>1, <1>2, <2>1 DEF Current
  <2> QED BY <2>2, <2>3
<1>3. CASE owner[p] = w
  <2>1. ~Again(p)'
    BY <1>1, <1>3 DEF Again
  <2>2. Owes(p, key)' <= 1 /\ Owes(p, key) >= 0
    BY <2>1 DEF Owes, One
  <2>3. Owes(p, key)' \in Int /\ Owes(p, key) \in Int
    BY DEF Owes, One
  <2> QED BY <1>2, <2>2, <2>3 DEF Stale
<1>4. CASE owner[p] # w
  <2>1. pos[p] # committed[p] => pc'[owner[p]] = pc[owner[p]]
    <3>1. pos[p] # committed[p] => owner[p] \in Workers
      BY DEF PositionMatchesHand, TypeInv, TypeOK
    <3> QED BY <1>1, <1>4, <3>1
  <2>2. MayForward(p, key)' => MayForward(p, key)
    BY <1>1, <1>4, <2>1 DEF MayForward, InWork, IdemKey, EventOf
  <2>3. Owes(p, key)' <= Owes(p, key) + 1
    BY <2>2 DEF Owes, One
  <2> QED BY <1>2, <2>3 DEF Stale
<1> QED BY <1>3, <1>4

LEMMA RebalanceOwes ==
    ASSUME TypeInv, PositionMatchesHand, [Next]_vars, NEW p \in Partitions, NEW key,
           IsFiniteSet(Stale(p, key)), RebalanceOrphans \/ RebalanceAnew
    PROVE  OwesLess(p, key)
<1>1. /\ UNCHANGED <<workerVars, committed, idem>> /\ pos'[p] = committed[p]
      /\ \A q \in Partitions : owner'[q] \in Workers
      /\ faults \in Int /\ faults' \in Int
  BY BoundsAssumption
  DEF RebalanceOrphans, RebalanceAnew, Assign, Live, storeVars, Fault, TypeInv, TypeOK
<1>2. ~Again(p)'
  BY <1>1, NoneAssumption DEF Again, Orphans
<1>3. MayForward(p, key)' <=> key \notin idem
  BY <1>1 DEF MayForward, InWork
<1>4. \A v \in Workers : Holds(v, key)' <=> Holds(v, key)
  BY <1>1 DEF Holds, workerVars, IdemKey, EventOf
<1>5. owner[p] # None => Again(p) \/ faults' = faults + 1
  BY DEF RebalanceOrphans, RebalanceAnew, Fault, Again, Orphans
<1>6. faults' = faults \/ faults' = faults + 1
  BY DEF RebalanceOrphans, RebalanceAnew, Fault
<1>7. CASE pos[p] = committed[p]
  <2>1. Stale(p, key)' \subseteq Stale(p, key)
    BY <1>4, <1>7 DEF Stale, Current
  <2>2. MayForward(p, key)' => MayForward(p, key)
    BY <1>3, <1>7 DEF MayForward, InWork
  <2>3. Owes(p, key)' <= Owes(p, key)
    BY <1>2, <2>2 DEF Owes, One
  <2>4. Owes(p, key)' \in Int /\ Owes(p, key) \in Int
    BY DEF Owes, One
  <2>5. Owes(p, key)' <= Owes(p, key) + (faults' - faults)
    BY <1>1, <1>6, <2>3, <2>4
  <2> QED BY <1>1, <2>1, <2>5, OwesLessWhen
<1>8. CASE pos[p] # committed[p]
  <2>1. owner[p] \in Workers /\ owner[p] # None /\ cur[owner[p]] = <<p, pos[p]>>
    BY <1>8, NoneAssumption DEF PositionMatchesHand, TypeInv, TypeOK
  <2>2. CASE ~Holds(owner[p], key)
    <3>1. Stale(p, key)' \subseteq Stale(p, key)
      BY <1>4, <2>2 DEF Stale, Current
    <3>2. Owes(p, key)' <= 1 /\ (Again(p) => Owes(p, key) >= 1) /\ Owes(p, key) >= 0
      BY <1>2 DEF Owes, One
    <3>3. Owes(p, key)' \in Int /\ Owes(p, key) \in Int
      BY DEF Owes, One
    <3>4. Owes(p, key)' <= Owes(p, key) + (faults' - faults)
      BY <1>1, <1>5, <1>6, <2>1, <3>2, <3>3
    <3> QED BY <1>1, <3>1, <3>4, OwesLessWhen
  <2>3. CASE Holds(owner[p], key)
    <3>1. Stale(p, key)' \subseteq Stale(p, key) \cup {owner[p]}
      BY <1>4 DEF Stale, Current
    <3>2. /\ IsFiniteSet(Stale(p, key)')
          /\ Cardinality(Stale(p, key)') <= Cardinality(Stale(p, key)) + 1
      <4>1. /\ IsFiniteSet(Stale(p, key) \cup {owner[p]})
            /\ Cardinality(Stale(p, key) \cup {owner[p]})
                  \in {Cardinality(Stale(p, key)), Cardinality(Stale(p, key)) + 1}
        BY FS_AddElement
      <4>2. /\ IsFiniteSet(Stale(p, key)')
            /\ Cardinality(Stale(p, key)') <= Cardinality(Stale(p, key) \cup {owner[p]})
        BY <3>1, <4>1, FS_Subset
      <4>3. Cardinality(Stale(p, key)') \in Nat /\ Cardinality(Stale(p, key)) \in Nat
        BY <4>2, FS_CardinalityType
      <4> QED BY <4>1, <4>2, <4>3
    <3>3. MayForward(p, key)' => MayForward(p, key)
      BY <1>3, <1>8, <2>1, <2>3 DEF MayForward, InWork, Holds
    <3>4. Owes(p, key)' <= Owes(p, key) + (faults' - faults) - 1
      <4>1. Owes(p, key)' <= Owes(p, key) /\ (Again(p) => Owes(p, key)' <= Owes(p, key) - 1)
        BY <1>2, <3>3 DEF Owes, One
      <4>2. Owes(p, key)' \in Int /\ Owes(p, key) \in Int
        BY DEF Owes, One
      <4> QED BY <1>1, <1>5, <1>6, <2>1, <4>1, <4>2
    <3>5. /\ Owes(p, key)' \in Int /\ Owes(p, key) \in Int
          /\ Cardinality(Stale(p, key)') \in Nat /\ Cardinality(Stale(p, key)) \in Nat
      BY <3>2, FS_CardinalityType DEF Owes, One
    <3> QED BY <1>1, <3>2, <3>4, <3>5 DEF OwesLess
  <2> QED BY <2>2, <2>3
<1> QED BY <1>7, <1>8

\* A call of a message in hand leaves the group alone.
LEMMA AgainSame ==
    ASSUME UNCHANGED groupVars, NEW p
    PROVE  Again(p)' = Again(p)
  BY DEF groupVars, Again, Orphans

\* Every step but a publication leaves the copies alone, and adds to what is
\* owed or held only what it injects of faults.
LEMMA OwesStep ==
    ASSUME TypeInv, PositionMatchesHand, [Next]_vars, NEW m \in Messages,
           IsFiniteSet(Stale(m[1], IdemKey(m))),
           ~ \E w \in Workers : Forward(w) \/ ForwardFails(w)
    PROVE  forwarded' = forwarded /\ OwesLess(m[1], IdemKey(m))
<1> DEFINE p == m[1]
           key == IdemKey(m)
<1>1. p \in Partitions /\ faults \in Int
  BY MessageFacts, BoundsAssumption DEF TypeInv, TypeOK
<1>2. Owes(p, key) \in Int /\ Owes(p, key)' \in Int
  BY DEF Owes, One
<1>3. ASSUME Stale(p, key)' \subseteq Stale(p, key), faults' = faults,
             Owes(p, key)' <= Owes(p, key)
      PROVE  OwesLess(p, key)
  <2> HIDE DEF p, key
  <2>1. faults' \in Int /\ Owes(p, key)' <= Owes(p, key) + (faults' - faults)
    BY <1>1, <1>2, <1>3
  <2>2. IsFiniteSet(Stale(p, key))
    BY DEF p, key
  <2> QED BY <1>1, <1>3, <2>1, <2>2, OwesLessWhen
<1>4. ASSUME Stale(p, key)' \subseteq Stale(p, key), faults' = faults + 1,
             Owes(p, key)' <= Owes(p, key) + 1
      PROVE  OwesLess(p, key)
  <2> HIDE DEF p, key
  <2>1. faults' \in Int /\ Owes(p, key)' <= Owes(p, key) + (faults' - faults)
    BY <1>1, <1>2, <1>4
  <2>2. IsFiniteSet(Stale(p, key))
    BY DEF p, key
  <2> QED BY <1>1, <1>4, <2>1, <2>2, OwesLessWhen
<1>5. ASSUME NEW w \in Workers, NEW q \in Partitions, Fetch(w, q)
      PROVE  forwarded' = forwarded /\ OwesLess(p, key)
  <2>1. faults' = faults /\ forwarded' = forwarded
    BY <1>5 DEF Fetch, storeVars
  <2> QED BY <1>3, <1>5, <2>1, FetchOwes
<1>6. ASSUME NEW w \in Workers, Commit(w)
      PROVE  forwarded' = forwarded /\ OwesLess(p, key)
  <2>1. faults' = faults /\ forwarded' = forwarded
    BY <1>6 DEF Commit, storeVars
  <2> QED BY <1>1, <1>3, <1>6, <2>1, CommitOwes
<1>7. ASSUME NEW w \in Workers, Crash(w)
      PROVE  forwarded' = forwarded /\ OwesLess(p, key)
  <2>1. faults' = faults + 1 /\ forwarded' = forwarded
    BY <1>7 DEF Crash, Fault, storeVars
  <2> QED BY <1>1, <1>4, <1>7, <2>1, CrashOwes
<1>8. CASE RebalanceOrphans \/ RebalanceAnew
  <2>1. forwarded' = forwarded
    BY <1>8 DEF RebalanceOrphans, RebalanceAnew, Assign, storeVars
  <2> QED BY <1>1, <1>8, <2>1, RebalanceOwes
<1>9. ASSUME NEW w \in Workers,
             CacheHit(w) \/ CacheMiss(w) \/ Write(w) \/ Remember(w) \/ DeadLetter(w) \/ Restart(w)
      PROVE  forwarded' = forwarded /\ OwesLess(p, key)
  <2>1. faults' = faults /\ forwarded' = forwarded /\ UNCHANGED groupVars
    BY <1>9 DEF CacheHit, CacheMiss, Write, Remember, DeadLetter, Restart, storeVars
  <2>2. MayForward(p, key)' => MayForward(p, key)
    BY <1>1, <1>9, HandOwes
  <2>3. Owes(p, key)' <= Owes(p, key)
    BY <2>1, <2>2, AgainSame DEF Owes, One
  <2> QED BY <1>3, <2>1, <2>3, StaleShrinks
<1>10. ASSUME faults' = faults + 1, UNCHANGED groupVars
       PROVE  OwesLess(p, key)
  <2>1. Owes(p, key)' <= Owes(p, key) + 1
    BY <1>10, AgainSame DEF Owes, One
  <2> QED BY <1>4, <1>10, <2>1, StaleShrinks
<1>11. ASSUME NEW w \in Workers,
              \/ CacheFails(w) \/ WriteFails(w) \/ RememberFails(w)
              \/ DeadLetterFails(w) \/ RestartFails(w)
       PROVE  forwarded' = forwarded /\ OwesLess(p, key)
  <2>1. forwarded' = forwarded /\ faults' = faults + 1 /\ UNCHANGED groupVars
    BY <1>11
    DEF CacheFails, WriteFails, RememberFails, DeadLetterFails, RestartFails, Fault, storeVars
  <2> QED BY <1>10, <2>1
<1>12. CASE Expire
  <2>1. forwarded' = forwarded /\ faults' = faults + 1 /\ UNCHANGED groupVars
    BY <1>12 DEF Expire, Fault
  <2> QED BY <1>10, <2>1
<1>13. CASE UNCHANGED vars
  <2>1. /\ forwarded' = forwarded /\ faults' = faults
        /\ UNCHANGED groupVars /\ UNCHANGED workerVars /\ idem' = idem
    BY <1>13 DEF vars, storeVars
  <2>2. MayForward(p, key)' => MayForward(p, key)
    BY <2>1 DEF MayForward, InWork, groupVars, workerVars, IdemKey, EventOf
  <2>3. Owes(p, key)' <= Owes(p, key)
    BY <2>1, <2>2, AgainSame DEF Owes, One
  <2> QED BY <1>3, <2>1, <2>3, StaleShrinks
<1> QED
  BY <1>5, <1>6, <1>7, <1>8, <1>9, <1>11, <1>12, <1>13
  DEF Next, Step, Disturb, Recover, Quiescent

\* A publication turns a copy that was held or owed into one that is there.
LEMMA PublicationStep ==
    ASSUME TypeInv, PositionMatchesHand, [Next]_vars, NEW m \in Messages, NEW w \in Workers,
           IsFiniteSet(Copies(IdemKey(m))), IsFiniteSet(Stale(m[1], IdemKey(m))),
           Forward(w) \/ ForwardFails(w)
    PROVE  /\ IsFiniteSet(Copies(IdemKey(m))') /\ IsFiniteSet(Stale(m[1], IdemKey(m))')
           /\ Cardinality(Copies(IdemKey(m))') + Cardinality(Stale(m[1], IdemKey(m))')
                 + Owes(m[1], IdemKey(m))'
              <= Cardinality(Copies(IdemKey(m))) + Cardinality(Stale(m[1], IdemKey(m)))
                 + Owes(m[1], IdemKey(m)) + (faults' - faults)
<1> DEFINE p == m[1]
           key == IdemKey(m)
<1>0. IsFiniteSet(Copies(key))
  OBVIOUS
<1>1. p \in Partitions /\ faults \in Int
  BY MessageFacts, BoundsAssumption DEF TypeInv, TypeOK
<1>2. cur[w] \in Messages /\ UNCHANGED groupVars
  BY HandInProgress, BusyLabels DEF Forward, ForwardFails
<1>3. Stale(p, key)' \subseteq Stale(p, key)
  BY <1>2, StaleShrinks
<1>4. /\ IsFiniteSet(Stale(p, key)') /\ Cardinality(Stale(p, key)') <= Cardinality(Stale(p, key))
      /\ Cardinality(Stale(p, key)') \in Nat /\ Cardinality(Stale(p, key)) \in Nat
  BY <1>3, FS_Subset, FS_CardinalityType
<1>5. MayForward(p, key)' => MayForward(p, key)
  BY <1>1, HandOwes
<1>6. /\ Owes(p, key) \in Int /\ Owes(p, key)' \in Int /\ Owes(p, key)' <= Owes(p, key)
  BY <1>2, <1>5, AgainSame DEF Owes, One
<1>7. ASSUME Publish(cur[w])
      PROVE  /\ IsFiniteSet(Copies(key)')
             /\ Cardinality(Copies(key)') = Cardinality(Copies(key)) + One(IdemKey(cur[w]) = key)
  BY <1>2, <1>7, PublishCopies DEF TypeInv
<1>8. ASSUME forwarded' = forwarded
      PROVE  IsFiniteSet(Copies(key)') /\ Cardinality(Copies(key)') = Cardinality(Copies(key))
  <2>1. Copies(key)' = Copies(key)
    BY <1>8 DEF Copies, IdemKey, EventOf
  <2> HIDE DEF key
  <2> QED BY <1>0, <2>1
<1>9. Cardinality(Copies(key)) \in Nat
  BY FS_CardinalityType
<1>10. CASE ForwardFails(w)
  <2>1. faults' = faults + 1 /\ (Publish(cur[w]) \/ forwarded' = forwarded)
    BY <1>10 DEF ForwardFails, Fault
  <2>2. /\ IsFiniteSet(Copies(key)')
        /\ \/ Cardinality(Copies(key)') = Cardinality(Copies(key))
           \/ Cardinality(Copies(key)') = Cardinality(Copies(key)) + 1
    BY <1>7, <1>8, <1>9, <2>1 DEF One
  <2> HIDE DEF p, key
  <2>3. /\ IsFiniteSet(Copies(key)') /\ IsFiniteSet(Stale(p, key)')
        /\ Cardinality(Copies(key)') + Cardinality(Stale(p, key)') + Owes(p, key)'
             <= Cardinality(Copies(key)) + Cardinality(Stale(p, key)) + Owes(p, key)
                + (faults' - faults)
    BY <1>1, <1>4, <1>6, <1>9, <2>1, <2>2
  <2> QED BY <2>3 DEF p, key
<1>11. CASE Forward(w)
  <2>1. /\ Publish(cur[w]) /\ faults' = faults
        /\ pc[w] = "forward" /\ pc'[w] = "remember" /\ idem' = idem
    BY <1>11 DEF Forward, Advance, Goto, TypeInv, TypeOK
  <2>2. CASE IdemKey(cur[w]) # key
    <3>1. IsFiniteSet(Copies(key)') /\ Cardinality(Copies(key)') = Cardinality(Copies(key))
      BY <1>7, <1>9, <2>1, <2>2 DEF One
    <3> HIDE DEF p, key
    <3>2. /\ IsFiniteSet(Copies(key)') /\ IsFiniteSet(Stale(p, key)')
          /\ Cardinality(Copies(key)') + Cardinality(Stale(p, key)') + Owes(p, key)'
               <= Cardinality(Copies(key)) + Cardinality(Stale(p, key)) + Owes(p, key)
                  + (faults' - faults)
      BY <1>1, <1>4, <1>6, <1>9, <2>1, <3>1
    <3> QED BY <3>2 DEF p, key
  <2>3. CASE IdemKey(cur[w]) = key
    <3>1. IsFiniteSet(Copies(key)') /\ Cardinality(Copies(key)') = Cardinality(Copies(key)) + 1
      BY <1>7, <1>9, <2>1, <2>3 DEF One
    <3>2. CASE Current(w, p)
      <4>1. cur[w] = <<p, pos[p]>> /\ pos[p] # committed[p] /\ owner[p] = w
        BY <1>1, <3>2 DEF Current, PositionMatchesHand
      <4>2. InWork(p, key, {"write", "forward"}) /\ InWork(p, key, {"remember"})'
        BY <1>2, <2>1, <2>3, <4>1 DEF InWork, groupVars, IdemKey, EventOf
      <4>3. ~InWork(p, key, {"write", "forward"})'
        BY <1>2, <2>1, <4>1 DEF InWork, groupVars
      <4>4. MayForward(p, key) /\ ~MayForward(p, key)'
        BY <4>2, <4>3 DEF MayForward
      <4>5. Owes(p, key)' = Owes(p, key) - 1
        BY <1>2, <4>4, AgainSame DEF Owes, One
      <4> HIDE DEF p, key
      <4>6. /\ IsFiniteSet(Copies(key)') /\ IsFiniteSet(Stale(p, key)')
            /\ Cardinality(Copies(key)') + Cardinality(Stale(p, key)') + Owes(p, key)'
                 <= Cardinality(Copies(key)) + Cardinality(Stale(p, key)) + Owes(p, key)
                    + (faults' - faults)
        BY <1>1, <1>4, <1>6, <1>9, <2>1, <3>1, <4>5
      <4> QED BY <4>6 DEF p, key
    <3>3. CASE ~Current(w, p)
      <4>1. w \in Stale(p, key) /\ w \notin Stale(p, key)'
        BY <2>1, <2>3, <3>3 DEF Stale, Holds
      <4>2. Stale(p, key)' \subseteq Stale(p, key) \ {w}
        BY <1>3, <4>1
      <4>3. /\ IsFiniteSet(Stale(p, key) \ {w})
            /\ Cardinality(Stale(p, key) \ {w}) = Cardinality(Stale(p, key)) - 1
        BY <4>1, FS_RemoveElement
      <4>4. Cardinality(Stale(p, key)') <= Cardinality(Stale(p, key)) - 1
        BY <4>2, <4>3, FS_Subset
      <4> HIDE DEF p, key
      <4>5. /\ IsFiniteSet(Copies(key)') /\ IsFiniteSet(Stale(p, key)')
            /\ Cardinality(Copies(key)') + Cardinality(Stale(p, key)') + Owes(p, key)'
                 <= Cardinality(Copies(key)) + Cardinality(Stale(p, key)) + Owes(p, key)
                    + (faults' - faults)
        BY <1>1, <1>4, <1>6, <1>9, <2>1, <3>1, <4>4
      <4> QED BY <4>5 DEF p, key
    <3> QED BY <3>2, <3>3
  <2> QED BY <2>2, <2>3
<1> QED BY <1>10, <1>11

LEMMA CopiesInit == Init => CopiesInv
<1> SUFFICES ASSUME Init, NEW m \in Messages
             PROVE  /\ IsFiniteSet(Copies(IdemKey(m))) /\ IsFiniteSet(Stale(m[1], IdemKey(m)))
                    /\ Cardinality(Copies(IdemKey(m))) + Cardinality(Stale(m[1], IdemKey(m)))
                          + Owes(m[1], IdemKey(m)) <= 1 + faults
  BY DEF CopiesInv
<1>1. Copies(IdemKey(m)) = {}
  BY DEF Init, Copies
<1>2. Stale(m[1], IdemKey(m)) = {}
  BY DEF Init, Stale, Holds
<1>3. Owes(m[1], IdemKey(m)) <= 1 /\ Owes(m[1], IdemKey(m)) \in Int
  BY MessageFacts DEF Init, Owes, Again, One
<1>4. faults = 0
  BY DEF Init
<1> QED BY <1>1, <1>2, <1>3, <1>4, FS_EmptySet

LEMMA CopiesStep == TypeInv /\ PositionMatchesHand /\ CopiesInv /\ [Next]_vars => CopiesInv'
<1> SUFFICES ASSUME TypeInv, PositionMatchesHand, CopiesInv, [Next]_vars, NEW m \in Messages
             PROVE  /\ IsFiniteSet(Copies(IdemKey(m))') /\ IsFiniteSet(Stale(m[1], IdemKey(m))')
                    /\ Cardinality(Copies(IdemKey(m))') + Cardinality(Stale(m[1], IdemKey(m))')
                          + Owes(m[1], IdemKey(m))' <= 1 + faults'
  BY DEF CopiesInv, IdemKey, EventOf
<1> DEFINE p == m[1]
           key == IdemKey(m)
<1>1. /\ IsFiniteSet(Copies(key)) /\ IsFiniteSet(Stale(p, key))
      /\ Cardinality(Copies(key)) + Cardinality(Stale(p, key)) + Owes(p, key) <= 1 + faults
  BY DEF CopiesInv
<1>2. CASE \E w \in Workers : Forward(w) \/ ForwardFails(w)
  <2>1. /\ IsFiniteSet(Copies(key)') /\ IsFiniteSet(Stale(p, key)')
        /\ Cardinality(Copies(key)') + Cardinality(Stale(p, key)') + Owes(p, key)'
             <= Cardinality(Copies(key)) + Cardinality(Stale(p, key)) + Owes(p, key)
                + (faults' - faults)
    BY <1>1, <1>2, PublicationStep
  <2>2. faults \in Int /\ faults' \in Int
    BY <1>2, BoundsAssumption DEF TypeInv, TypeOK, Forward, ForwardFails, Fault
  <2>3. /\ Cardinality(Copies(key)) \in Int /\ Cardinality(Stale(p, key)) \in Int
        /\ Cardinality(Copies(key)') \in Int /\ Cardinality(Stale(p, key)') \in Int
        /\ Owes(p, key) \in Int /\ Owes(p, key)' \in Int
    BY <1>1, <2>1, FS_CardinalityType DEF Owes, One
  <2> HIDE DEF p, key
  <2>4. Cardinality(Copies(key)') + Cardinality(Stale(p, key)') + Owes(p, key)' <= 1 + faults'
    BY <1>1, <2>1, <2>2, <2>3
  <2> QED BY <2>1, <2>4 DEF p, key
<1>3. CASE ~ \E w \in Workers : Forward(w) \/ ForwardFails(w)
  <2>1. forwarded' = forwarded /\ OwesLess(p, key)
    BY <1>1, <1>3, OwesStep
  <2>2. Copies(key)' = Copies(key)
    BY <2>1 DEF Copies, IdemKey, EventOf
  <2>3. /\ faults \in Int /\ faults' \in Int
    BY TypeStep, BoundsAssumption DEF TypeInv, TypeOK
  <2>4. /\ Cardinality(Copies(key)) \in Int /\ Cardinality(Stale(p, key)) \in Int
        /\ Cardinality(Stale(p, key)') \in Int
        /\ Owes(p, key) \in Int /\ Owes(p, key)' \in Int
    BY <1>1, <2>1, FS_CardinalityType DEF Owes, One, OwesLess
  <2>5. /\ IsFiniteSet(Stale(p, key)')
        /\ Cardinality(Stale(p, key)') + Owes(p, key)'
              <= Cardinality(Stale(p, key)) + Owes(p, key) + (faults' - faults)
    BY <2>1 DEF OwesLess
  <2> HIDE DEF p, key
  <2>6. Cardinality(Copies(key)') + Cardinality(Stale(p, key)') + Owes(p, key)' <= 1 + faults'
    BY <1>1, <2>2, <2>3, <2>4, <2>5
  <2> QED BY <1>1, <2>2, <2>5, <2>6 DEF p, key
<1> QED BY <1>2, <1>3

\* Whether an event was published to flight-events once or repeatedly, the
\* copies of it on processed-flights are at most one plus the faults
\* injected so far.
THEOREM CopiesArePaidFor == Spec => []DuplicatesArePaidFor
<1>1. TypeInv /\ CopiesInv => DuplicatesArePaidFor
  <2> SUFFICES ASSUME TypeInv, CopiesInv, NEW m \in Messages
               PROVE  Cardinality(Copies(IdemKey(m))) <= 1 + faults
    BY DEF DuplicatesArePaidFor
  <2>1. /\ IsFiniteSet(Copies(IdemKey(m))) /\ IsFiniteSet(Stale(m[1], IdemKey(m)))
        /\ Cardinality(Copies(IdemKey(m))) + Cardinality(Stale(m[1], IdemKey(m)))
              + Owes(m[1], IdemKey(m)) <= 1 + faults
    BY DEF CopiesInv
  <2>2. /\ Cardinality(Copies(IdemKey(m))) \in Nat /\ Cardinality(Stale(m[1], IdemKey(m))) \in Nat
        /\ Owes(m[1], IdemKey(m)) \in Nat
    BY <2>1, FS_CardinalityType DEF Owes, One
  <2>3. faults \in Int
    BY BoundsAssumption DEF TypeInv, TypeOK
  <2> QED BY <2>1, <2>2, <2>3
<1>2. IInv => TypeInv /\ PositionMatchesHand
  BY DEF IInv
<1> QED BY <1>1, <1>2, CopiesInit, CopiesStep, IInvHolds, PTL DEF Spec
----------------------------------------------------------------------------
(* The pool implements DeliveryContract.                                   *)

LEMMA ContractInit == Init => Contract!Init
<1> SUFFICES ASSUME Init PROVE Contract!Init
  OBVIOUS
<1>1. \A m \in Messages : ~Settled(m)
  BY DEF Init, Settled, Stored, Forwarded, DeadLettered
<1> QED BY <1>1 DEF Init, Contract!Init

LEMMA ContractMessages == Contract!Messages = Messages
  BY DEF Contract!Messages, Messages

LEMMA ContractStep == IInv /\ IInv' /\ [Next]_vars => [Contract!Next]_(Contract!vars)
<1> SUFFICES ASSUME IInv, IInv', [Next]_vars PROVE [Contract!Next]_(Contract!vars)
  OBVIOUS
<1> DEFINE S == {m \in Messages : Settled(m)}
<1>1. StoresGrow
  BY StoresGrowStep DEF IInv
<1>2. S \subseteq S'
  BY <1>1, OutcomesStay DEF IInv, TypeInv
<1>3. CASE committed' = committed
  <2>1. S' \in SUBSET Contract!Messages
    BY ContractMessages
  <2> QED BY <1>2, <1>3, <2>1 DEF Contract!Next, Contract!Settle
<1>4. CASE committed' # committed
  <2>1. PICK w \in Workers : Commit(w)
    BY <1>4, CommittedUnchanged
  <2>2. PICK p \in Partitions : committed'[p] # committed[p]
    BY <1>4 DEF IInv, TypeInv, TypeOK
  <2>3. /\ committed'[p] = committed[p] + 1
        /\ cur[w] = <<p, committed[p] + 1>>
        /\ cur[w] \in Messages /\ Settled(cur[w])
    BY <2>1, <2>2, CommitMoves
  <2>4. \A q \in Partitions \ {p} : committed'[q] = committed[q]
    BY <2>1, <2>3, CommitMoves
  <2>5. committed' = [committed EXCEPT ![p] = @ + 1]
    BY <2>3, <2>4 DEF IInv, TypeInv, TypeOK
  <2>6. <<p, committed[p] + 1>> \in S
    BY <2>3
  <2>7. S' = S
    BY <2>1 DEF Commit, storeVars, Settled, Stored, Forwarded, DeadLettered
  <2> QED BY <2>5, <2>6, <2>7 DEF Contract!Next, Contract!Ack
<1> QED BY <1>3, <1>4

\* Every behaviour of the pool is one of the delivery contract's.
THEOREM PoolImplementsContract == Spec => ContractHolds
  BY ContractInit, ContractStep, IInvHolds, PTL DEF Spec, ContractHolds, Contract!Spec

=============================================================================
