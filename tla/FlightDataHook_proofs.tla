------------------------- MODULE FlightDataHook_proofs -------------------------
(***************************************************************************)
(* Proofs about FlightDataHook.  The hook is one of the clients that       *)
(* WebSocketHub allows (HookRefinesHub), so that what WebSocketHub_proofs  *)
(* shows of the server holds behind a hook as well.                        *)
(***************************************************************************)
EXTENDS FlightDataHook, WebSocketHub_proofs, WellFoundedInduction

----------------------------------------------------------------------------
(* Induction, from the well-foundedness of Nat.                            *)

LEMMA Least ==
    ASSUME NEW T \in SUBSET Nat, T # {}
    PROVE  \E x \in T : \A y \in T : x <= y
<1> DEFINE R == OpToRel(<, Nat)
<1>1. IsWellFoundedOn(R, Nat)
  BY NatLessThanWellFounded
<1> HIDE DEF R
<1>2. PICK x \in T : \A y \in T : ~ (<<y, x>> \in R)
  BY <1>1, WFMin
<1>3. \A y \in T : ~ (y < x)
  BY <1>2 DEF R, OpToRel
<1> QED BY <1>3

LEMMA Induct ==
    ASSUME NEW S, 0 \in S, \A n \in Nat : n \in S => n + 1 \in S
    PROVE  Nat \subseteq S
<1> SUFFICES ASSUME NEW k \in Nat, k \notin S PROVE FALSE
  OBVIOUS
<1> DEFINE T == {n \in Nat : n \notin S}
<1>1. PICK x \in T : \A y \in T : x <= y
  <2> HIDE DEF T
  <2>1. T \in SUBSET Nat /\ T # {}
    BY DEF T
  <2> QED BY <2>1, Least
<1>2. x # 0 /\ x - 1 \in Nat
  BY <1>1
<1>3. x - 1 \in S
  BY <1>1, <1>2
<1> QED BY <1>1, <1>2, <1>3

\* A number of natural numbers up to a bound has a largest.
LEMMA Largest ==
    ASSUME NEW b \in Nat, NEW S \in SUBSET (0..b), S # {}
    PROVE  \E x \in S : \A y \in S : y <= x
<1> DEFINE T == {k \in Nat : k <= b /\ b - k \in S}
<1>1. T \in SUBSET Nat /\ T # {}
  <2>1. PICK y \in S : TRUE
    OBVIOUS
  <2>2. b - y \in T
    BY <2>1
  <2> QED BY <2>2
<1>2. PICK k \in T : \A l \in T : k <= l
  BY <1>1, Least
<1>3. b - k \in S /\ k \in Nat
  BY <1>2
<1>4. ASSUME NEW y \in S PROVE y <= b - k
  <2>1. b - y \in T /\ y \in Nat
    OBVIOUS
  <2>2. k <= b - y
    BY <1>2, <2>1
  <2> QED BY <1>3, <2>1, <2>2
<1> QED BY <1>3, <1>4

IsIteration(f, X, x0, n, step) ==
    f \in [0..n -> X] /\ f[0] = x0 /\ \A i \in 1..n : f[i] = step[i][f[i - 1]]

\* Every step function has its sequence of results.
LEMMA Iteration ==
    ASSUME NEW X, NEW x0 \in X, NEW n \in Nat, NEW step \in [1..n -> [X -> X]]
    PROVE  \E f : IsIteration(f, X, x0, n, step)
<1> DEFINE S == {k \in Nat : k <= n => \E f : IsIteration(f, X, x0, k, step)}
<1>1. 0 \in S
  <2>1. IsIteration([i \in 0..0 |-> x0], X, x0, 0, step)
    BY DEF IsIteration
  <2> QED BY <2>1
<1>2. \A k \in Nat : k \in S => k + 1 \in S
  <2>1. SUFFICES ASSUME NEW k \in Nat, k \in S, k + 1 <= n
                 PROVE  \E f : IsIteration(f, X, x0, k + 1, step)
    OBVIOUS
  <2>2. PICK f : IsIteration(f, X, x0, k, step)
    BY <2>1
  <2>3. f \in [0..k -> X] /\ f[0] = x0 /\ \A i \in 1..k : f[i] = step[i][f[i - 1]]
    BY <2>2 DEF IsIteration
  <2>4. k + 1 \in 1..n /\ f[k] \in X
    BY <2>1, <2>3
  <2>5. step[k + 1][f[k]] \in X
    BY <2>4
  <2> DEFINE h == [i \in 0 .. k + 1 |-> IF i = k + 1 THEN step[k + 1][f[k]] ELSE f[i]]
  <2>6. \A i \in 0 .. k + 1 : i = k + 1 \/ i \in 0..k
    OBVIOUS
  <2>7. h \in [0 .. k + 1 -> X]
    BY <2>3, <2>5, <2>6
  <2>8. h[0] = x0
    BY <2>3
  <2>9. h[k + 1] = step[k + 1][f[k]] /\ \A i \in 0..k : h[i] = f[i]
    OBVIOUS
  <2> HIDE DEF h
  <2>10. \A i \in 1 .. k + 1 : h[i] = step[i][h[i - 1]]
    <3> TAKE i \in 1 .. k + 1
    <3>1. CASE i = k + 1
      <4>1. i - 1 = k /\ k \in 0..k
        BY <3>1
      <4>2. h[i - 1] = f[k]
        BY <2>9, <4>1
      <4> QED BY <2>9, <3>1, <4>2
    <3>2. CASE i # k + 1
      <4>1. i \in 1..k /\ i \in 0..k /\ i - 1 \in 0..k
        BY <3>2
      <4>2. h[i] = f[i] /\ h[i - 1] = f[i - 1]
        BY <2>9, <4>1
      <4> QED BY <2>3, <4>1, <4>2
    <3> QED BY <3>1, <3>2
  <2>11. IsIteration(h, X, x0, k + 1, step)
    BY <2>7, <2>8, <2>10 DEF IsIteration
  <2> QED BY <2>11
<1> HIDE DEF S
<1>3. n \in S
  BY <1>1, <1>2, Induct
<1> QED BY <1>3 DEF S

----------------------------------------------------------------------------
(* What a batch does to the maps.                                          *)

LEMMA NewestTypes ==
    ASSUME NEW ns \in SUBSET (0..Len(Feed)), NEW f
    PROVE  /\ NewestOf(ns, f) \in 0..Len(Feed)
           /\ \A n \in ns : Feed[n].flight = f => n <= NewestOf(ns, f)
           /\ \/ NewestOf(ns, f) = 0
              \/ NewestOf(ns, f) \in ns /\ Feed[NewestOf(ns, f)].flight = f
<1> DEFINE S == {0} \cup {n \in ns : Feed[n].flight = f}
<1>1. Len(Feed) \in Nat /\ S \in SUBSET (0..Len(Feed)) /\ S # {}
  <2>1. Len(Feed) \in Nat /\ 0 \in 0..Len(Feed)
    BY CapIsPositive
  <2>2. S # {} /\ \A x \in S : x \in 0..Len(Feed)
    BY <2>1
  <2> QED BY <2>1, <2>2
<1>2. \E x \in S : \A y \in S : y <= x
  BY <1>1, Largest
<1>3. \A x, y \in S : y <= x <=> x >= y
  BY <1>1
<1>4. \E x \in S : \A y \in S : x >= y
  BY <1>2, <1>3
<1> DEFINE b == CHOOSE x \in S : \A y \in S : x >= y
<1>5. b \in S /\ \A y \in S : b >= y
  <2> HIDE DEF S
  <2> QED BY <1>4
<1>6. NewestOf(ns, f) = b
  BY DEF NewestOf, Max
<1> HIDE DEF b
<1>7. b \in 0..Len(Feed) /\ \A y \in S : y <= b
  BY <1>1, <1>3, <1>5
<1>8. \A n \in ns : Feed[n].flight = f => n <= b
  BY <1>7
<1>9. b = 0 \/ (b \in ns /\ Feed[b].flight = f)
  BY <1>5
<1> QED BY <1>6, <1>7, <1>8, <1>9

LEMMA UpdateTypes ==
    ASSUME NEW maps \in Maps, NEW n \in 0..Len(Feed)
    PROVE  ApplyUpdate(maps, n) \in Maps
<1> DEFINE p == Feed[n]
<1>1. /\ maps.flights \in [Flights -> 0..Len(Feed)]
      /\ maps.predictions \in [Flights -> 0..Len(Feed)]
      /\ maps.chains \in [Flights \X Flights -> 0..Len(Feed)]
      /\ maps.gates \in [Flights -> 0..Len(Feed)]
  BY DEF Maps
<1>2. /\ [maps.flights EXCEPT ![p.flight] = n] \in [Flights -> 0..Len(Feed)]
      /\ [maps.predictions EXCEPT ![p.flight] = n] \in [Flights -> 0..Len(Feed)]
      /\ [maps.gates EXCEPT ![p.flight] = n] \in [Flights -> 0..Len(Feed)]
  BY <1>1
<1>3. [maps.chains EXCEPT ![<<p.source, p.flight>>] = n] \in [Flights \X Flights -> 0..Len(Feed)]
  BY <1>1
<1> QED BY <1>1, <1>2, <1>3 DEF ApplyUpdate, Maps

LEMMA MessageStep ==
    ASSUME NEW maps \in Maps, NEW m \in Messages
    PROVE  ApplyMessage(maps, m) \in Maps
<1>1. m.what \in {"snapshot", "beat", "past", "update"} /\ m.n \in 0..Len(Feed)
  BY DEF Messages
<1>2. CASE m.what = "beat"
  BY <1>2 DEF ApplyMessage
<1>3. CASE m.what = "snapshot"
  <2>1. 1..m.n \in SUBSET (0..Len(Feed))
    BY <1>1, CapIsPositive
  <2>2. \A f \in Flights : NewestOf(1..m.n, f) \in 0..Len(Feed)
    BY <2>1, NewestTypes
  <2>3. [f \in Flights |-> NewestOf(1..m.n, f)] \in [Flights -> 0..Len(Feed)]
    BY <2>2
  <2> DEFINE all == [f \in Flights |-> NewestOf(1..m.n, f)]
  <2>4. ApplyMessage(maps, m) = [maps EXCEPT !.flights = all]
    BY <1>3 DEF ApplyMessage
  <2> HIDE DEF all
  <2> QED BY <2>3, <2>4 DEF Maps, all
<1>4. CASE m.what \in {"past", "update"}
  <2>1. ApplyMessage(maps, m) = ApplyUpdate(maps, m.n)
    BY <1>4 DEF ApplyMessage
  <2> QED BY <1>1, <2>1, UpdateTypes
<1> QED BY <1>1, <1>2, <1>3, <1>4

\* A batch is applied one message after the other.
LEMMA BatchSteps ==
    ASSUME NEW maps \in Maps, NEW batch \in Seq(Messages)
    PROVE  \E after \in [0..Len(batch) -> Maps] :
              /\ after[0] = maps
              /\ \A i \in 1..Len(batch) : after[i] = ApplyMessage(after[i - 1], batch[i])
              /\ ApplyBatch(maps, batch) = after[Len(batch)]
<1> DEFINE n == Len(batch)
           step == [i \in 1..n |-> [x \in Maps |-> ApplyMessage(x, batch[i])]]
           Eq(f) == f = [i \in 0..n |-> IF i = 0 THEN maps ELSE ApplyMessage(f[i - 1], batch[i])]
           after == CHOOSE f : Eq(f)
<1>1. n \in Nat /\ \A i \in 1..n : batch[i] \in Messages
  OBVIOUS
<1>2. step \in [1..n -> [Maps -> Maps]]
  BY <1>1, MessageStep
<1>3. \A i \in 1..n : \A x \in Maps : step[i][x] = ApplyMessage(x, batch[i])
  OBVIOUS
<1>4. ApplyBatch(maps, batch) = after[n]
  BY DEF ApplyBatch
<1> HIDE DEF n, step
<1>5. PICK f : IsIteration(f, Maps, maps, n, step)
  BY <1>1, <1>2, Iteration
<1>6. f \in [0..n -> Maps] /\ f[0] = maps /\ \A i \in 1..n : f[i] = step[i][f[i - 1]]
  BY <1>5 DEF IsIteration
<1>7. \A i \in 1..n : i - 1 \in 0..n /\ i # 0 /\ i \in 0..n
  BY <1>1
<1>8. \A i \in 1..n : f[i] = ApplyMessage(f[i - 1], batch[i])
  BY <1>3, <1>6, <1>7
<1>9. \A i \in 0..n : i = 0 \/ i \in 1..n
  BY <1>1
<1>10. Eq(f)
  BY <1>6, <1>7, <1>8, <1>9
<1>11. Eq(after)
  BY <1>10
<1> HIDE DEF after
<1>12. after[0] = maps /\ \A i \in 1..n : after[i] = ApplyMessage(after[i - 1], batch[i])
  BY <1>1, <1>7, <1>11
<1>13. \A i \in 0..n : after[i] \in Maps
  <2> DEFINE S == {i \in Nat : i <= n => after[i] \in Maps}
  <2>1. 0 \in S
    BY <1>12
  <2>2. \A i \in Nat : i \in S => i + 1 \in S
    <3>1. SUFFICES ASSUME NEW i \in Nat, i \in S, i + 1 <= n PROVE after[i + 1] \in Maps
      OBVIOUS
    <3>2. after[i] \in Maps /\ i + 1 \in 1..n /\ (i + 1) - 1 = i
      BY <1>1, <3>1
    <3>3. after[i + 1] = ApplyMessage(after[i], batch[i + 1])
      BY <1>12, <3>2
    <3> QED BY <1>1, <3>2, <3>3, MessageStep
  <2> HIDE DEF S
  <2>3. Nat \subseteq S
    BY <2>1, <2>2, Induct
  <2> QED BY <1>1, <2>3 DEF S
<1>14. after \in [0..n -> Maps]
  BY <1>11, <1>13
<1> QED BY <1>4, <1>12, <1>14 DEF n

----------------------------------------------------------------------------
(* The hook is a client of the hub.                                        *)

Asking == {Frame(f) : f \in Focus \cup {None}}

\* What the steps below need of types, and of what the hook ever sends.
HookTypes ==
    /\ HubTypes /\ HookTypeOK
    /\ wanted \in Focus \cup {None}
    /\ IsFiniteSet(cut)

LEMMA SendFrameIsSay ==
    ASSUME HookTypes, NEW f \in Focus \cup {None}, ready # "none", SendFrame(f)
    PROVE  /\ socket \in Conns /\ Frame(f) \in Frames[socket]
           /\ \/ socket \notin cut /\ phase[socket] # "closed" /\ Say(socket, Frame(f))
              \/ (socket \in cut \/ phase[socket] = "closed") /\ UNCHANGED vars
<1>1. socket \in Conns
  BY DEF HookTypes, HookTypeOK
<1>2. Frame(f) \in Frames[socket]
  BY <1>1, HookAssumption
<1> QED BY <1>1, <1>2 DEF SendFrame, Reachable

\* The steps of the hook that the server does not see.
HookAlone ==
    \/ Connect \/ OnMessage \/ Flush \/ Watchdog \/ OnClose \/ Unmount
    \/ \E c \in Conns : Cut(c)
    \/ UNCHANGED allVars

\* The steps in which the hook may send a frame.
HookSends == OnOpen \/ \E f \in Focus \cup {None} : Want(f)

\* The steps of the server and of the network towards it.
HubAlone ==
    /\ UNCHANGED <<hookVars, cut>>
    /\ \/ Apply \/ Publish
       \/ \E c \in Conns :
            \/ Serve(c)
            \/ MayFail(c) /\ StreamFails(c)
            \/ c = socket /\ ready = "connecting" /\ Reachable /\ Accept(c)
            \/ (c # socket \/ ready = "closing" \/ c \in cut) /\ Leave(c)

LEMMA HookCases == [HookNext]_allVars => HookAlone \/ HookSends \/ HubAlone
<1> SUFFICES ASSUME [HookNext]_allVars PROVE HookAlone \/ HookSends \/ HubAlone
  OBVIOUS
<1>1. CASE HookStep \/ Unmount \/ UNCHANGED allVars
  BY <1>1 DEF HookStep, HookAlone, HookSends
<1>2. CASE \E f \in Focus \cup {None} : Want(f)
  BY <1>2 DEF HookSends
<1>3. CASE \E c \in Conns : AcceptSocket(c) \/ Notice(c) \/ Cut(c)
  BY <1>3 DEF AcceptSocket, Notice, HookAlone, HubAlone
<1>4. CASE Server /\ UNCHANGED <<hookVars, cut>>
  BY <1>4 DEF Server, HubAlone
<1>5. CASE Resting
  BY <1>5 DEF Resting, HookAlone
<1> QED BY <1>1, <1>2, <1>3, <1>4, <1>5 DEF HookNext

LEMMA AloneIsSilent == HookAlone => UNCHANGED vars
BY DEF HookAlone, Connect, OnMessage, Flush, Watchdog, OnClose, Unmount, Cut, allVars

LEMMA SendsAreSays ==
    ASSUME HookTypes, HookSends
    PROVE  \/ UNCHANGED vars
           \/ \E c \in Conns, f \in Focus \cup {None} :
                 c = socket /\ Frame(f) \in Frames[c] /\ Say(c, Frame(f))
<1>1. CASE OnOpen
  <2>1. ready # "none" /\ wanted \in Focus \cup {None}
    BY <1>1 DEF OnOpen, HookTypes
  <2>2. SendFrame(wanted) \/ UNCHANGED vars
    BY <1>1 DEF OnOpen
  <2> QED BY <2>1, <2>2, SendFrameIsSay
<1>2. ASSUME NEW f \in Focus \cup {None}, Want(f)
      PROVE  \/ UNCHANGED vars
             \/ \E c \in Conns, g \in Focus \cup {None} :
                   c = socket /\ Frame(g) \in Frames[c] /\ Say(c, Frame(g))
  <2>1. (ready = "open" /\ SendFrame(f)) \/ UNCHANGED vars
    BY <1>2 DEF Want
  <2>2. CASE ready = "open" /\ SendFrame(f)
    BY <2>2, SendFrameIsSay
  <2> QED BY <2>1, <2>2
<1> QED BY <1>1, <1>2 DEF HookSends

LEMMA HookStepIsHubStep == HookTypes /\ [HookNext]_allVars => [Next]_vars
<1> SUFFICES ASSUME HookTypes, [HookNext]_allVars PROVE [Next]_vars
  OBVIOUS
<1>1. CASE HookAlone
  BY <1>1, AloneIsSilent
<1>2. CASE HookSends
  BY <1>2, SendsAreSays DEF Next
<1>3. CASE HubAlone
  BY <1>3 DEF HubAlone, Next, Disturb
<1> QED BY <1>1, <1>2, <1>3, HookCases

----------------------------------------------------------------------------
(* Types of the hook.                                                      *)

LEMMA FailureBudget ==
    ASSUME HookTypes, NEW c \in Conns, MayFail(c)
    PROVE  /\ IsFiniteSet(cut \cup {c} \cup failed)
           /\ Cardinality(cut \cup {c} \cup failed) <= MaxFaults
<1> DEFINE bad == cut \cup failed
<1>1. IsFiniteSet(bad) /\ Cardinality(bad) <= MaxFaults
  <2>1. IsFiniteSet(cut) /\ IsFiniteSet(failed)
    BY DEF HookTypes, HubTypes
  <2>2. IsFiniteSet(cut \cup failed)
    BY <2>1, FS_Union
  <2> QED BY <2>2 DEF HookTypes, HookTypeOK
<1>2. cut \cup {c} \cup failed = bad \cup {c}
  OBVIOUS
<1>3. c \in bad \/ Cardinality(bad) < MaxFaults
  BY DEF MayFail
<1> HIDE DEF bad
<1>4. CASE c \in bad
  <2>1. bad \cup {c} = bad
    BY <1>4
  <2> QED BY <1>1, <1>2, <2>1
<1>5. CASE c \notin bad
  <2>1. IsFiniteSet(bad \cup {c}) /\ Cardinality(bad \cup {c}) = Cardinality(bad) + 1
    BY <1>1, <1>5, FS_AddElement
  <2>2. Cardinality(bad) \in Nat
    BY <1>1, FS_CardinalityType
  <2>3. Cardinality(bad \cup {c}) <= MaxFaults
    BY <1>3, <1>5, <2>1, <2>2, CapIsPositive
  <2> QED BY <1>2, <2>1, <2>3
<1> QED BY <1>4, <1>5

\* What is left of HookTypes when the hub's part is known.
HookOwn ==
    /\ mounted \in BOOLEAN /\ timer \in BOOLEAN /\ ever \in BOOLEAN
    /\ status \in Statuses
    /\ socket \in Conns \cup {None}
    /\ ready \in {"none", "connecting", "open", "closing"}
    /\ socket = None <=> ready = "none"
    /\ received \in Nat
    /\ pending \in Seq(Messages)
    /\ ui \in Maps
    /\ wanted \in Focus \cup {None}

CutTypes == cut \subseteq Conns /\ IsFiniteSet(cut) /\ Cardinality(cut \cup failed) <= MaxFaults

LEMMA HookParts == HookTypes <=> HubTypes /\ HookOwn /\ CutTypes
<1>1. Focus \subseteq Flights
  BY HookAssumption
<1>2. HookTypes => HubTypes /\ HookOwn /\ CutTypes
  BY DEF HookTypes, HookTypeOK, HookOwn, CutTypes
<1>3. HubTypes /\ HookOwn /\ CutTypes => HookTypes
  BY <1>1 DEF HookTypes, HookTypeOK, HookOwn, CutTypes, HubTypes
<1> QED BY <1>2, <1>3

LEMMA FlushTypes ==
    ASSUME HookOwn, Flush
    PROVE  \E k \in 1..Len(pending) :
              /\ SubSeq(pending, 1, k) \in Seq(Messages) /\ Len(SubSeq(pending, 1, k)) = k
              /\ \A i \in 1..k : SubSeq(pending, 1, k)[i] = pending[i]
              /\ ui' = ApplyBatch(ui, SubSeq(pending, 1, k))
              /\ ui' \in Maps
              /\ pending' \in Seq(Messages) /\ Len(pending') = Len(pending) - k
              /\ \A i \in 1..Len(pending') : pending'[i] = pending[k + i]
<1>1. pending \in Seq(Messages) /\ pending # <<>> /\ Len(pending) \in Nat /\ Len(pending) # 0
  BY DEF HookOwn, Flush
<1> DEFINE k == Min({Batch, Len(pending)})
<1>2. Batch \in Nat /\ Batch # 0
  BY HookAssumption
<1>3. k \in {Batch, Len(pending)} /\ k <= Len(pending)
  <2>1. \E x \in {Batch, Len(pending)} : \A y \in {Batch, Len(pending)} : x <= y
    BY <1>1, <1>2
  <2>2. k = CHOOSE x \in {Batch, Len(pending)} : \A y \in {Batch, Len(pending)} : x <= y
    BY DEF Min
  <2> QED BY <2>1, <2>2
<1>4. ui' = ApplyBatch(ui, SubSeq(pending, 1, k)) /\ pending' = SubSeq(pending, k + 1, Len(pending))
  BY DEF Flush
<1> HIDE DEF k
<1>5. k \in 1..Len(pending)
  BY <1>1, <1>2, <1>3
<1>6. /\ SubSeq(pending, 1, k) \in Seq(Messages) /\ Len(SubSeq(pending, 1, k)) = k
      /\ \A i \in 1..k : SubSeq(pending, 1, k)[i] = pending[i]
  BY <1>1, <1>5
<1>7. /\ pending' \in Seq(Messages) /\ Len(pending') = Len(pending) - k
      /\ \A i \in 1..Len(pending') : pending'[i] = pending[k + i]
  BY <1>1, <1>4, <1>5
<1>8. ui' \in Maps
  <2> DEFINE batch == SubSeq(pending, 1, k)
  <2>1. ui \in Maps /\ batch \in Seq(Messages) /\ Len(batch) \in 0..Len(batch)
    BY <1>5, <1>6 DEF HookOwn
  <2>2. ui' = ApplyBatch(ui, batch)
    BY <1>4
  <2> HIDE DEF batch
  <2>3. PICK after \in [0..Len(batch) -> Maps] : ApplyBatch(ui, batch) = after[Len(batch)]
    BY <2>1, BatchSteps
  <2> QED BY <2>1, <2>2, <2>3
<1> QED BY <1>4, <1>5, <1>6, <1>7, <1>8

LEMMA AloneTypes ==
    ASSUME HookTypes, HookAlone
    PROVE  HookOwn' /\ CutTypes'
<1>1. HubTypes /\ HookOwn /\ CutTypes
  BY HookParts
<1>2. failed' = failed
  BY AloneIsSilent DEF vars
<1>3. CASE Connect
  <2>1. socket' \in Conns
    BY <1>3 DEF Connect
  <2>2. socket' # None
    BY <2>1, HookAssumption
  <2> QED BY <1>1, <1>2, <1>3, <2>1, <2>2 DEF Connect, HookOwn, CutTypes, Statuses
<1>4. CASE OnMessage
  <2>1. socket \in Conns /\ received \in Nat /\ received < Len(sent[socket])
    BY <1>1, <1>4 DEF OnMessage, HookOwn
  <2>2. sent[socket] \in Seq(Messages)
    BY <1>1, <2>1, StreamFacts
  <2>3. sent[socket][received + 1] \in Messages
    BY <2>1, <2>2
  <2>4. pending' \in Seq(Messages)
    BY <1>1, <1>4, <2>3, SeqOps DEF OnMessage, HookOwn
  <2>5. received' \in Nat
    BY <1>4, <2>1 DEF OnMessage
  <2> QED BY <1>1, <1>2, <1>4, <2>4, <2>5 DEF OnMessage, HookOwn, CutTypes
<1>5. CASE Flush
  <2>1. ui' \in Maps /\ pending' \in Seq(Messages)
    BY <1>1, <1>5, FlushTypes
  <2> QED BY <1>1, <1>2, <1>5, <2>1 DEF Flush, HookOwn, CutTypes
<1>6. CASE Watchdog
  BY <1>1, <1>2, <1>6 DEF Watchdog, HookOwn, CutTypes
<1>7. CASE OnClose
  BY <1>1, <1>2, <1>7 DEF OnClose, HookOwn, CutTypes, Statuses
<1>8. CASE Unmount
  <2>1. pending' \in Seq(Messages)
    BY <1>8 DEF Unmount
  <2> QED BY <1>1, <1>2, <1>8, <2>1 DEF Unmount, HookOwn, CutTypes
<1>9. ASSUME NEW c \in Conns, Cut(c) PROVE HookOwn' /\ CutTypes'
  <2>1. cut' = cut \cup {c} /\ UNCHANGED hookVars /\ MayFail(c)
    BY <1>9 DEF Cut
  <2>2. Cardinality(cut' \cup failed') <= MaxFaults
    BY <1>2, <2>1, FailureBudget
  <2>3. IsFiniteSet(cut') /\ cut' \subseteq Conns
    BY <1>1, <2>1, FS_AddElement DEF CutTypes
  <2>4. CutTypes'
    BY <2>2, <2>3 DEF CutTypes
  <2>5. HookOwn'
    BY <1>1, <2>1 DEF hookVars, HookOwn
  <2> QED BY <2>4, <2>5
<1>10. CASE UNCHANGED allVars
  BY <1>1, <1>10 DEF allVars, hookVars, vars, HookOwn, CutTypes
<1> QED BY <1>3, <1>4, <1>5, <1>6, <1>7, <1>8, <1>9, <1>10 DEF HookAlone

LEMMA SendsTypes ==
    ASSUME HookTypes, HookSends
    PROVE  HookOwn' /\ CutTypes'
<1>1. HubTypes /\ HookOwn /\ CutTypes
  BY HookParts
<1>2. failed' = failed
  BY SendsAreSays DEF vars, Say
<1>3. CASE OnOpen
  BY <1>1, <1>2, <1>3 DEF OnOpen, HookOwn, CutTypes, Statuses
<1>4. CASE \E f \in Focus \cup {None} : Want(f)
  BY <1>1, <1>2, <1>4 DEF Want, HookOwn, CutTypes
<1> QED BY <1>3, <1>4 DEF HookSends

LEMMA HubAloneTypes ==
    ASSUME HookTypes, HubAlone
    PROVE  HookOwn' /\ CutTypes'
<1>1. HubTypes /\ HookOwn /\ CutTypes
  BY HookParts
<1>2. UNCHANGED <<hookVars, cut>>
  BY DEF HubAlone
<1>3. HookOwn'
  BY <1>1, <1>2 DEF HookOwn, hookVars
<1>4. failed' = failed \/ \E c \in Conns : MayFail(c) /\ failed' = failed \cup {c}
  <2>1. CASE Apply \/ Publish
    BY <2>1 DEF Apply, Publish
  <2>2. ASSUME NEW c \in Conns, MayFail(c), StreamFails(c)
        PROVE  failed' = failed \cup {c}
    BY <2>2 DEF StreamFails, Fault
  <2>3. ASSUME NEW c \in Conns, Serve(c)
        PROVE  failed' = failed
    BY <2>3 DEF Serve, Greet, Wind, CopyHistory, Replay, GreetingFails, Start, Stream, Send,
                Receive, Disconnected, End
  <2>4. ASSUME NEW c \in Conns, Accept(c) \/ Leave(c)
        PROVE  failed' = failed
    BY <2>4 DEF Accept, Leave
  <2> QED BY <2>1, <2>2, <2>3, <2>4 DEF HubAlone
<1>5. CASE failed' = failed
  BY <1>1, <1>2, <1>3, <1>5 DEF CutTypes
<1>6. ASSUME NEW c \in Conns, MayFail(c), failed' = failed \cup {c}
      PROVE  HookOwn' /\ CutTypes'
  <2>1. cut' \cup failed' = cut \cup {c} \cup failed
    BY <1>2, <1>6
  <2>2. Cardinality(cut' \cup failed') <= MaxFaults
    BY <1>6, <2>1, FailureBudget
  <2> QED BY <1>1, <1>2, <1>3, <2>2 DEF CutTypes
<1> QED BY <1>4, <1>5, <1>6

LEMMA StepHookTypes == HookTypes /\ [HookNext]_allVars => HookTypes'
<1> SUFFICES ASSUME HookTypes, [HookNext]_allVars PROVE HookTypes'
  OBVIOUS
<1>1. HubTypes'
  BY HookStepIsHubStep, StepTypes DEF HookTypes
<1>2. HookOwn' /\ CutTypes'
  BY HookCases, AloneTypes, SendsTypes, HubAloneTypes
<1>3. Focus \subseteq Flights
  BY HookAssumption
<1> QED BY <1>1, <1>2, <1>3 DEF HookTypes, HookTypeOK, HookOwn, CutTypes, HubTypes

LEMMA InitHookTypes == HookInit => HookTypes
<1> SUFFICES ASSUME HookInit PROVE HookTypes
  OBVIOUS
<1>1. HubTypes
  BY InitTypes DEF HookInit
<1>2. ui \in Maps
  <2>1. 0 \in 0..Len(Feed)
    BY CapIsPositive
  <2> QED BY <2>1 DEF HookInit, EmptyMaps, Maps
<1>3. HookOwn
  <2>1. pending \in Seq(Messages)
    BY DEF HookInit
  <2> QED BY <1>2, <2>1 DEF HookInit, HookOwn, Statuses
<1>4. CutTypes
  <2>1. cut = {} /\ failed = {}
    BY DEF HookInit, Init
  <2>2. cut \cup failed = {}
    BY <2>1
  <2> QED BY <2>1, <2>2, FS_EmptySet, CapIsPositive DEF CutTypes
<1> QED BY <1>1, <1>3, <1>4, HookParts

\* Every variable of hook, network and server keeps its type.
THEOREM HookTypeCorrect == HookSpec => []HookTypeOK
<1>1. HookTypes => HookTypeOK
  BY DEF HookTypes
<1> QED BY <1>1, InitHookTypes, StepHookTypes, PTL DEF HookSpec

\* The server behind a hook is the server of WebSocketHub: whatever hook and
\* network do, it is met by a client that WebSocketHub already allows.
THEOREM HookRefinesHub == HookSpec => Spec
<1>1. HookInit => Init
  BY DEF HookInit
<1> QED BY <1>1, InitHookTypes, StepHookTypes, HookStepIsHubStep, PTL DEF HookSpec, Spec

----------------------------------------------------------------------------
(* What the hook asks for, and what the server understands.                *)

Meant(frame) == IF frame.action = "subscribe" THEN frame.flight ELSE None

\* What the filter will be when the frames on their way have been read.
Asked(c) == IF up[c] = <<>> THEN filter[c] ELSE Meant(up[c][Len(up[c])])

\* A connection on which nothing was asked has no filter, and as long as a
\* frame can get through, what it was last asked for is what the hook wants.
Asks(c) ==
    /\ up[c] \in Seq(Asking)
    /\ phase[c] = "idle" \/ (c = socket /\ ready = "connecting")
          => up[c] = <<>> /\ filter[c] = None
    /\ c = socket /\ ready = "open" /\ c \notin cut /\ phase[c] # "closed"
          => Asked(c) = wanted

AskInv == \A c \in Conns : Asks(c)

LEMMA FrameMeans == \A f \in Focus \cup {None} : Frame(f) \in Asking /\ Meant(Frame(f)) = f
BY DEF Frame, Asking, Meant

\* The server leaves the frames alone, drops them when the endpoint returns,
\* or reads the next one.
StillAsked(d) ==
    /\ up'[d] = up[d] /\ filter'[d] = filter[d]
    /\ phase'[d] = "idle" => phase[d] = "idle"
    /\ phase[d] = "closed" => phase'[d] = "closed"

Returned(d) == up'[d] = <<>> /\ filter'[d] = None /\ phase'[d] = "closed"

Read(d) ==
    /\ phase[d] = "live" /\ phase'[d] = phase[d]
    /\ up[d] # <<>> /\ up'[d] = Tail(up[d]) /\ filter'[d] = Meant(Head(up[d]))

LEMMA ElsewhereStillAsked ==
    ASSUME HubTypes, NEW c \in Conns, NEW d \in Conns, d # c,
           Serve(c) \/ StreamFails(c) \/ Accept(c) \/ Leave(c)
    PROVE  StillAsked(d)
<1>1. phase'[d] = phase[d] /\ filter'[d] = filter[d]
  BY ReturnElsewhere, WorkElsewhere, ClientElsewhere DEF Untouched, Serve, Greet, Wind
<1>2. up'[d] = up[d]
  <2>1. CASE StreamFails(c) \/ Accept(c) \/ Leave(c)
    BY <2>1 DEF StreamFails, Accept, Leave, clientVars
  <2>2. CASE Greet(c)
    BY <2>2 DEF Greet, CopyHistory, Replay, GreetingFails, Start, Return, clientVars,
                HubTypes, TypeOK
  <2>3. CASE Stream(c) \/ Send(c)
    BY <2>3 DEF Stream, Send, clientVars
  <2>4. CASE Receive(c)
    BY <2>4 DEF Receive, HubTypes, TypeOK
  <2>5. CASE Wind(c)
    BY <2>5 DEF Wind, Disconnected, End, Return, clientVars, HubTypes, TypeOK
  <2> QED BY <2>1, <2>2, <2>3, <2>4, <2>5 DEF Serve
<1> QED BY <1>1, <1>2 DEF StillAsked

LEMMA ServerHears ==
    ASSUME HubTypes, NEW d \in Conns, Asks(d),
           Serve(d) \/ StreamFails(d) \/ Accept(d) \/ Leave(d)
    PROVE  StillAsked(d) \/ Returned(d) \/ Read(d)
<1>1. CASE Receive(d)
  <2>1. up[d] \in Seq(Asking) /\ up[d] # <<>> /\ phase[d] = "live"
    BY <1>1 DEF Receive, Asks
  <2>2. Head(up[d]) \in Asking
    BY <2>1, HeadTail
  <2>3. PICK f \in Focus \cup {None} : Head(up[d]) = Frame(f)
    BY <2>2 DEF Asking
  <2>4. Heed(d, Head(up[d])) /\ up'[d] = Tail(up[d])
    BY <1>1 DEF Receive, HubTypes, TypeOK
  <2>5. CASE f = None
    <3>1. Head(up[d]).action = "unsubscribe"
      BY <2>3, <2>5 DEF Frame
    <3>2. Subscribe(d, None) /\ UNCHANGED phase
      BY <2>4, <3>1 DEF Heed
    <3>3. filter'[d] = None /\ Meant(Head(up[d])) = None
      BY <3>1, <3>2 DEF Subscribe, Meant, HubTypes, TypeOK
    <3> QED BY <2>1, <2>4, <3>2, <3>3 DEF Read
  <2>6. CASE f # None
    <3>1. Head(up[d]).action = "subscribe"
      BY <2>3, <2>6 DEF Frame
    <3>2. Subscribe(d, Head(up[d]).flight) /\ UNCHANGED phase
      BY <2>4, <3>1 DEF Heed
    <3>3. filter'[d] = Meant(Head(up[d]))
      BY <3>1, <3>2 DEF Subscribe, Meant, HubTypes, TypeOK
    <3> QED BY <2>1, <2>4, <3>2, <3>3 DEF Read
  <2> QED BY <2>5, <2>6
<1>2. CASE GreetingFails(d) \/ End(d)
  BY <1>2 DEF GreetingFails, End, Return, Goto, Returned, HubTypes, TypeOK
<1>3. CASE Accept(d) \/ CopyHistory(d) \/ Replay(d)
  BY <1>3 DEF Accept, CopyHistory, Replay, Goto, StillAsked, clientVars, streamVars,
              HubTypes, TypeOK
<1>4. CASE Start(d) \/ Leave(d)
  BY <1>4 DEF Start, Leave, Goto, StillAsked, clientVars, streamVars, HubTypes, TypeOK
<1>5. CASE Stream(d) \/ Disconnected(d) \/ StreamFails(d)
  BY <1>5 DEF Stream, Disconnected, StreamFails, Goto, StillAsked, clientVars, streamVars,
              HubTypes, TypeOK
<1>6. CASE Send(d)
  BY <1>6 DEF Send, Goto, Working, StillAsked, clientVars, streamVars, HubTypes, TypeOK
<1> QED BY <1>1, <1>2, <1>3, <1>4, <1>5, <1>6 DEF Serve, Greet, Wind

LEMMA EmptyIsNoLength ==
    ASSUME NEW S, NEW t \in Seq(S)
    PROVE  t = <<>> <=> Len(t) = 0
OBVIOUS

\* The last of a sequence is still the last when its first is gone.
LEMMA LastStays ==
    ASSUME NEW S, NEW s \in Seq(S), s # <<>>
    PROVE  /\ Tail(s) \in Seq(S)
           /\ Tail(s) = <<>> => Head(s) = s[Len(s)]
           /\ Tail(s) # <<>> => Tail(s)[Len(Tail(s))] = s[Len(s)]
<1>1. Len(s) \in Nat /\ Len(s) # 0
  OBVIOUS
<1>2. Tail(s) \in Seq(S) /\ Len(Tail(s)) = Len(s) - 1 /\ Head(s) = s[1]
  OBVIOUS
<1>3. CASE Len(s) = 1
  <2>1. Len(Tail(s)) = 0
    BY <1>2, <1>3
  <2>2. Tail(s) = <<>>
    BY <1>2, <2>1, EmptyIsNoLength
  <2> QED BY <1>2, <1>3, <2>2
<1>4. CASE Len(s) # 1
  <2>1. Len(Tail(s)) # 0
    BY <1>1, <1>2, <1>4
  <2>2. Tail(s) # <<>>
    BY <1>2, <2>1, EmptyIsNoLength
  <2>3. Len(s) - 1 \in 1..Len(Tail(s)) /\ (Len(s) - 1) + 1 = Len(s)
    BY <1>1, <1>2, <1>4
  <2>4. \A i \in 1..Len(Tail(s)) : Tail(s)[i] = s[i + 1]
    BY <1>1, <1>2
  <2>5. Tail(s)[Len(s) - 1] = s[Len(s)]
    BY <2>3, <2>4
  <2> QED BY <1>2, <2>2, <2>5
<1> QED BY <1>3, <1>4

\* Reading the next frame does not change what was last asked for.
LEMMA ReadingKeepsAsked ==
    ASSUME NEW d \in Conns, up[d] \in Seq(Asking), Read(d)
    PROVE  up'[d] \in Seq(Asking) /\ Asked(d)' = Asked(d)
<1>1. up[d] # <<>> /\ up'[d] = Tail(up[d]) /\ filter'[d] = Meant(Head(up[d]))
  BY DEF Read
<1>2. /\ Tail(up[d]) \in Seq(Asking)
      /\ Tail(up[d]) = <<>> => Head(up[d]) = up[d][Len(up[d])]
      /\ Tail(up[d]) # <<>> => Tail(up[d])[Len(Tail(up[d]))] = up[d][Len(up[d])]
  BY <1>1, LastStays
<1> QED BY <1>1, <1>2 DEF Asked

LEMMA ServerAsks ==
    ASSUME HookTypes, AskInv, HubAlone, NEW d \in Conns
    PROVE  Asks(d)'
<1>1. Asks(d) /\ HubTypes
  BY DEF AskInv, HookTypes
<1>2. UNCHANGED <<socket, ready, wanted, cut>>
  BY DEF HubAlone, hookVars
<1>3. StillAsked(d) \/ Returned(d) \/ Read(d)
  <2>1. CASE Apply \/ Publish
    BY <2>1 DEF Apply, Publish, StillAsked, streamVars, clientVars
  <2>2. ASSUME NEW c \in Conns, Serve(c) \/ StreamFails(c) \/ Accept(c) \/ Leave(c)
        PROVE  StillAsked(d) \/ Returned(d) \/ Read(d)
    <3>1. CASE c = d
      BY <1>1, <2>2, <3>1, ServerHears
    <3>2. CASE c # d
      BY <1>1, <2>2, <3>2, ElsewhereStillAsked
    <3> QED BY <3>1, <3>2
  <2> QED BY <2>1, <2>2 DEF HubAlone
<1>4. CASE StillAsked(d)
  BY <1>1, <1>2, <1>4 DEF StillAsked, Asks, Asked
<1>5. CASE Returned(d)
  <2>1. up'[d] \in Seq(Asking)
    BY <1>5 DEF Returned
  <2> QED BY <1>5, <2>1 DEF Returned, Asks
<1>6. CASE Read(d)
  <2>1. up'[d] \in Seq(Asking) /\ Asked(d)' = Asked(d)
    BY <1>1, <1>6, ReadingKeepsAsked DEF Asks
  <2>2. ~ (d = socket /\ ready = "connecting") /\ phase'[d] # "idle" /\ phase[d] # "closed"
    BY <1>1, <1>6 DEF Asks, Read
  <2>3. Asked(d) = wanted \/ ~ (d = socket /\ ready = "open" /\ d \notin cut)
    BY <1>1, <2>2 DEF Asks
  <2> QED BY <1>2, <2>1, <2>2, <2>3 DEF Asks
<1> QED BY <1>3, <1>4, <1>5, <1>6

LEMMA AloneAsks ==
    ASSUME HookTypes, AskInv, HookAlone, NEW d \in Conns
    PROVE  Asks(d)'
<1>1. Asks(d) /\ d # None
  BY HookAssumption DEF AskInv
<1>2. UNCHANGED <<up, filter, phase>>
  BY AloneIsSilent DEF vars, streamVars, clientVars
<1>3. Asked(d)' = Asked(d)
  BY <1>2 DEF Asked
<1>4. CASE Connect
  <2>1. ready' = "connecting" /\ UNCHANGED <<wanted, cut>>
    BY <1>4 DEF Connect
  <2>2. phase[socket'] = "idle"
    BY <1>4 DEF Connect
  <2>3. d = socket' => up[d] = <<>> /\ filter[d] = None
    BY <1>1, <2>2 DEF Asks
  <2> QED BY <1>1, <1>2, <2>1, <2>3 DEF Asks
<1>5. CASE OnMessage \/ Flush \/ UNCHANGED allVars
  <2>1. UNCHANGED <<socket, ready, wanted, cut>>
    BY <1>5 DEF OnMessage, Flush, allVars, hookVars
  <2> QED BY <1>1, <1>2, <1>3, <2>1 DEF Asks
<1>6. CASE Watchdog
  <2>1. ready' = "closing"
    BY <1>6 DEF Watchdog
  <2> QED BY <1>1, <1>2, <2>1 DEF Asks
<1>7. CASE OnClose \/ Unmount
  <2>1. ready' = "none"
    BY <1>7 DEF OnClose, Unmount
  <2> QED BY <1>1, <1>2, <2>1 DEF Asks
<1>8. CASE \E c \in Conns : Cut(c)
  <2>1. cut \subseteq cut' /\ UNCHANGED <<socket, ready, wanted>>
    BY <1>8 DEF Cut, hookVars
  <2> QED BY <1>1, <1>2, <1>3, <2>1 DEF Asks
<1> QED BY <1>4, <1>5, <1>6, <1>7, <1>8 DEF HookAlone

\* A frame that is sent is the last one asked.
LEMMA SayingAsks ==
    ASSUME HubTypes, AskInv, NEW c \in Conns, NEW f \in Focus \cup {None}, Say(c, Frame(f)),
           NEW d \in Conns
    PROVE  /\ up'[d] \in Seq(Asking) /\ phase' = phase /\ filter' = filter
           /\ d # c => up'[d] = up[d] /\ Asked(d)' = Asked(d)
           /\ d = c => Asked(d)' = f /\ phase[c] # "idle"
<1>1. /\ up' = [up EXCEPT ![c] = Append(@, Frame(f))] /\ phase' = phase /\ filter' = filter
      /\ phase[c] # "idle" /\ DOMAIN up = Conns
  BY DEF Say, Present, streamVars, HubTypes, TypeOK
<1>2. up[d] \in Seq(Asking) /\ up[c] \in Seq(Asking) /\ Frame(f) \in Asking /\ Meant(Frame(f)) = f
  BY FrameMeans DEF AskInv, Asks
<1>3. CASE d # c
  <2>1. up'[d] = up[d]
    BY <1>1, <1>3
  <2> QED BY <1>1, <1>2, <1>3, <2>1 DEF Asked
<1>4. CASE d = c
  <2>1. up'[d] = Append(up[c], Frame(f))
    BY <1>1, <1>4
  <2>2. /\ Append(up[c], Frame(f)) \in Seq(Asking)
        /\ Append(up[c], Frame(f)) # <<>>
        /\ Append(up[c], Frame(f))[Len(Append(up[c], Frame(f)))] = Frame(f)
    BY <1>2
  <2>3. Asked(d)' = Meant(Frame(f))
    BY <2>1, <2>2 DEF Asked
  <2> QED BY <1>1, <1>2, <1>4, <2>1, <2>2, <2>3
<1> QED BY <1>3, <1>4

LEMMA SendsAsk ==
    ASSUME HookTypes, AskInv, HookSends, NEW d \in Conns
    PROVE  Asks(d)'
<1>1. Asks(d) /\ HubTypes
  BY DEF AskInv, HookTypes
<1>2. CASE OnOpen
  <2>1. /\ ready = "connecting" /\ ready' = "open" /\ UNCHANGED <<socket, wanted, cut>>
        /\ wanted \in Focus \cup {None}
        /\ IF wanted # None THEN SendFrame(wanted) ELSE UNCHANGED vars
    BY <1>2 DEF OnOpen, HookTypes
  <2>2. d = socket => up[d] = <<>> /\ filter[d] = None
    BY <1>1, <2>1 DEF Asks
  <2>3. CASE UNCHANGED vars
    <3>1. UNCHANGED <<up, filter, phase>>
      BY <2>3 DEF vars, streamVars, clientVars
    <3>2. d = socket /\ d \notin cut /\ phase[d] # "closed" => Asked(d)' = wanted
      <4>1. CASE wanted = None
        BY <2>2, <3>1, <4>1 DEF Asked
      <4>2. CASE wanted # None
        <5>1. SendFrame(wanted)
          BY <2>1, <4>2
        <5>2. SUFFICES ASSUME d = socket, d \notin cut, phase[d] # "closed" PROVE FALSE
          OBVIOUS
        <5>3. Say(d, Frame(wanted))
          BY <5>1, <5>2 DEF SendFrame, Reachable
        <5>4. Asked(d)' = wanted /\ Asked(d)' = Asked(d)
          BY <1>1, <2>1, <3>1, <5>3, SayingAsks DEF Asked
        <5>5. Asked(d) = None
          BY <2>2, <5>2 DEF Asked
        <5> QED BY <4>2, <5>4, <5>5
      <4> QED BY <4>1, <4>2
    <3> QED BY <1>1, <2>1, <3>1, <3>2 DEF Asks
  <2>4. CASE socket \in Conns /\ Say(socket, Frame(wanted))
    <3>1. /\ up'[d] \in Seq(Asking) /\ phase' = phase /\ filter' = filter
          /\ d # socket => up'[d] = up[d] /\ Asked(d)' = Asked(d)
          /\ d = socket => Asked(d)' = wanted /\ phase[socket] # "idle"
      BY <1>1, <2>1, <2>4, SayingAsks
    <3> QED BY <1>1, <2>1, <3>1 DEF Asks
  <2>5. UNCHANGED vars \/ (socket \in Conns /\ Say(socket, Frame(wanted)))
    BY <2>1, SendFrameIsSay
  <2> QED BY <2>3, <2>4, <2>5
<1>3. ASSUME NEW f \in Focus \cup {None}, Want(f) PROVE Asks(d)'
  <2>1. /\ wanted' = f /\ UNCHANGED <<socket, ready, cut>>
        /\ IF ready = "open" THEN SendFrame(f) ELSE UNCHANGED vars
    BY <1>3 DEF Want
  <2>2. CASE ready = "open" /\ socket \in Conns /\ Say(socket, Frame(f))
    <3>1. /\ up'[d] \in Seq(Asking) /\ phase' = phase /\ filter' = filter
          /\ d # socket => up'[d] = up[d] /\ Asked(d)' = Asked(d)
          /\ d = socket => Asked(d)' = f /\ phase[socket] # "idle"
      BY <1>1, <2>2, SayingAsks
    <3> QED BY <1>1, <2>1, <2>2, <3>1 DEF Asks
  <2>3. CASE UNCHANGED vars /\ (ready # "open" \/ socket \in cut \/ phase[socket] = "closed")
    <3>1. UNCHANGED <<up, filter, phase>>
      BY <2>3 DEF vars, streamVars, clientVars
    <3> QED BY <1>1, <2>1, <2>3, <3>1 DEF Asks
  <2> QED BY <2>1, <2>2, <2>3, SendFrameIsSay
<1> QED BY <1>2, <1>3 DEF HookSends

LEMMA StepAsks == HookTypes /\ AskInv /\ [HookNext]_allVars => AskInv'
<1> SUFFICES ASSUME HookTypes, AskInv, [HookNext]_allVars, NEW d \in Conns PROVE Asks(d)'
  BY DEF AskInv
<1> QED BY HookCases, AloneAsks, SendsAsk, ServerAsks

LEMMA InitAsks == HookInit => AskInv
<1> SUFFICES ASSUME HookInit, NEW c \in Conns PROVE Asks(c)
  BY DEF AskInv
<1>1. up[c] = <<>> /\ filter[c] = None /\ ready = "none"
  BY DEF HookInit, Init
<1>2. up[c] \in Seq(Asking)
  BY <1>1
<1> QED BY <1>1, <1>2 DEF Asks

\* Once the server has read every frame, its filter is what the hook was last
\* asked for, whenever that was: before the connection, while it was being
\* made, or on an earlier one.
THEOREM SubscriptionsAgree == HookSpec => []SubscriptionAgrees
<1>1. AskInv => SubscriptionAgrees
  BY DEF AskInv, Asks, Asked, SubscriptionAgrees, Connected, Reachable
<1> QED BY <1>1, InitHookTypes, StepHookTypes, InitAsks, StepAsks, PTL DEF HookSpec

----------------------------------------------------------------------------
(* What is written to a socket: greeting, history, and then only what is   *)
(* live.                                                                   *)

Live(m) == m.what = "beat" \/ (m.what = "update" /\ m.n \in 1..Len(Feed))

Ordered(line) ==
    \A i \in 1..Len(line) : line[i].what = "update" =>
        /\ line[i].n \in 1..Len(Feed)
        /\ \A j \in 1..Len(line) : i < j => Live(line[j])

Lined(c) ==
    /\ \A i \in 1..Len(outbox[c]) : Live(outbox[c][i])
    /\ Ordered(sent[c])

LineInv == \A c \in Conns : Lined(c)

LEMMA LiveAppend ==
    ASSUME NEW line \in Seq(Messages), NEW m \in Messages, Live(m)
    PROVE  /\ Ordered(line) => Ordered(Append(line, m))
           /\ (\A i \in 1..Len(line) : Live(line[i]))
                 => \A i \in 1..Len(Append(line, m)) : Live(Append(line, m)[i])
<1> DEFINE longer == Append(line, m)
           last == Len(line) + 1
<1>1. /\ Len(line) \in Nat /\ Len(longer) = last /\ longer[last] = m
      /\ \A i \in 1..Len(line) : longer[i] = line[i]
  BY LineFacts
<1>2. \A i \in 1..last : i = last \/ i \in 1..Len(line)
  BY <1>1
<1>3. \A j \in 1..last : ~(last < j)
  BY <1>1
<1> HIDE DEF longer, last
<1>4. ASSUME Ordered(line) PROVE Ordered(longer)
  <2>1. SUFFICES ASSUME NEW i \in 1..last, longer[i].what = "update"
                 PROVE  /\ longer[i].n \in 1..Len(Feed)
                        /\ \A j \in 1..last : i < j => Live(longer[j])
    BY <1>1 DEF Ordered
  <2>2. CASE i = last
    <3>1. longer[i].n \in 1..Len(Feed)
      BY <1>1, <2>1, <2>2 DEF Live
    <3> QED BY <1>3, <2>2, <3>1
  <2>3. CASE i \in 1..Len(line)
    <3>1. /\ line[i].n \in 1..Len(Feed) /\ longer[i] = line[i]
          /\ \A j \in 1..Len(line) : i < j => Live(line[j])
      BY <1>1, <1>4, <2>1, <2>3 DEF Ordered
    <3>2. \A j \in 1..last : i < j => Live(longer[j])
      BY <1>1, <1>2, <3>1
    <3> QED BY <3>1, <3>2
  <2> QED BY <1>2, <2>2, <2>3
<1>5. ASSUME \A i \in 1..Len(line) : Live(line[i]) PROVE \A i \in 1..last : Live(longer[i])
  BY <1>1, <1>2, <1>5
<1> QED BY <1>1, <1>4, <1>5 DEF longer

LEMMA SilentIsOrdered ==
    ASSUME NEW line \in Seq(Messages), NoUpdates(line)
    PROVE  Ordered(line)
<1>1. DOMAIN line = 1..Len(line)
  OBVIOUS
<1> QED BY <1>1 DEF NoUpdates, Ordered

LEMMA LineElsewhere ==
    ASSUME NEW d \in Conns, Lined(d), Untouched(d)
    PROVE  Lined(d)'
BY DEF Lined, Untouched, Live, Ordered

\* Before the tasks run.
LEMMA LineGreet ==
    ASSUME HubTypes, HubTypes', NEW c \in Conns, Lined(c), Streaming(c),
           Accept(c) \/ CopyHistory(c) \/ Replay(c)
    PROVE  Lined(c)'
<1>1. phase'[c] \in Early
  BY DEF Accept, CopyHistory, Replay, Early, Goto, HubTypes, TypeOK
<1>2. outbox' = outbox
  BY DEF Accept, CopyHistory, Replay
<1>3. NoUpdates(sent'[c])
  <2>1. Streaming(c)'
    BY StreamGreet
  <2> QED BY <1>1, <2>1 DEF Streaming, NoUpdates
<1>4. sent'[c] \in Seq(Messages)
  BY DEF HubTypes, TypeOK
<1>5. Ordered(sent'[c])
  BY <1>3, <1>4, SilentIsOrdered
<1> QED BY <1>2, <1>5 DEF Lined, Live, Ordered

LEMMA LineStream ==
    ASSUME HubTypes, NEW c \in Conns, Lined(c), Stream(c) \/ Beat(c)
    PROVE  Lined(c)'
<1>1. sent' = sent
  BY DEF Stream, Beat
<1>2. CASE outbox' = outbox
  BY <1>1, <1>2 DEF Lined, Live, Ordered
<1>3. ASSUME NEW m \in Messages, Live(m), Put(c, m) PROVE Lined(c)'
  <2>1. outbox'[c] = Append(outbox[c], m)
    BY <1>3 DEF Put, HubTypes, TypeOK
  <2>2. outbox[c] \in Seq(Messages)
    BY StreamFacts
  <2>3. \A i \in 1..Len(Append(outbox[c], m)) : Live(Append(outbox[c], m)[i])
    BY <1>3, <2>2, LiveAppend DEF Lined
  <2>4. \A i \in 1..Len(outbox'[c]) : Live(outbox'[c][i])
    BY <2>1, <2>3
  <2> QED BY <1>1, <2>4 DEF Lined, Live, Ordered
<1>4. CASE Beat(c)
  <2>1. Heartbeat \in Messages /\ Live(Heartbeat) /\ Put(c, Heartbeat)
    BY <1>4, MessageTypes DEF Beat, Live, Heartbeat
  <2> QED BY <1>3, <2>1
<1>5. CASE Stream(c)
  <2>1. PICK n \in 1..published : Put(c, Update(n)) \/ outbox' = outbox
    BY <1>5 DEF Stream
  <2>2. n \in 0..Len(Feed) /\ n \in 1..Len(Feed)
    BY <2>1, TypeFacts
  <2>3. Update(n) \in Messages /\ Live(Update(n))
    BY <2>2, MessageTypes DEF Live, Update
  <2> QED BY <1>2, <1>3, <2>1, <2>3
<1> QED BY <1>4, <1>5

LEMMA LineSend ==
    ASSUME HubTypes, NEW c \in Conns, Lined(c), Send(c)
    PROVE  Lined(c)'
<1>1. outbox[c] \in Seq(Messages) /\ outbox[c] # <<>> /\ sent[c] \in Seq(Messages)
  BY StreamFacts DEF Send
<1>2. outbox'[c] = Tail(outbox[c])
  BY DEF Send, HubTypes, TypeOK
<1>3. /\ Head(outbox[c]) = outbox[c][1] /\ 1 \in 1..Len(outbox[c])
      /\ \A i \in 1..Len(Tail(outbox[c])) : Tail(outbox[c])[i] = outbox[c][i + 1]
                                            /\ i + 1 \in 1..Len(outbox[c])
  BY <1>1
<1>4. \A i \in 1..Len(outbox'[c]) : Live(outbox'[c][i])
  BY <1>2, <1>3 DEF Lined
<1>5. Head(outbox[c]) \in Messages /\ Live(Head(outbox[c]))
  BY <1>1, <1>3, HeadTail DEF Lined
<1>6. sent'[c] = sent[c] \/ sent'[c] = Append(sent[c], Head(outbox[c]))
  BY DEF Send, Write, HubTypes, TypeOK
<1>7. Ordered(Append(sent[c], Head(outbox[c])))
  BY <1>1, <1>5, LiveAppend DEF Lined
<1>8. Ordered(sent'[c])
  BY <1>6, <1>7 DEF Lined
<1> QED BY <1>4, <1>8 DEF Lined, Live, Ordered

LEMMA LineRest ==
    ASSUME HubTypes, NEW c \in Conns, Lined(c),
           \/ Start(c) \/ Receive(c) \/ Disconnected(c) \/ StreamFails(c)
           \/ \E frame \in Frames[c] : Say(c, frame)
    PROVE  Lined(c)'
<1>1. sent' = sent /\ outbox' = outbox
  BY DEF Start, Receive, Disconnected, StreamFails, Say
<1> QED BY <1>1 DEF Lined, Live, Ordered

LEMMA LineEnds ==
    ASSUME HubTypes, NEW c \in Conns, Lined(c),
           GreetingFails(c) \/ StartFails(c) \/ End(c) \/ EndFails(c) \/ Leave(c)
    PROVE  Lined(c)'
<1>1. CASE Leave(c)
  <2>1. sent'[c] = <<>> /\ outbox' = outbox
    BY <1>1 DEF Leave, HubTypes, TypeOK
  <2>2. Len(<<>>) = 0
    OBVIOUS
  <2>3. Ordered(sent'[c])
    BY <2>1, <2>2 DEF Ordered
  <2> QED BY <2>1, <2>3 DEF Lined, Live, Ordered
<1>2. CASE GreetingFails(c) \/ StartFails(c) \/ End(c) \/ EndFails(c)
  <2>1. sent' = sent /\ outbox'[c] = <<>>
    BY <1>2 DEF GreetingFails, StartFails, End, EndFails, Return, HubTypes, TypeOK
  <2>2. 1..Len(outbox'[c]) = {}
    BY <2>1
  <2> QED BY <2>1, <2>2 DEF Lined, Live, Ordered
<1> QED BY <1>1, <1>2

LEMMA StepLine == HubTypes /\ HubTypes' /\ StreamInv /\ LineInv /\ [Next]_vars => LineInv'
<1> SUFFICES ASSUME HubTypes, HubTypes', StreamInv, LineInv, [Next]_vars, NEW d \in Conns
             PROVE  Lined(d)'
  BY DEF LineInv
<1>1. Lined(d) /\ Streaming(d)
  BY DEF LineInv, StreamInv
<1>2. CASE Apply \/ Publish \/ UNCHANGED vars
  BY <1>1, <1>2, TopicElsewhere, LineElsewhere
<1>3. ASSUME NEW c \in Conns,
             \/ Accept(c) \/ CopyHistory(c) \/ Replay(c) \/ GreetingFails(c) \/ Start(c)
             \/ Stream(c) \/ Send(c) \/ Receive(c) \/ Disconnected(c) \/ End(c)
             \/ Beat(c)
             \/ StartFails(c) \/ StreamFails(c) \/ EndFails(c)
             \/ Leave(c) \/ \E frame \in Frames[c] : Say(c, frame)
      PROVE  Lined(d)'
  <2>1. CASE d = c
    BY <1>1, <1>3, <2>1, LineGreet, LineStream, LineSend, LineRest, LineEnds
  <2>2. CASE d # c
    <3>1. Untouched(d)
      BY <1>3, <2>2, ReturnElsewhere, WorkElsewhere, ClientElsewhere
    <3> QED BY <1>1, <3>1, LineElsewhere
  <2> QED BY <2>1, <2>2
<1> QED BY <1>2, <1>3, NextCases

LEMMA InitLine == Init => LineInv
<1> SUFFICES ASSUME Init, NEW c \in Conns PROVE Lined(c)
  BY DEF LineInv
<1>1. outbox[c] = <<>> /\ sent[c] = <<>> /\ Len(<<>>) = 0
  BY DEF Init
<1>2. 1..Len(outbox[c]) = {} /\ 1..Len(sent[c]) = {}
  BY <1>1
<1> QED BY <1>2 DEF Lined, Ordered

\* What a step of the server does to what was written to d: nothing, one
\* message more, or its client is gone.
LEMMA SentGrows ==
    ASSUME HubTypes, HubTypes', [Next]_vars, NEW d \in Conns
    PROVE  /\ phase'[d] = "idle" => phase[d] = "idle"
           /\ \/ sent'[d] = sent[d] /\ (d \in gone' <=> d \in gone)
              \/ /\ d \notin gone' /\ phase'[d] # "idle"
                 /\ \E m \in Messages : sent'[d] = Append(sent[d], m)
              \/ Leave(d)
<1>1. CASE Apply \/ Publish \/ UNCHANGED vars
  BY <1>1 DEF Apply, Publish, vars, clientVars
<1>2. ASSUME NEW c \in Conns,
             \/ Accept(c) \/ CopyHistory(c) \/ Replay(c) \/ GreetingFails(c) \/ Start(c)
             \/ Stream(c) \/ Send(c) \/ Receive(c) \/ Disconnected(c) \/ End(c)
             \/ Beat(c)
             \/ StartFails(c) \/ StreamFails(c) \/ EndFails(c)
             \/ Leave(c) \/ \E frame \in Frames[c] : Say(c, frame),
             d # c
      PROVE  phase'[d] = phase[d] /\ sent'[d] = sent[d] /\ (d \in gone' <=> d \in gone)
  <2>1. Untouched(d)
    BY <1>2, ReturnElsewhere, WorkElsewhere, ClientElsewhere
  <2>2. gone' = gone \/ gone' = gone \cup {c}
    BY <1>2 DEF Accept, CopyHistory, Replay, GreetingFails, Start, Stream, Send, Receive,
                Disconnected, End, Beat, StartFails, StreamFails, EndFails, Leave, Say, clientVars
  <2> QED BY <1>2, <2>1, <2>2 DEF Untouched
<1>3. ASSUME \/ GreetingFails(d) \/ StartFails(d) \/ End(d) \/ EndFails(d)
      PROVE  phase'[d] = "closed" /\ sent' = sent /\ gone' = gone
  BY <1>3, SMTT(30) DEF GreetingFails, StartFails, End, EndFails, Return, Goto, HubTypes, TypeOK
<1>4. ASSUME \/ CopyHistory(d) \/ Start(d) \/ Stream(d) \/ Disconnected(d)
             \/ Beat(d) \/ StreamFails(d) \/ \E frame \in Frames[d] : Say(d, frame)
      PROVE  (phase'[d] = "idle" => phase[d] = "idle") /\ sent' = sent /\ gone' = gone
  <2>1. CASE CopyHistory(d) \/ Start(d)
    BY <2>1 DEF CopyHistory, Start, Goto, clientVars, HubTypes, TypeOK
  <2>2. CASE Stream(d) \/ Beat(d) \/ \E frame \in Frames[d] : Say(d, frame)
    BY <2>2 DEF Stream, Beat, Say, clientVars
  <2>3. CASE Disconnected(d) \/ StreamFails(d)
    BY <2>3 DEF Disconnected, StreamFails, Goto, clientVars, HubTypes, TypeOK
  <2> QED BY <1>4, <2>1, <2>2, <2>3
<1>5. ASSUME Receive(d)
      PROVE  phase'[d] # "idle" /\ sent' = sent /\ gone' = gone
  <2>1. UNCHANGED phase \/ Goto(d, "ending")
    BY <1>5, HeedCases
  <2>2. phase'[d] # "idle"
    BY <1>5, <2>1 DEF Receive, Goto, HubTypes, TypeOK
  <2> QED BY <1>5, <2>2 DEF Receive
<1>6. ASSUME NEW m \in Messages, Write(d, m) \/ UNCHANGED sent, gone' = gone, phase'[d] # "idle"
      PROVE  \/ sent'[d] = sent[d] /\ (d \in gone' <=> d \in gone)
             \/ /\ d \notin gone' /\ phase'[d] # "idle"
                /\ \E msg \in Messages : sent'[d] = Append(sent[d], msg)
  BY <1>6 DEF Write, HubTypes, TypeOK
<1>7. ASSUME Accept(d)
      PROVE  Write(d, Snapshot(applied)) /\ gone' = gone /\ phase'[d] # "idle"
             /\ Snapshot(applied) \in Messages
  BY <1>7, TypeFacts, MessageTypes DEF Accept, Goto, clientVars, HubTypes, TypeOK
<1>8. ASSUME Replay(d)
      PROVE  Write(d, Past(Head(replay[d]))) /\ gone' = gone /\ phase'[d] # "idle"
             /\ Past(Head(replay[d])) \in Messages
  <2>1. replay[d] \in Seq(1..published) /\ replay[d] # <<>>
    BY <1>8, TypeFacts DEF Replay
  <2>2. Head(replay[d]) \in 1..published
    BY <2>1, HeadTail
  <2>3. Past(Head(replay[d])) \in Messages
    BY <2>2, TypeFacts, MessageTypes
  <2> QED BY <1>8, <2>3 DEF Replay, clientVars
<1>9. ASSUME Send(d)
      PROVE  (Write(d, Head(outbox[d])) \/ UNCHANGED sent) /\ gone' = gone /\ phase'[d] # "idle"
             /\ Head(outbox[d]) \in Messages
  <2>1. outbox[d] \in Seq(Messages) /\ outbox[d] # <<>>
    BY <1>9, StreamFacts DEF Send
  <2>2. Head(outbox[d]) \in Messages
    BY <2>1, HeadTail
  <2> QED BY <1>9, <2>2 DEF Send, Goto, Working, clientVars, HubTypes, TypeOK
<1>10. ASSUME Leave(d) PROVE phase' = phase
  BY <1>10 DEF Leave
<1>11. ASSUME \/ Accept(d) \/ CopyHistory(d) \/ Replay(d) \/ GreetingFails(d) \/ Start(d)
              \/ Stream(d) \/ Send(d) \/ Receive(d) \/ Disconnected(d) \/ End(d)
              \/ Beat(d)
              \/ StartFails(d) \/ StreamFails(d) \/ EndFails(d)
              \/ Leave(d) \/ \E frame \in Frames[d] : Say(d, frame)
       PROVE  /\ phase'[d] = "idle" => phase[d] = "idle"
              /\ \/ sent'[d] = sent[d] /\ (d \in gone' <=> d \in gone)
                 \/ /\ d \notin gone' /\ phase'[d] # "idle"
                    /\ \E m \in Messages : sent'[d] = Append(sent[d], m)
                 \/ Leave(d)
  <2>1. CASE Accept(d)
    BY <1>6, <1>7, <2>1
  <2>2. CASE Replay(d)
    BY <1>6, <1>8, <2>2
  <2>3. CASE Send(d)
    BY <1>6, <1>9, <2>3
  <2>4. CASE \/ GreetingFails(d) \/ StartFails(d) \/ End(d) \/ EndFails(d)
    BY <1>3, <2>4
  <2>5. CASE \/ CopyHistory(d) \/ Start(d) \/ Stream(d) \/ Disconnected(d)
             \/ Beat(d) \/ StreamFails(d) \/ \E frame \in Frames[d] : Say(d, frame)
    BY <1>4, <2>5
  <2>6. CASE Receive(d)
    BY <1>5, <2>6
  <2>7. CASE Leave(d)
    BY <1>10, <2>7
  <2> QED BY <1>11, <2>1, <2>2, <2>3, <2>4, <2>5, <2>6, <2>7
<1> QED BY <1>1, <1>2, <1>11, NextCases

----------------------------------------------------------------------------
(* What the maps show of a socket.                                         *)

\* v is what the last update about N among the first k of line has left.
Showing(line, k, N, v) ==
    \A i \in 1..Len(line) :
        /\ i <= k /\ line[i].what = "update" /\ line[i].n \in N
        /\ \A j \in 1..Len(line) : i < j /\ j <= k /\ line[j].what = "update" => line[j].n \notin N
        => v = line[i].n

\* What one message does to a place of the maps that is about N.
Rewrites(m, N, v, w) ==
    /\ m.what = "update" => w = IF m.n \in N THEN m.n ELSE v
    /\ m.what = "beat" => w = v

LEMMA ShowingNothing ==
    ASSUME NEW line \in Seq(Messages), NEW k \in Int, k <= 0, NEW N, NEW v
    PROVE  Showing(line, k, N, v)
BY DEF Showing

LEMMA ShowingLonger ==
    ASSUME NEW line \in Seq(Messages), NEW m \in Messages, NEW k \in Int, k <= Len(line),
           NEW N, NEW v, Showing(line, k, N, v)
    PROVE  Showing(Append(line, m), k, N, v)
<1> DEFINE longer == Append(line, m)
<1>1. /\ Len(line) \in Nat /\ Len(longer) = Len(line) + 1
      /\ \A i \in 1..Len(line) : longer[i] = line[i]
  BY LineFacts
<1> HIDE DEF longer
<1>2. \A i \in 1..Len(longer) : i <= k => i \in 1..Len(line)
  BY <1>1
<1>3. \A i \in 1..Len(line) : i \in 1..Len(longer)
  BY <1>1
<1>4. SUFFICES ASSUME NEW i \in 1..Len(longer), i <= k, longer[i].what = "update", longer[i].n \in N,
                      \A j \in 1..Len(longer) :
                         i < j /\ j <= k /\ longer[j].what = "update" => longer[j].n \notin N
               PROVE  v = longer[i].n
  BY DEF Showing, longer
<1>5. i \in 1..Len(line) /\ longer[i] = line[i]
  BY <1>1, <1>2, <1>4
<1>6. \A j \in 1..Len(line) : i < j /\ j <= k /\ line[j].what = "update" => line[j].n \notin N
  BY <1>1, <1>3, <1>4
<1> QED BY <1>4, <1>5, <1>6 DEF Showing

LEMMA ShowingNext ==
    ASSUME NEW line \in Seq(Messages), Ordered(line), NEW k \in Nat, k + 1 <= Len(line),
           NEW N, NEW v, NEW w, Showing(line, k, N, v), Rewrites(line[k + 1], N, v, w)
    PROVE  Showing(line, k + 1, N, w)
<1> DEFINE m == line[k + 1]
<1>1. k + 1 \in 1..Len(line) /\ Len(line) \in Nat
  OBVIOUS
<1>2. SUFFICES ASSUME NEW i \in 1..Len(line), i <= k + 1, line[i].what = "update", line[i].n \in N,
                      \A j \in 1..Len(line) :
                         i < j /\ j <= k + 1 /\ line[j].what = "update" => line[j].n \notin N
               PROVE  w = line[i].n
  BY DEF Showing
<1>3. CASE i = k + 1
  BY <1>2, <1>3 DEF Rewrites
<1>4. CASE i # k + 1
  <2>1. i <= k /\ i < k + 1
    BY <1>1, <1>2, <1>4
  <2>2. \A j \in 1..Len(line) : i < j /\ j <= k /\ line[j].what = "update" => line[j].n \notin N
    BY <1>2
  <2>3. v = line[i].n
    BY <1>2, <2>1, <2>2 DEF Showing
  <2>4. Live(m)
    BY <1>1, <1>2, <2>1 DEF Ordered
  <2>5. m.what = "update" => m.n \notin N
    BY <1>1, <1>2, <2>1
  <2>6. w = v
    BY <2>4, <2>5 DEF Live, Rewrites
  <2> QED BY <2>3, <2>6
<1> QED BY <1>3, <1>4

\* The entries a place of the maps is about.
Concerning(f) == {n \in 1..Len(Feed) : Feed[n].flight = f}
Gating(f) == {n \in Concerning(f) : Feed[n].gate}
Chaining(src, f) == {n \in Concerning(f) : Feed[n].source = src /\ ~Feed[n].gate}

Shown(line, k, maps) ==
    \A f \in Flights :
        /\ Showing(line, k, Concerning(f), maps.flights[f])
        /\ Showing(line, k, Concerning(f), maps.predictions[f])
        /\ Showing(line, k, Gating(f), maps.gates[f])
        /\ \A src \in Flights : Showing(line, k, Chaining(src, f), maps.chains[<<src, f>>])

LEMMA FeedTypes ==
    ASSUME NEW n \in 1..Len(Feed)
    PROVE  /\ Feed[n].flight \in Flights /\ Feed[n].source \in Flights \cup {None}
           /\ Feed[n].gate \in BOOLEAN /\ Feed[n].delayed \in BOOLEAN
<1> DEFINE R == [flight : Flights, source : Flights \cup {None}, gate : BOOLEAN, delayed : BOOLEAN]
<1>1. Feed \in Seq(R)
  BY HubAssumption
<1>2. Feed[n] \in R
  <2> HIDE DEF R
  <2> QED BY <1>1
<1> QED BY <1>2

\* An update writes just the places that are about it.
LEMMA UpdateRewrites ==
    ASSUME NEW maps \in Maps, NEW n \in 1..Len(Feed), NEW f \in Flights,
           NEW after, after = ApplyUpdate(maps, n)
    PROVE  /\ after.flights[f] = IF n \in Concerning(f) THEN n ELSE maps.flights[f]
           /\ after.predictions[f] = IF n \in Concerning(f) THEN n ELSE maps.predictions[f]
           /\ after.gates[f] = IF n \in Gating(f) THEN n ELSE maps.gates[f]
           /\ \A src \in Flights :
                 after.chains[<<src, f>>] = IF n \in Chaining(src, f) THEN n ELSE maps.chains[<<src, f>>]
<1> DEFINE p == Feed[n]
<1>1. /\ p.flight \in Flights /\ p.source \in Flights \cup {None}
      /\ p.gate \in BOOLEAN /\ p.delayed \in BOOLEAN
  BY FeedTypes
<1>2. /\ maps.flights \in [Flights -> 0..Len(Feed)]
      /\ maps.predictions \in [Flights -> 0..Len(Feed)]
      /\ maps.chains \in [Flights \X Flights -> 0..Len(Feed)]
      /\ maps.gates \in [Flights -> 0..Len(Feed)]
      /\ maps = [flights |-> maps.flights, predictions |-> maps.predictions,
                 chains |-> maps.chains, gates |-> maps.gates]
  BY DEF Maps
<1>3. /\ after.flights = [maps.flights EXCEPT ![p.flight] = n]
      /\ after.predictions = [maps.predictions EXCEPT ![p.flight] = n]
      /\ after.chains = IF Classify(p) = "PROPAGATION_EVENT"
                        THEN [maps.chains EXCEPT ![<<p.source, p.flight>>] = n] ELSE maps.chains
      /\ after.gates = IF Classify(p) = "GATE_REASSIGNMENT"
                       THEN [maps.gates EXCEPT ![p.flight] = n] ELSE maps.gates
  BY <1>2 DEF ApplyUpdate
<1>4. /\ Classify(p) = "GATE_REASSIGNMENT" <=> p.gate
      /\ Classify(p) = "PROPAGATION_EVENT" <=> (~p.gate /\ p.source # None)
  BY <1>1 DEF Classify
<1>5. /\ n \in Concerning(f) <=> p.flight = f
      /\ n \in Gating(f) <=> (p.flight = f /\ p.gate)
      /\ \A src : n \in Chaining(src, f) <=> (p.flight = f /\ p.source = src /\ ~p.gate)
  BY DEF Concerning, Gating, Chaining
<1> HIDE DEF p
<1>6. /\ after.flights[f] = IF n \in Concerning(f) THEN n ELSE maps.flights[f]
      /\ after.predictions[f] = IF n \in Concerning(f) THEN n ELSE maps.predictions[f]
  BY <1>1, <1>2, <1>3, <1>5, SMTT(30)
<1>7. after.gates[f] = IF n \in Gating(f) THEN n ELSE maps.gates[f]
  BY <1>1, <1>2, <1>3, <1>4, <1>5
<1>8. ASSUME NEW src \in Flights
      PROVE  after.chains[<<src, f>>] = IF n \in Chaining(src, f) THEN n ELSE maps.chains[<<src, f>>]
  <2>1. <<src, f>> \in Flights \X Flights /\ src # None
    BY HubAssumption
  <2>2. CASE ~p.gate /\ p.source # None
    <3>1. after.chains = [maps.chains EXCEPT ![<<p.source, p.flight>>] = n]
      BY <1>3, <1>4, <2>2
    <3>2. <<src, f>> = <<p.source, p.flight>> <=> (src = p.source /\ f = p.flight)
      OBVIOUS
    <3> QED BY <1>2, <1>5, <2>1, <2>2, <3>1, <3>2
  <2>3. CASE p.gate \/ p.source = None
    <3>1. after.chains = maps.chains
      BY <1>1, <1>3, <1>4, <2>3
    <3>2. n \notin Chaining(src, f)
      BY <1>5, <2>1, <2>3
    <3> QED BY <3>1, <3>2
  <2> QED BY <1>1, <2>2, <2>3
<1> QED BY <1>6, <1>7, <1>8

\* One message more of a socket has been applied.
LEMMA ShownNext ==
    ASSUME NEW line \in Seq(Messages), Ordered(line), NEW k \in Nat, k + 1 <= Len(line),
           NEW maps \in Maps, Shown(line, k, maps),
           NEW after, after = ApplyMessage(maps, line[k + 1])
    PROVE  Shown(line, k + 1, after)
<1> DEFINE m == line[k + 1]
<1>1. k + 1 \in 1..Len(line) /\ m \in Messages
  OBVIOUS
<1>2. m.what \in {"snapshot", "beat", "past", "update"}
  BY <1>1 DEF Messages
<1>3. SUFFICES ASSUME NEW f \in Flights
               PROVE  /\ Showing(line, k + 1, Concerning(f), after.flights[f])
                      /\ Showing(line, k + 1, Concerning(f), after.predictions[f])
                      /\ Showing(line, k + 1, Gating(f), after.gates[f])
                      /\ \A src \in Flights :
                            Showing(line, k + 1, Chaining(src, f), after.chains[<<src, f>>])
  BY DEF Shown
<1>4. /\ Showing(line, k, Concerning(f), maps.flights[f])
      /\ Showing(line, k, Concerning(f), maps.predictions[f])
      /\ Showing(line, k, Gating(f), maps.gates[f])
      /\ \A src \in Flights : Showing(line, k, Chaining(src, f), maps.chains[<<src, f>>])
  BY DEF Shown
<1>5. CASE m.what \notin {"snapshot", "past"}
  <2>1. /\ Rewrites(m, Concerning(f), maps.flights[f], after.flights[f])
        /\ Rewrites(m, Concerning(f), maps.predictions[f], after.predictions[f])
        /\ Rewrites(m, Gating(f), maps.gates[f], after.gates[f])
        /\ \A src \in Flights :
              Rewrites(m, Chaining(src, f), maps.chains[<<src, f>>], after.chains[<<src, f>>])
    <3>1. CASE m.what = "beat"
      <4>1. after = maps
        BY <3>1 DEF ApplyMessage
      <4> QED BY <3>1, <4>1 DEF Rewrites
    <3>2. CASE m.what = "update" /\ m.n \in 1..Len(Feed)
      <4>1. after = ApplyUpdate(maps, m.n)
        BY <3>2 DEF ApplyMessage
      <4>2. /\ after.flights[f] = IF m.n \in Concerning(f) THEN m.n ELSE maps.flights[f]
            /\ after.predictions[f] = IF m.n \in Concerning(f) THEN m.n ELSE maps.predictions[f]
            /\ after.gates[f] = IF m.n \in Gating(f) THEN m.n ELSE maps.gates[f]
            /\ \A src \in Flights :
                  after.chains[<<src, f>>] = IF m.n \in Chaining(src, f) THEN m.n
                                             ELSE maps.chains[<<src, f>>]
        BY <3>2, <4>1, UpdateRewrites
      <4> QED BY <3>2, <4>2 DEF Rewrites
    <3>3. m.what = "update" => m.n \in 1..Len(Feed)
      BY <1>1 DEF Ordered
    <3> QED BY <1>2, <1>5, <3>1, <3>2, <3>3
  <2> HIDE DEF m
  <2>2. Rewrites(line[k + 1], Concerning(f), maps.flights[f], after.flights[f])
    BY <2>1 DEF m
  <2>3. Rewrites(line[k + 1], Concerning(f), maps.predictions[f], after.predictions[f])
    BY <2>1 DEF m
  <2>4. Rewrites(line[k + 1], Gating(f), maps.gates[f], after.gates[f])
    BY <2>1 DEF m
  <2>5. \A src \in Flights :
          Rewrites(line[k + 1], Chaining(src, f), maps.chains[<<src, f>>], after.chains[<<src, f>>])
    BY <2>1 DEF m
  <2>6. Showing(line, k + 1, Concerning(f), after.flights[f])
    BY <1>4, <2>2, ShowingNext
  <2>7. Showing(line, k + 1, Concerning(f), after.predictions[f])
    BY <1>4, <2>3, ShowingNext
  <2>8. Showing(line, k + 1, Gating(f), after.gates[f])
    BY <1>4, <2>4, ShowingNext
  <2>9. \A src \in Flights : Showing(line, k + 1, Chaining(src, f), after.chains[<<src, f>>])
    BY <1>4, <2>5, ShowingNext
  <2> QED BY <2>6, <2>7, <2>8, <2>9
<1>6. CASE m.what \in {"snapshot", "past"}
  \* Then none of the messages so far was an update.
  <2>1. ~Live(m)
    BY <1>6 DEF Live
  <2>2. \A i \in 1..Len(line) : i <= k + 1 => line[i].what # "update"
    <3>1. \A i \in 1..Len(line) : i <= k + 1 => i = k + 1 \/ i < k + 1
      OBVIOUS
    <3> QED BY <1>1, <1>6, <2>1, <3>1 DEF Ordered
  <2>3. \A N, v : Showing(line, k + 1, N, v)
    BY <2>2 DEF Showing
  <2> QED BY <2>3
<1> QED BY <1>2, <1>5, <1>6

LEMMA ShownNothing ==
    ASSUME NEW line \in Seq(Messages), NEW k \in Int, k <= 0, NEW maps
    PROVE  Shown(line, k, maps)
BY ShowingNothing DEF Shown

LEMMA ShownLonger ==
    ASSUME NEW line \in Seq(Messages), NEW m \in Messages, NEW k \in Int, k <= Len(line),
           NEW maps, Shown(line, k, maps)
    PROVE  Shown(Append(line, m), k, maps)
BY ShowingLonger DEF Shown

IsPart(ns, read, N) == ns # {} /\ ns = {n \in read : n \in N}
IsAbout(N, f) == N \subseteq Concerning(f)
StreamedAll(line, read) == read \subseteq 1..Len(Feed) /\ Faithful(line, read, {None})

\* Everything that is streamed has been applied: a place shows the newest of it.
LEMMA ShowingAll ==
    ASSUME NEW line \in Seq(Messages), NEW read, StreamedAll(line, read),
           NEW f, NEW N, IsAbout(N, f), NEW v, Showing(line, Len(line), N, v),
           NEW ns, IsPart(ns, read, N)
    PROVE  v = NewestOf(ns, f)
<1> DEFINE updates == {i \in DOMAIN line : line[i].what = "update"}
           streamed == {line[i].n : i \in updates}
           top == NewestOf(ns, f)
<1>1. Len(line) \in Nat /\ DOMAIN line = 1..Len(line) /\ Len(Feed) \in Nat
      /\ \A i \in 1..Len(line) : line[i].n \in Nat
  BY LineFacts, CapIsPositive, MessageTypes
<1>2. \A n : Passes(None, n)
  BY DEF Passes
<1>3. /\ \A i, j \in updates :
            i < j /\ Part(line[i].n) = Part(line[j].n) => line[i].n < line[j].n
      /\ streamed \subseteq read /\ read \subseteq streamed
  <2>1. Faithful(line, read, {None})
    BY DEF StreamedAll
  <2> QED BY <1>2, <2>1 DEF Faithful
<1>4. /\ \A n : n \in ns <=> n \in read /\ n \in N
      /\ ns # {}
      /\ ns \in SUBSET (0..Len(Feed)) /\ \A n \in ns : Feed[n].flight = f /\ n # 0
  <2>1. /\ \A n : n \in ns <=> n \in read /\ n \in N
        /\ ns # {}
    BY DEF IsPart
  <2>2. \A n \in N : n \in Concerning(f)
    BY DEF IsAbout
  <2>3. \A n \in read : n \in 1..Len(Feed)
    BY DEF StreamedAll
  <2>4. \A n \in ns : n \in 1..Len(Feed) /\ Feed[n].flight = f
    BY <2>1, <2>2, <2>3 DEF Concerning
  <2>5. \A n \in ns : n \in 0..Len(Feed) /\ n # 0
    BY <1>1, <2>4
  <2> QED BY <2>1, <2>4, <2>5
<1>5. top \in ns /\ \A n \in ns : n <= top
  <2>1. /\ NewestOf(ns, f) \in 0..Len(Feed)
        /\ \A n \in ns : Feed[n].flight = f => n <= NewestOf(ns, f)
        /\ \/ NewestOf(ns, f) = 0
           \/ NewestOf(ns, f) \in ns /\ Feed[NewestOf(ns, f)].flight = f
    BY <1>4, NewestTypes
  <2>2. PICK n \in ns : n \in Nat /\ n # 0 /\ n <= NewestOf(ns, f)
    <3>1. PICK n : n \in ns
      BY <1>4
    <3>2. n \in 0..Len(Feed) /\ n # 0 /\ Feed[n].flight = f
      BY <1>4, <3>1
    <3>3. n <= NewestOf(ns, f)
      BY <2>1, <3>1, <3>2
    <3>4. n \in Nat
      BY <1>1, <3>2
    <3> QED BY <3>1, <3>2, <3>3, <3>4
  <2>3. NewestOf(ns, f) # 0
    BY <2>2
  <2> QED BY <1>4, <2>1, <2>3
<1> HIDE DEF top
<1>6. PICK i \in updates : line[i].n = top
  <2>1. top \in streamed
    BY <1>3, <1>4, <1>5
  <2> QED BY <2>1
<1>7. ASSUME NEW j \in 1..Len(line), i < j, line[j].what = "update"
      PROVE  line[j].n \notin N
  <2>1. j \in updates /\ line[j].n \in streamed
    BY <1>1, <1>7
  <2>2. SUFFICES ASSUME line[j].n \in N PROVE FALSE
    OBVIOUS
  <2>3. line[j].n \in ns
    BY <1>3, <1>4, <2>1, <2>2
  <2>4. Feed[line[j].n].flight = f /\ Feed[line[i].n].flight = f /\ line[j].n <= top
    BY <1>4, <1>5, <1>6, <2>3
  <2>5. line[i].n < line[j].n
    BY <1>3, <1>7, <2>1, <2>4 DEF Part
  <2>6. line[i].n \in Nat /\ line[j].n \in Nat
    BY <1>1, <1>7
  <2> QED BY <1>6, <2>4, <2>5, <2>6
<1>8. i \in 1..Len(line) /\ i <= Len(line) /\ line[i].what = "update" /\ line[i].n \in N
  BY <1>1, <1>4, <1>5, <1>6
<1>9. v = line[i].n
  BY <1>7, <1>8 DEF Showing
<1> QED BY <1>6, <1>9 DEF top

----------------------------------------------------------------------------
(* From the socket to the maps.                                            *)

Tracked(c) == c = socket /\ ready \in {"connecting", "open"} /\ c \notin cut

\* As long as a socket carries messages, those of it that have arrived are the
\* end of the batch, behind what an earlier socket left there, or have been
\* applied, and the maps show what those were about.
Tracks(c) ==
    /\ phase[c] = "idle" => c \notin gone /\ sent[c] = <<>>
    /\ Tracked(c) =>
          /\ c \notin gone /\ received <= Len(sent[c])
          /\ \A j \in 0 .. received - 1 :
                j < Len(pending) => pending[Len(pending) - j] = sent[c][received - j]
          /\ Shown(sent[c], received - Len(pending), ui)

TrackInv == \A c \in Conns : Tracks(c)

LEMMA TrackFacts ==
    ASSUME HookTypes, NEW c \in Conns
    PROVE  /\ received \in Nat /\ pending \in Seq(Messages) /\ Len(pending) \in Nat
           /\ sent[c] \in Seq(Messages) /\ Len(sent[c]) \in Nat /\ ui \in Maps
           /\ received - Len(pending) \in Int /\ c # None
<1>1. received \in Nat /\ pending \in Seq(Messages) /\ ui \in Maps
  BY HookParts DEF HookOwn
<1>2. sent[c] \in Seq(Messages)
  BY StreamFacts DEF HookTypes
<1> QED BY <1>1, <1>2, HookAssumption

LEMMA ConnectTracks ==
    ASSUME HookTypes, TrackInv, Connect, NEW d \in Conns
    PROVE  Tracks(d)'
<1>1. Tracks(d) /\ d # None
  BY HookAssumption DEF TrackInv
<1>2. /\ UNCHANGED <<phase, gone, sent, ui, pending, cut>> /\ received' = 0
      /\ phase[socket'] = "idle"
  BY DEF Connect, vars, clientVars
<1>3. CASE d = socket'
  <2>1. d \notin gone /\ sent[d] = <<>>
    BY <1>1, <1>2, <1>3 DEF Tracks
  <2>2. pending \in Seq(Messages) /\ Len(pending) \in Nat /\ sent[d] \in Seq(Messages)
    BY TrackFacts
  <2>3. 0 - Len(pending) \in Int /\ 0 - Len(pending) <= 0 /\ 0 .. 0 - 1 = {}
    BY <2>2
  <2>4. Shown(sent[d], 0 - Len(pending), ui)
    BY <2>2, <2>3, ShownNothing
  <2>5. Shown(sent'[d], received' - Len(pending'), ui')
    BY <1>2, <2>4
  <2>6. received' <= Len(sent'[d])
    BY <1>2, <2>1
  <2> QED BY <1>2, <2>1, <2>3, <2>5, <2>6 DEF Tracks
<1>4. CASE d # socket'
  BY <1>1, <1>2, <1>4 DEF Tracks, Tracked
<1> QED BY <1>3, <1>4

LEMMA MessageTracks ==
    ASSUME HookTypes, TrackInv, OnMessage, NEW d \in Conns
    PROVE  Tracks(d)'
<1>1. Tracks(d)
  BY DEF TrackInv
<1>2. /\ UNCHANGED <<phase, gone, sent, ui, socket, ready, cut>> /\ received' = received + 1
      /\ pending' = Append(pending, sent[socket][received + 1]) /\ received < Len(sent[socket])
      /\ ready = "open" /\ socket \notin cut
  BY DEF OnMessage, vars, clientVars, Reachable
<1>3. CASE d # socket
  BY <1>1, <1>2, <1>3 DEF Tracks, Tracked
<1>4. CASE d = socket
  <2> DEFINE m == sent[d][received + 1]
             L == Len(pending)
             R == received
  <2>1. /\ R \in Nat /\ pending \in Seq(Messages) /\ L \in Nat
        /\ sent[d] \in Seq(Messages) /\ R + 1 \in 1..Len(sent[d]) /\ Len(sent[d]) \in Nat
    BY <1>2, <1>4, TrackFacts
  <2>2. m \in Messages
    BY <2>1
  <2>3. pending' = Append(pending, m)
    BY <1>2, <1>4
  <2>4. /\ Len(pending') = L + 1 /\ pending'[L + 1] = m
        /\ \A i \in 1..L : pending'[i] = pending[i]
    BY <2>1, <2>2, <2>3, LineFacts
  <2>5. /\ d \notin gone
        /\ \A j \in 0 .. R - 1 : j < L => pending[L - j] = sent[d][R - j]
        /\ Shown(sent[d], R - L, ui)
    BY <1>1, <1>2, <1>4 DEF Tracks, Tracked
  <2>6. ASSUME NEW j \in 0 .. R, j < L + 1
        PROVE  pending'[L + 1 - j] = sent[d][R + 1 - j]
    <3>1. CASE j = 0
      <4>1. L + 1 - j = L + 1 /\ R + 1 - j = R + 1
        BY <2>1, <3>1
      <4> QED BY <2>4, <4>1
    <3>2. CASE j # 0
      <4>1. /\ j - 1 \in 0 .. R - 1 /\ j - 1 < L /\ L - (j - 1) = L + 1 - j
            /\ R - (j - 1) = R + 1 - j /\ L + 1 - j \in 1..L
        BY <2>1, <2>6, <3>2
      <4>2. pending[L - (j - 1)] = sent[d][R - (j - 1)]
        BY <2>5, <4>1
      <4> QED BY <2>4, <4>1, <4>2
    <3> QED BY <3>1, <3>2
  <2>7. R + 1 <= Len(sent[d])
    BY <2>1
  <2>9. Shown(sent'[d], received' - Len(pending'), ui')
    <3>1. received' = R + 1 /\ Len(pending') = L + 1 /\ sent' = sent /\ ui' = ui
      BY <1>2, <2>4
    <3>2. received' - Len(pending') = R - L
      BY <2>1, <3>1
    <3> HIDE DEF R, L
    <3> QED BY <2>5, <3>1, <3>2
  <2>10. \A j \in 0 .. received' - 1 :
            j < Len(pending') => pending'[Len(pending') - j] = sent'[d][received' - j]
    <3>1. received' = R + 1 /\ Len(pending') = L + 1 /\ sent' = sent
      BY <1>2, <2>4
    <3>2. received' - 1 = R
      BY <2>1, <3>1
    <3> HIDE DEF R, L
    <3>3. ASSUME NEW j \in 0 .. received' - 1, j < Len(pending')
          PROVE  pending'[Len(pending') - j] = sent'[d][received' - j]
      <4>1. /\ j \in 0 .. R /\ j < L + 1
            /\ Len(pending') - j = L + 1 - j /\ received' - j = R + 1 - j
        BY <2>1, <3>1, <3>2, <3>3
      <4> QED BY <2>6, <3>1, <4>1
    <3> QED BY <3>3
  <2> HIDE DEF R, L
  <2>11. received' <= Len(sent'[d])
    BY <1>2, <2>7 DEF R
  <2>12. (phase[d] = "idle" => d \notin gone /\ sent[d] = <<>>)'
    BY <1>1, <1>2 DEF Tracks
  <2>13. d \notin gone'
    BY <1>2, <2>5
  <2> QED BY <2>9, <2>10, <2>11, <2>12, <2>13 DEF Tracks
<1> QED BY <1>3, <1>4

\* After i messages of a batch the maps show i messages more.
LEMMA BatchShows ==
    ASSUME NEW line \in Seq(Messages), Ordered(line), NEW queue \in Seq(Messages),
           NEW r \in Nat, r <= Len(line),
           \A j \in 0 .. r - 1 : j < Len(queue) => queue[Len(queue) - j] = line[r - j],
           NEW n \in 0..Len(queue), NEW after \in [0..n -> Maps],
           \A i \in 1..n : after[i] = ApplyMessage(after[i - 1], queue[i]),
           Shown(line, r - Len(queue), after[0])
    PROVE  Shown(line, r - Len(queue) + n, after[n])
<1> DEFINE D == r - Len(queue)
           S == {i \in Nat : i <= n => Shown(line, D + i, after[i])}
<1>1. n \in Nat /\ Len(queue) \in Nat /\ D \in Int /\ D <= r /\ n <= Len(queue) /\ Len(line) \in Nat
  OBVIOUS
<1>2. 0 \in S
  <2>1. D + 0 = D
    BY <1>1
  <2> QED BY <2>1
<1>3. ASSUME NEW i \in Nat, i \in S PROVE i + 1 \in S
  <2>1. SUFFICES ASSUME i + 1 <= n PROVE Shown(line, D + (i + 1), after[i + 1])
    OBVIOUS
  <2>2. Shown(line, D + i, after[i]) /\ after[i] \in Maps
    BY <1>1, <1>3, <2>1
  <2>3. i + 1 \in 1..n /\ (i + 1) - 1 = i
    BY <1>1, <2>1
  <2>4. after[i + 1] = ApplyMessage(after[i], queue[i + 1])
    BY <2>3
  <2>5. CASE D + i >= 0
    <3> DEFINE k == D + i
               j == Len(queue) - (i + 1)
    <3>1. k \in Nat /\ k + 1 = D + (i + 1) /\ k + 1 <= Len(line)
      BY <1>1, <2>1, <2>5
    <3>2. /\ j \in 0 .. r - 1 /\ j < Len(queue)
          /\ Len(queue) - j = i + 1 /\ r - j = k + 1
      BY <1>1, <2>1, <2>5
    <3>3. queue[Len(queue) - j] = line[r - j]
      <4> HIDE DEF j
      <4> QED BY <3>2
    <3>4. queue[i + 1] = line[k + 1]
      <4> HIDE DEF j, k
      <4> QED BY <3>2, <3>3
    <3>5. after[i + 1] = ApplyMessage(after[i], line[k + 1])
      BY <2>4, <3>4
    <3> HIDE DEF k, D
    <3>6. Shown(line, k, after[i])
      BY <2>2 DEF k
    <3>7. Shown(line, k + 1, after[i + 1])
      BY <2>2, <3>1, <3>5, <3>6, ShownNext
    <3> QED BY <3>1, <3>7
  <2>6. CASE D + i < 0
    <3>1. D + (i + 1) \in Int /\ D + (i + 1) <= 0
      BY <1>1, <2>6
    <3> QED BY <3>1, ShownNothing
  <2> QED BY <1>1, <2>5, <2>6
<1> HIDE DEF S, D
<1>4. n \in S
  BY <1>1, <1>2, <1>3, Induct
<1> QED BY <1>1, <1>4 DEF S, D

LEMMA FlushTracks ==
    ASSUME HookTypes, TrackInv, LineInv, Flush, NEW d \in Conns
    PROVE  Tracks(d)'
<1>1. Tracks(d) /\ Ordered(sent[d]) /\ HookOwn
  BY HookParts DEF TrackInv, LineInv, Lined
<1>2. UNCHANGED <<phase, gone, sent, socket, ready, cut, received>>
  BY DEF Flush, vars, clientVars
<1>3. CASE ~Tracked(d)
  BY <1>1, <1>2, <1>3 DEF Tracks, Tracked
<1>4. CASE Tracked(d)
  <2> DEFINE L == Len(pending)
             R == received
  <2>1. /\ R \in Nat /\ pending \in Seq(Messages) /\ L \in Nat /\ ui \in Maps
        /\ sent[d] \in Seq(Messages) /\ Len(sent[d]) \in Nat
    BY TrackFacts
  <2>2. /\ d \notin gone /\ R <= Len(sent[d])
        /\ \A j \in 0 .. R - 1 : j < L => pending[L - j] = sent[d][R - j]
        /\ Shown(sent[d], R - L, ui)
    BY <1>1, <1>4 DEF Tracks
  <2>3. PICK k \in 1..L :
           /\ SubSeq(pending, 1, k) \in Seq(Messages) /\ Len(SubSeq(pending, 1, k)) = k
           /\ \A i \in 1..k : SubSeq(pending, 1, k)[i] = pending[i]
           /\ ui' = ApplyBatch(ui, SubSeq(pending, 1, k))
           /\ pending' \in Seq(Messages) /\ Len(pending') = L - k
           /\ \A i \in 1..Len(pending') : pending'[i] = pending[k + i]
    BY <1>1, FlushTypes
  <2> DEFINE batch == SubSeq(pending, 1, k)
  <2>4. batch \in Seq(Messages) /\ Len(batch) = k /\ \A i \in 1..k : batch[i] = pending[i]
    BY <2>3
  <2>5. ui' = ApplyBatch(ui, batch)
    BY <2>3
  <2> HIDE DEF batch
  <2>6. PICK after \in [0..Len(batch) -> Maps] :
           /\ after[0] = ui
           /\ \A i \in 1..Len(batch) : after[i] = ApplyMessage(after[i - 1], batch[i])
           /\ ApplyBatch(ui, batch) = after[Len(batch)]
    BY <2>1, <2>4, BatchSteps
  <2>7. after \in [0..k -> Maps] /\ k \in 0..L
        /\ \A i \in 1..k : after[i] = ApplyMessage(after[i - 1], pending[i])
    BY <2>1, <2>4, <2>6
  <2>8. Shown(sent[d], R - L + k, after[k])
    BY <1>1, <2>1, <2>2, <2>6, <2>7, BatchShows
  <2>9. ui' = after[k]
    BY <2>4, <2>5, <2>6
  <2>10. R - (L - k) = R - L + k /\ L - k \in Nat
    BY <2>1
  <2>11. ASSUME NEW j \in 0 .. R - 1, j < L - k
         PROVE  pending'[L - k - j] = sent[d][R - j]
    <3>1. L - k - j \in 1..Len(pending') /\ k + (L - k - j) = L - j /\ j < L
      BY <2>1, <2>3, <2>11
    <3>2. pending'[L - k - j] = pending[k + (L - k - j)]
      BY <2>3, <3>1
    <3>3. pending[L - j] = sent[d][R - j]
      BY <2>2, <3>1
    <3> QED BY <3>1, <3>2, <3>3
  <2>12. Shown(sent[d], R - (L - k), ui')
    BY <2>8, <2>9, <2>10
  <2>13. Shown(sent'[d], received' - Len(pending'), ui')
    BY <1>2, <2>3, <2>12
  <2>14. \A j \in 0 .. received' - 1 :
            j < Len(pending') => pending'[Len(pending') - j] = sent'[d][received' - j]
    BY <1>2, <2>3, <2>11
  <2>15. received' <= Len(sent'[d]) /\ d \notin gone'
    BY <1>2, <2>2
  <2>16. (phase[d] = "idle" => d \notin gone /\ sent[d] = <<>>)'
    BY <1>1, <1>2 DEF Tracks
  <2> QED BY <2>13, <2>14, <2>15, <2>16 DEF Tracks
<1> QED BY <1>3, <1>4

\* Steps that neither receive, nor apply, nor connect.
LEMMA RestTracks ==
    ASSUME HookTypes, TrackInv, NEW d \in Conns,
           UNCHANGED <<phase, gone, sent>>,
           \/ ready' \in {"none", "closing"}
           \/ /\ UNCHANGED <<socket, received, pending, ui>> /\ cut \subseteq cut'
              /\ ready' = ready \/ ready = "connecting"
    PROVE  Tracks(d)'
<1>1. Tracks(d)
  BY DEF TrackInv
<1>2. CASE ready' \in {"none", "closing"}
  BY <1>1, <1>2 DEF Tracks, Tracked
<1>3. CASE /\ UNCHANGED <<socket, received, pending, ui>> /\ cut \subseteq cut'
           /\ ready' = ready \/ ready = "connecting"
  <2>1. Tracked(d)' => Tracked(d)
    BY <1>3 DEF Tracked
  <2>2. received' - Len(pending') = received - Len(pending)
    BY <1>3
  <2> QED BY <1>1, <1>3, <2>1, <2>2 DEF Tracks
<1> QED BY <1>2, <1>3

LEMMA AloneTracks ==
    ASSUME HookTypes, TrackInv, LineInv, HookAlone, NEW d \in Conns
    PROVE  Tracks(d)'
<1>1. UNCHANGED <<phase, gone, sent>>
  BY AloneIsSilent DEF vars, clientVars
<1>2. CASE Connect \/ OnMessage \/ Flush
  BY <1>2, ConnectTracks, MessageTracks, FlushTracks
<1>3. CASE Watchdog \/ OnClose \/ Unmount
  <2>1. ready' \in {"none", "closing"}
    BY <1>3 DEF Watchdog, OnClose, Unmount
  <2> QED BY <1>1, <2>1, RestTracks
<1>4. CASE UNCHANGED allVars \/ \E c \in Conns : Cut(c)
  <2>1. UNCHANGED hookVars /\ cut \subseteq cut'
    BY <1>4 DEF Cut, allVars
  <2> QED BY <1>1, <2>1, RestTracks DEF hookVars
<1> QED BY <1>2, <1>3, <1>4 DEF HookAlone

LEMMA SendsTrack ==
    ASSUME HookTypes, TrackInv, HookSends, NEW d \in Conns
    PROVE  Tracks(d)'
<1>1. UNCHANGED <<phase, gone, sent>>
  BY SendsAreSays DEF vars, clientVars, Say
<1>2. /\ UNCHANGED <<socket, received, pending, ui>> /\ cut \subseteq cut'
      /\ ready' = ready \/ ready = "connecting"
  BY DEF HookSends, OnOpen, Want
<1> QED BY <1>1, <1>2, RestTracks

LEMMA ServerTracks ==
    ASSUME HookTypes, HookTypes', TrackInv, HubAlone, NEW d \in Conns
    PROVE  Tracks(d)'
<1>1. Tracks(d) /\ HubTypes /\ HubTypes'
  BY DEF TrackInv, HookTypes
<1>2. UNCHANGED <<socket, received, pending, ui, ready, cut>>
  BY DEF HubAlone, hookVars
<1>3. [Next]_vars
  BY DEF HubAlone, Next, Disturb
<1>4. /\ phase'[d] = "idle" => phase[d] = "idle"
      /\ \/ sent'[d] = sent[d] /\ (d \in gone' <=> d \in gone)
         \/ /\ d \notin gone' /\ phase'[d] # "idle"
            /\ \E m \in Messages : sent'[d] = Append(sent[d], m)
         \/ Leave(d)
  BY <1>1, <1>3, SentGrows
<1>5. CASE sent'[d] = sent[d] /\ (d \in gone' <=> d \in gone)
  BY <1>1, <1>2, <1>4, <1>5 DEF Tracks, Tracked
<1>6. ASSUME d \notin gone', phase'[d] # "idle", NEW m \in Messages, sent'[d] = Append(sent[d], m)
      PROVE  Tracks(d)'
  <2>1. CASE ~Tracked(d)
    BY <1>2, <1>6, <2>1 DEF Tracks, Tracked
  <2>2. CASE Tracked(d)
    <3>1. /\ received \in Nat /\ Len(pending) \in Nat /\ received - Len(pending) \in Int
          /\ sent[d] \in Seq(Messages) /\ Len(sent[d]) \in Nat
      BY TrackFacts
    <3>2. /\ received <= Len(sent[d])
          /\ \A j \in 0 .. received - 1 :
                j < Len(pending) => pending[Len(pending) - j] = sent[d][received - j]
          /\ Shown(sent[d], received - Len(pending), ui)
      BY <1>1, <2>2 DEF Tracks
    <3>3. /\ Len(sent'[d]) = Len(sent[d]) + 1
          /\ \A i \in 1..Len(sent[d]) : sent'[d][i] = sent[d][i]
      BY <1>6, <3>1, LineFacts
    <3>4. received - Len(pending) <= Len(sent[d])
      BY <3>1, <3>2
    <3>5. Shown(Append(sent[d], m), received - Len(pending), ui)
      BY <3>1, <3>2, <3>4, ShownLonger
    <3>6. received - Len(pending) = received' - Len(pending')
      BY <1>2
    <3>7. Shown(sent'[d], received' - Len(pending'), ui')
      BY <1>2, <1>6, <3>5, <3>6
    <3>8. received <= Len(sent'[d])
      BY <3>1, <3>2, <3>3
    <3>9. ASSUME NEW j \in 0 .. received - 1, j < Len(pending)
          PROVE  pending[Len(pending) - j] = sent'[d][received - j]
      <4>1. received - j \in 1..Len(sent[d])
        BY <3>1, <3>2, <3>9
      <4> QED BY <3>2, <3>3, <3>9, <4>1
    <3>10. \A j \in 0 .. received' - 1 :
              j < Len(pending') => pending'[Len(pending') - j] = sent'[d][received' - j]
      BY <1>2, <3>9
    <3> QED BY <1>2, <1>6, <3>7, <3>8, <3>10 DEF Tracks
  <2> QED BY <2>1, <2>2
<1>7. CASE Leave(d)
  <2>1. phase[d] # "idle" /\ UNCHANGED phase
    BY <1>7 DEF Leave, Present
  <2>2. ~Tracked(d)'
    <3>1. CASE Tracked(d)
      \* Only a client that is closing, gone on or cut off is found to have left.
      <4>1. PICK c \in Conns : \/ Serve(c) \/ StreamFails(c) \/ Accept(c)
                               \/ (c # socket \/ ready = "closing" \/ c \in cut) /\ Leave(c)
        <5>1. ~Apply /\ ~Publish
          <6>1. gone' # gone
            BY <1>7 DEF Leave, Present
          <6> QED BY <6>1 DEF Apply, Publish, clientVars
        <5> QED BY <5>1 DEF HubAlone
      <4>2. gone' = gone \cup {d} /\ d \notin gone
        BY <1>7 DEF Leave, Present
      <4>3. ~ (Serve(c) \/ StreamFails(c) \/ Accept(c))
        BY <4>2 DEF Accept, StreamFails, Serve, Greet, Wind, CopyHistory, Replay, GreetingFails,
                    Start, Stream, Send, Receive, Disconnected, End, clientVars
      <4>4. gone' = gone \cup {c} /\ (c # socket \/ ready = "closing" \/ c \in cut)
        BY <4>1, <4>3 DEF Leave
      <4>5. c = d
        BY <4>2, <4>4
      <4> QED BY <3>1, <4>4, <4>5 DEF Tracked
    <3>2. CASE ~Tracked(d)
      BY <1>2, <3>2 DEF Tracked
    <3> QED BY <3>1, <3>2
  <2> QED BY <2>1, <2>2 DEF Tracks
<1> QED BY <1>4, <1>5, <1>6, <1>7

LEMMA StepTrack ==
    HookTypes /\ HookTypes' /\ LineInv /\ TrackInv /\ [HookNext]_allVars => TrackInv'
<1> SUFFICES ASSUME HookTypes, HookTypes', LineInv, TrackInv, [HookNext]_allVars, NEW d \in Conns
             PROVE  Tracks(d)'
  BY DEF TrackInv
<1> QED BY HookCases, AloneTracks, SendsTrack, ServerTracks

LEMMA InitTrack == HookInit => TrackInv
BY DEF HookInit, Init, TrackInv, Tracks, Tracked

\* MapsConverge, for one flight.
ConvergeAt(c, f) ==
    LET since == Between(start[c], Ends(published))
        about == {n \in since : Feed[n].flight = f}
        gates == {n \in about : Feed[n].gate}
    IN  /\ about # {} => ui.flights[f] = NewestOf(about, f)
        /\ about # {} => ui.predictions[f] = NewestOf(about, f)
        /\ gates # {} => ui.gates[f] = NewestOf(gates, f)
        /\ \A src \in Flights :
              LET chain == {n \in about : Feed[n].source = src /\ ~Feed[n].gate}
              IN  chain # {} => ui.chains[<<src, f>>] = NewestOf(chain, f)

LEMMA TrackedConverge ==
    ASSUME HookTypes, StreamInv, TrackInv, NEW c \in Conns, Drained(c), NEW f \in Flights
    PROVE  ConvergeAt(c, f)
<1> DEFINE line == sent[c]
           since == Between(start[c], Ends(published))
<1>1. /\ Tracked(c) /\ Working(c) /\ filters[c] = {None}
      /\ \A n \in 1..published : n <= pos[c][Part(n)]
      /\ outbox[c] = <<>> /\ received = Len(line) /\ pending = <<>>
  BY DEF Drained, Connected, Reachable, Tracked, Working
<1>2. /\ line \in Seq(Messages) /\ Len(line) \in Nat
      /\ published \in 0..Len(Feed) /\ Len(Feed) \in Nat
  BY StreamFacts, TypeFacts, CapIsPositive DEF HookTypes
<1>3. c \notin gone /\ Shown(line, received - Len(pending), ui)
  BY <1>1 DEF TrackInv, Tracks
<1>4. Shown(line, Len(line), ui)
  <2>1. received - Len(pending) = Len(line)
    BY <1>1, <1>2
  <2> QED BY <1>3, <2>1
<1>5. Faithful(line, since, filters[c])
  <2>1. line \o outbox[c] = line
    BY <1>1, <1>2
  <2>2. since = Between(start[c], pos[c])
    <3>1. pos[c] \in [Partitions -> 0..published] /\ \A n \in 1..Len(Feed) : Part(n) \in Partitions
      BY TypeFacts, PartTypes DEF HookTypes
    <3>2. \A n \in 1..Len(Feed) : n <= Ends(published)[Part(n)] <=> n <= pos[c][Part(n)]
      BY <1>1, <1>2, <3>1 DEF Ends
    <3> QED BY <3>2 DEF Between
  <2>3. Faithful(line \o outbox[c], Between(start[c], pos[c]), filters[c])
    BY <1>1, <1>3 DEF StreamInv, Streaming
  <2> QED BY <2>1, <2>2, <2>3
<1> HIDE DEF line
<1>6. ASSUME NEW N, N \subseteq Concerning(f), NEW v, Showing(line, Len(line), N, v),
             NEW ns, ns = {n \in since : n \in N}, ns # {}
      PROVE  v = NewestOf(ns, f)
  <2>1. IsPart(ns, since, N) /\ IsAbout(N, f)
    BY <1>6 DEF IsPart, IsAbout
  <2>2. line \in Seq(Messages)
    BY <1>2
  <2>3. Showing(line, Len(line), N, v)
    BY <1>6
  <2>4. StreamedAll(line, since)
    BY <1>1, <1>5 DEF StreamedAll, Between
  <2> HIDE DEF since
  <2> QED BY <2>1, <2>2, <2>3, <2>4, ShowingAll
<1>7. since \subseteq 1..Len(Feed)
  BY DEF Between
<1> DEFINE about == {n \in since : Feed[n].flight = f}
           gates == {n \in about : Feed[n].gate}
           chain(src) == {n \in about : Feed[n].source = src /\ ~Feed[n].gate}
<1> HIDE DEF since
<1>8. /\ about = {n \in since : n \in Concerning(f)}
      /\ gates = {n \in since : n \in Gating(f)}
      /\ \A src : chain(src) = {n \in since : n \in Chaining(src, f)}
  BY <1>7 DEF Concerning, Gating, Chaining
<1>9. /\ Gating(f) \subseteq Concerning(f) /\ Concerning(f) \subseteq Concerning(f)
      /\ \A src : Chaining(src, f) \subseteq Concerning(f)
  BY DEF Gating, Chaining
<1>10. /\ Showing(line, Len(line), Concerning(f), ui.flights[f])
       /\ Showing(line, Len(line), Concerning(f), ui.predictions[f])
       /\ Showing(line, Len(line), Gating(f), ui.gates[f])
       /\ \A src \in Flights : Showing(line, Len(line), Chaining(src, f), ui.chains[<<src, f>>])
  BY <1>4 DEF Shown
<1> HIDE DEF about, gates, chain
<1>11. about # {} => ui.flights[f] = NewestOf(about, f) /\ ui.predictions[f] = NewestOf(about, f)
  BY <1>6, <1>8, <1>9, <1>10
<1>12. gates # {} => ui.gates[f] = NewestOf(gates, f)
  BY <1>6, <1>8, <1>9, <1>10
<1>13. \A src \in Flights : chain(src) # {} => ui.chains[<<src, f>>] = NewestOf(chain(src), f)
  BY <1>6, <1>8, <1>9, <1>10
<1> QED BY <1>11, <1>12, <1>13 DEF ConvergeAt, about, gates, chain, since

LEMMA AllConverge == HookTypes /\ StreamInv /\ TrackInv => MapsConverge
<1> SUFFICES ASSUME HookTypes, StreamInv, TrackInv, NEW c \in Conns, Drained(c)
             PROVE  \A f \in Flights : ConvergeAt(c, f)
  BY DEF MapsConverge, ConvergeAt
<1> QED BY TrackedConverge

\* When the stream has been drained, each map shows the newest of what was
\* published since the connection is live.  What an earlier connection left
\* in the batch, the snapshot and the replay cannot hide it.
THEOREM MapsAreCurrent == HookSpec => []MapsConverge
<1>1. HookTypes => HubTypes
  BY DEF HookTypes
<1>2. HookInit => Init
  BY DEF HookInit
<1> QED BY <1>1, <1>2, InitHookTypes, StepHookTypes, HookStepIsHubStep, InitStream, StepStream,
           InitLine, StepLine, InitTrack, StepTrack, AllConverge, PTL DEF HookSpec

----------------------------------------------------------------------------
(* What is on the maps goes forward, but for the replay.                   *)

\* Of the same flight, hence in the same partition.
Alike(m, l) == Feed[m.n].flight = Feed[l.n].flight

\* m may arrive after l: an update is newer than what was replayed or
\* updated of its flight before it, a snapshot is of no earlier state than
\* anything.
MayFollow(m, l) ==
    /\ m.what = "update" /\ l.what \in {"past", "update"} /\ Alike(m, l) => l.n <= m.n
    /\ m.what = "snapshot" => l.n <= m.n

Rising(q) == \A i, j \in 1..Len(q) : i < j => MayFollow(q[j], q[i])

\* m takes nothing on the maps back.
Raises(m, maps) ==
    /\ m.what = "update" =>
          \A f \in Flights : Feed[m.n].flight = f =>
             maps.predictions[f] <= m.n /\ maps.gates[f] <= m.n
    /\ m.what = "snapshot" => \A f \in Flights : maps.flights[f] <= m.n

\* A limit of each flight.
Limits == [Flights -> Nat]
All(n) == [f \in Flights |-> n]
Within(p, q) == \A f \in Flights : p[f] <= q[f]

UpTo(m, p) ==
    m.what \in {"past", "update"} => \A f \in Flights : Feed[m.n].flight = f => m.n <= p[f]
MapsUpTo(maps, p) == \A f \in Flights : maps.predictions[f] <= p[f] /\ maps.gates[f] <= p[f]
FlightsUpTo(maps, a) == \A f \in Flights : maps.flights[f] <= a

\* What is shown of a flight is about it.
Labelled(maps) == \A f \in Flights : maps.flights[f] = 0 \/ Feed[maps.flights[f]].flight = f

\* Nothing older than before, where the flights were no newer than their
\* predictions.
Forward(before, now) ==
    \A f \in Flights :
        /\ before.predictions[f] <= now.predictions[f]
        /\ before.gates[f] <= now.gates[f]
        /\ before.flights[f] <= before.predictions[f] => before.flights[f] <= now.flights[f]

LEMMA MapsFacts ==
    ASSUME NEW maps \in Maps, NEW f \in Flights
    PROVE  maps.flights[f] \in Nat /\ maps.predictions[f] \in Nat /\ maps.gates[f] \in Nat
           /\ maps.flights[f] \in 0..Len(Feed)
BY CapIsPositive DEF Maps

\* What one message leaves of a flight.
LEMMA Entries ==
    ASSUME NEW maps \in Maps, NEW m \in Messages, NEW f \in Flights,
           NEW next, next = ApplyMessage(maps, m)
    PROVE  /\ m.what \in {"snapshot", "beat"}
                 => next.predictions[f] = maps.predictions[f] /\ next.gates[f] = maps.gates[f]
           /\ m.what = "beat" => next.flights[f] = maps.flights[f]
           /\ m.what = "snapshot" => next.flights[f] = NewestOf(1..m.n, f)
           /\ m.what \in {"past", "update"} =>
                 \/ /\ Feed[m.n].flight = f
                    /\ next.flights[f] = m.n /\ next.predictions[f] = m.n
                    /\ next.gates[f] \in {m.n, maps.gates[f]}
                 \/ /\ next.flights[f] = maps.flights[f]
                    /\ next.predictions[f] = maps.predictions[f]
                    /\ next.gates[f] = maps.gates[f]
<1>1. /\ maps.flights \in [Flights -> 0..Len(Feed)]
      /\ maps.predictions \in [Flights -> 0..Len(Feed)]
      /\ maps.gates \in [Flights -> 0..Len(Feed)]
      /\ maps = [flights |-> maps.flights, predictions |-> maps.predictions,
                 chains |-> maps.chains, gates |-> maps.gates]
  BY DEF Maps
<1>2. CASE m.what = "beat"
  BY <1>2 DEF ApplyMessage
<1>3. CASE m.what = "snapshot"
  <2> DEFINE all == [g \in Flights |-> NewestOf(1..m.n, g)]
  <2>1. next = [maps EXCEPT !.flights = all]
    BY <1>3 DEF ApplyMessage
  <2>2. all[f] = NewestOf(1..m.n, f)
    OBVIOUS
  <2> HIDE DEF all
  <2>3. next.flights = all /\ next.predictions = maps.predictions /\ next.gates = maps.gates
    BY <1>1, <2>1
  <2> QED BY <1>3, <2>2, <2>3
<1>4. CASE m.what \in {"past", "update"}
  <2> DEFINE p == Feed[m.n]
             gate == Classify(p) = "GATE_REASSIGNMENT"
  <2>1. next = ApplyUpdate(maps, m.n)
    BY <1>4 DEF ApplyMessage
  <2>2. /\ next.flights = [maps.flights EXCEPT ![p.flight] = m.n]
        /\ next.predictions = [maps.predictions EXCEPT ![p.flight] = m.n]
        /\ next.gates = IF gate THEN [maps.gates EXCEPT ![p.flight] = m.n] ELSE maps.gates
    BY <1>1, <2>1 DEF ApplyUpdate
  <2> HIDE DEF p, gate
  <2>3. CASE p.flight = f
    BY <1>1, <1>4, <2>2, <2>3 DEF p
  <2>4. CASE p.flight # f
    BY <1>1, <1>4, <2>2, <2>4
  <2> QED BY <2>3, <2>4
<1>5. m.what \in {"snapshot", "beat", "past", "update"}
  BY DEF Messages
<1> QED BY <1>2, <1>3, <1>4, <1>5

\* One message applied: for what was on the maps, and for what may come next.
LEMMA MessageRaises ==
    ASSUME NEW maps \in Maps, NEW m \in Messages, Labelled(maps), Raises(m, maps),
           NEW next, next = ApplyMessage(maps, m)
    PROVE  /\ Labelled(next)
           /\ \A l \in Messages : Raises(l, maps) /\ MayFollow(l, m) => Raises(l, next)
           /\ \A p \in Limits : MapsUpTo(maps, p) /\ UpTo(m, p) => MapsUpTo(next, p)
           /\ \A a \in Nat : FlightsUpTo(maps, a) /\ m.n <= a => FlightsUpTo(next, a)
           /\ m.what # "past" => \A f \in Flights :
                 /\ maps.predictions[f] <= next.predictions[f]
                 /\ maps.gates[f] <= next.gates[f]
                 /\ \A v \in Nat : v <= maps.flights[f] /\ v <= maps.predictions[f] => v <= next.flights[f]
<1>1. m.what \in {"snapshot", "beat", "past", "update"} /\ m.n \in 0..Len(Feed) /\ m.n \in Nat
  BY CapIsPositive DEF Messages
<1>2. 1..m.n \in SUBSET (0..Len(Feed))
  BY <1>1, CapIsPositive
<1>3. ASSUME NEW f \in Flights
      PROVE  /\ next.flights[f] = 0 \/ Feed[next.flights[f]].flight = f
             /\ next.flights[f] <= m.n \/ next.flights[f] = maps.flights[f]
             /\ m.what = "beat" => next.flights[f] = maps.flights[f]
             /\ m.what = "snapshot" => maps.flights[f] <= next.flights[f]
             /\ m.what = "update" => next.flights[f] = maps.flights[f] \/ next.flights[f] = m.n
  <2>1. maps.flights[f] \in 0..Len(Feed) /\ maps.flights[f] \in Nat
    BY MapsFacts
  <2>2. maps.flights[f] = 0 \/ Feed[maps.flights[f]].flight = f
    BY DEF Labelled
  <2>3. CASE m.what = "snapshot"
    <3>1. next.flights[f] = NewestOf(1..m.n, f)
      BY <2>3, Entries
    <3>2. /\ NewestOf(1..m.n, f) \in 0..Len(Feed)
          /\ \A n \in 1..m.n : Feed[n].flight = f => n <= NewestOf(1..m.n, f)
          /\ \/ NewestOf(1..m.n, f) = 0
             \/ NewestOf(1..m.n, f) \in 1..m.n /\ Feed[NewestOf(1..m.n, f)].flight = f
      BY <1>2, NewestTypes
    <3>3. maps.flights[f] <= m.n
      BY <2>3 DEF Raises
    <3>4. maps.flights[f] = 0 \/ maps.flights[f] \in 1..m.n
      BY <1>1, <2>1, <3>3
    <3>5. maps.flights[f] <= NewestOf(1..m.n, f)
      BY <2>2, <3>2, <3>4
    <3>6. NewestOf(1..m.n, f) <= m.n
      BY <1>1, <3>2
    <3> QED BY <2>3, <3>1, <3>2, <3>5, <3>6
  <2>4. CASE m.what # "snapshot"
    <3>1. next.flights[f] = maps.flights[f] \/ (next.flights[f] = m.n /\ Feed[m.n].flight = f
                                                /\ m.what \in {"past", "update"})
      BY <1>1, <2>4, Entries
    <3> QED BY <1>1, <2>2, <2>4, <3>1
  <2> QED BY <2>3, <2>4
<1>4. Labelled(next)
  BY <1>3 DEF Labelled
<1>5. ASSUME NEW f \in Flights
      PROVE  /\ \/ next.predictions[f] = maps.predictions[f]
                \/ /\ next.predictions[f] = m.n /\ next.flights[f] = m.n
                   /\ m.what \in {"past", "update"} /\ Feed[m.n].flight = f
             /\ \/ next.gates[f] = maps.gates[f]
                \/ next.gates[f] = m.n /\ m.what \in {"past", "update"} /\ Feed[m.n].flight = f
             /\ m.what = "update" =>
                   next.flights[f] = maps.flights[f] \/ next.flights[f] = m.n
  BY <1>1, Entries
<1>6. ASSUME NEW l \in Messages, Raises(l, maps), MayFollow(l, m) PROVE Raises(l, next)
  <2>1. l.n \in Nat
    BY CapIsPositive DEF Messages
  <2>2. ASSUME l.what = "update", NEW f \in Flights, Feed[l.n].flight = f
        PROVE  next.predictions[f] <= l.n /\ next.gates[f] <= l.n
    <3>1. maps.predictions[f] <= l.n /\ maps.gates[f] <= l.n
      BY <1>6, <2>2 DEF Raises
    <3>2. m.what \in {"past", "update"} /\ Feed[m.n].flight = f => m.n <= l.n
      BY <1>6, <2>2 DEF MayFollow, Alike
    <3> QED BY <1>5, <3>1, <3>2
  <2>3. ASSUME l.what = "snapshot", NEW f \in Flights
        PROVE  next.flights[f] <= l.n
    <3>1. maps.flights[f] <= l.n /\ m.n <= l.n
      BY <1>6, <2>3 DEF Raises, MayFollow
    <3>2. next.flights[f] \in Nat
      <4>1. next \in Maps
        BY MessageStep
      <4> QED BY <4>1, MapsFacts
    <3>3. next.flights[f] <= m.n \/ next.flights[f] = maps.flights[f]
      BY <1>3
    <3> QED BY <1>1, <2>1, <3>1, <3>2, <3>3
  <2> QED BY <2>2, <2>3 DEF Raises
<1>7. ASSUME NEW p \in Limits, MapsUpTo(maps, p), UpTo(m, p) PROVE MapsUpTo(next, p)
  <2> SUFFICES ASSUME NEW f \in Flights PROVE next.predictions[f] <= p[f] /\ next.gates[f] <= p[f]
    BY DEF MapsUpTo
  <2>1. maps.predictions[f] <= p[f] /\ maps.gates[f] <= p[f]
    BY <1>7 DEF MapsUpTo
  <2>2. m.what \in {"past", "update"} /\ Feed[m.n].flight = f => m.n <= p[f]
    BY <1>7 DEF UpTo
  <2> QED BY <1>5, <2>1, <2>2
<1>8. ASSUME NEW a \in Nat, FlightsUpTo(maps, a), m.n <= a PROVE FlightsUpTo(next, a)
  <2> SUFFICES ASSUME NEW f \in Flights PROVE next.flights[f] <= a
    BY DEF FlightsUpTo
  <2>1. maps.flights[f] <= a
    BY <1>8 DEF FlightsUpTo
  <2>2. next.flights[f] \in Nat
    <3>1. next \in Maps
      BY MessageStep
    <3> QED BY <3>1, MapsFacts
  <2>3. next.flights[f] <= m.n \/ next.flights[f] = maps.flights[f]
    BY <1>3
  <2> QED BY <1>1, <1>8, <2>1, <2>2, <2>3
<1>9. ASSUME m.what # "past", NEW f \in Flights
      PROVE  /\ maps.predictions[f] <= next.predictions[f]
             /\ maps.gates[f] <= next.gates[f]
             /\ \A v \in Nat : v <= maps.flights[f] /\ v <= maps.predictions[f] => v <= next.flights[f]
  <2>1. maps.flights[f] \in Nat /\ maps.predictions[f] \in Nat /\ maps.gates[f] \in Nat
    BY MapsFacts
  <2>2. m.what = "update" /\ Feed[m.n].flight = f
        => maps.predictions[f] <= m.n /\ maps.gates[f] <= m.n
    BY DEF Raises
  <2>3. CASE m.what = "update"
    <3>1. maps.predictions[f] <= next.predictions[f] /\ maps.gates[f] <= next.gates[f]
      BY <1>1, <1>5, <2>1, <2>2, <2>3
    <3>2. next.flights[f] = maps.flights[f] \/ (next.flights[f] = m.n /\ Feed[m.n].flight = f)
      BY <1>1, <2>3, Entries
    <3>3. ASSUME NEW v \in Nat, v <= maps.flights[f], v <= maps.predictions[f]
          PROVE  v <= next.flights[f]
      BY <1>1, <2>1, <2>2, <2>3, <3>2, <3>3
    <3> QED BY <3>1, <3>3
  <2>4. CASE m.what # "update"
    <3>1. next.predictions[f] = maps.predictions[f] /\ next.gates[f] = maps.gates[f]
      BY <1>5, <1>9, <2>4
    <3>2. maps.flights[f] <= next.flights[f]
      BY <1>1, <1>3, <1>9, <2>1, <2>4
    <3>3. next.flights[f] \in Nat
      <4>1. next \in Maps
        BY MessageStep
      <4> QED BY <4>1, MapsFacts
    <3> QED BY <2>1, <3>1, <3>2, <3>3
  <2> QED BY <2>3, <2>4
<1> QED BY <1>4, <1>6, <1>7, <1>8, <1>9

\* What the first n of a batch have left of the maps.
Stage(maps, batch, n, now) ==
    /\ Labelled(now)
    /\ \A l \in Messages :
          Raises(l, maps) /\ (\A j \in 1..n : MayFollow(l, batch[j])) => Raises(l, now)
    /\ \A p \in Limits : MapsUpTo(maps, p) /\ (\A j \in 1..n : UpTo(batch[j], p)) => MapsUpTo(now, p)
    /\ \A a \in Nat : FlightsUpTo(maps, a) /\ (\A j \in 1..n : batch[j].n <= a) => FlightsUpTo(now, a)
    /\ (\A j \in 1..n : batch[j].what # "past") => Forward(maps, now)

LEMMA StageZero ==
    ASSUME NEW maps \in Maps, Labelled(maps), NEW batch
    PROVE  Stage(maps, batch, 0, maps)
<1>1. Forward(maps, maps)
  BY MapsFacts DEF Forward
<1> QED BY <1>1 DEF Stage

LEMMA StageNext ==
    ASSUME NEW maps \in Maps, NEW now \in Maps, NEW batch \in Seq(Messages),
           NEW n \in Nat, n + 1 <= Len(batch), Stage(maps, batch, n, now),
           Rising(batch), \A i \in 1..Len(batch) : Raises(batch[i], maps),
           NEW next, next = ApplyMessage(now, batch[n + 1])
    PROVE  Stage(maps, batch, n + 1, next)
<1> DEFINE m == batch[n + 1]
<1>1. /\ Len(batch) \in Nat /\ n + 1 \in 1..Len(batch) /\ n + 1 \in 1..(n + 1)
      /\ \A j \in 1..n : j \in 1..(n + 1) /\ j < n + 1 /\ j \in 1..Len(batch)
  OBVIOUS
<1>2. m \in Messages /\ Raises(m, maps)
  BY <1>1
<1>3. \A j \in 1..n : MayFollow(m, batch[j])
  BY <1>1 DEF Rising
<1> HIDE DEF m
<1>4. Raises(m, now) /\ Labelled(now)
  BY <1>2, <1>3 DEF Stage
<1>5. next = ApplyMessage(now, m)
  BY DEF m
<1>6. /\ Labelled(next)
      /\ \A l \in Messages : Raises(l, now) /\ MayFollow(l, m) => Raises(l, next)
      /\ \A p \in Limits : MapsUpTo(now, p) /\ UpTo(m, p) => MapsUpTo(next, p)
      /\ \A a \in Nat : FlightsUpTo(now, a) /\ m.n <= a => FlightsUpTo(next, a)
      /\ m.what # "past" => \A f \in Flights :
            /\ now.predictions[f] <= next.predictions[f]
            /\ now.gates[f] <= next.gates[f]
            /\ \A v \in Nat : v <= now.flights[f] /\ v <= now.predictions[f] => v <= next.flights[f]
  BY <1>2, <1>4, <1>5, MessageRaises
<1>7. ASSUME NEW l \in Messages, Raises(l, maps), \A j \in 1..(n + 1) : MayFollow(l, batch[j])
      PROVE  Raises(l, next)
  <2>1. MayFollow(l, m) /\ \A j \in 1..n : MayFollow(l, batch[j])
    BY <1>1, <1>7 DEF m
  <2>2. Raises(l, now)
    BY <1>7, <2>1 DEF Stage
  <2> QED BY <1>6, <2>1, <2>2
<1>8. ASSUME NEW p \in Limits, MapsUpTo(maps, p), \A j \in 1..(n + 1) : UpTo(batch[j], p)
      PROVE  MapsUpTo(next, p)
  <2>1. UpTo(m, p) /\ \A j \in 1..n : UpTo(batch[j], p)
    BY <1>1, <1>8 DEF m
  <2>2. MapsUpTo(now, p)
    BY <1>8, <2>1 DEF Stage
  <2> QED BY <1>6, <2>1, <2>2
<1>9. ASSUME NEW a \in Nat, FlightsUpTo(maps, a), \A j \in 1..(n + 1) : batch[j].n <= a
      PROVE  FlightsUpTo(next, a)
  <2>1. m.n <= a /\ \A j \in 1..n : batch[j].n <= a
    BY <1>1, <1>9 DEF m
  <2>2. FlightsUpTo(now, a)
    BY <1>9, <2>1 DEF Stage
  <2> QED BY <1>6, <2>1, <2>2
<1>10. ASSUME \A j \in 1..(n + 1) : batch[j].what # "past" PROVE Forward(maps, next)
  <2>1. m.what # "past" /\ \A j \in 1..n : batch[j].what # "past"
    BY <1>1, <1>10 DEF m
  <2>2. Forward(maps, now)
    BY <2>1 DEF Stage
  <2>3. next \in Maps
    BY <1>2, <1>5, MessageStep
  <2> SUFFICES ASSUME NEW f \in Flights
               PROVE  /\ maps.predictions[f] <= next.predictions[f]
                      /\ maps.gates[f] <= next.gates[f]
                      /\ maps.flights[f] <= maps.predictions[f] => maps.flights[f] <= next.flights[f]
    BY DEF Forward
  <2>4. /\ maps.flights[f] \in Nat /\ maps.predictions[f] \in Nat /\ maps.gates[f] \in Nat
        /\ now.flights[f] \in Nat /\ now.predictions[f] \in Nat /\ now.gates[f] \in Nat
        /\ next.flights[f] \in Nat /\ next.predictions[f] \in Nat /\ next.gates[f] \in Nat
    BY <2>3, MapsFacts
  <2>5. /\ maps.predictions[f] <= now.predictions[f]
        /\ maps.gates[f] <= now.gates[f]
        /\ maps.flights[f] <= maps.predictions[f] => maps.flights[f] <= now.flights[f]
    BY <2>2 DEF Forward
  <2>6. now.predictions[f] <= next.predictions[f] /\ now.gates[f] <= next.gates[f]
    BY <1>6, <2>1
  <2>7. ASSUME maps.flights[f] <= maps.predictions[f] PROVE maps.flights[f] <= next.flights[f]
    <3>1. maps.flights[f] <= now.flights[f] /\ maps.flights[f] <= now.predictions[f]
      BY <2>4, <2>5, <2>7, SMTT(30)
    <3>2. \A v \in Nat : v <= now.flights[f] /\ v <= now.predictions[f] => v <= next.flights[f]
      BY <1>6, <2>1
    <3> QED BY <2>4, <3>1, <3>2
  <2>8. maps.flights[f] <= maps.predictions[f] => maps.flights[f] <= next.flights[f]
    BY <2>7
  <2>9. maps.predictions[f] <= next.predictions[f] /\ maps.gates[f] <= next.gates[f]
    <3> HIDE DEF m
    <3> QED BY <2>4, <2>5, <2>6, SMTT(30)
  <2> QED BY <2>8, <2>9
<1>11. \A l \in Messages :
          Raises(l, maps) /\ (\A j \in 1..(n + 1) : MayFollow(l, batch[j])) => Raises(l, next)
  BY <1>7
<1>12. \A p \in Limits :
          MapsUpTo(maps, p) /\ (\A j \in 1..(n + 1) : UpTo(batch[j], p)) => MapsUpTo(next, p)
  BY <1>8
<1>13. \A a \in Nat :
          FlightsUpTo(maps, a) /\ (\A j \in 1..(n + 1) : batch[j].n <= a) => FlightsUpTo(next, a)
  BY <1>9
<1> QED BY <1>6, <1>10, <1>11, <1>12, <1>13 DEF Stage

LEMMA BatchRaises ==
    ASSUME NEW maps \in Maps, Labelled(maps), NEW batch \in Seq(Messages),
           Rising(batch), \A i \in 1..Len(batch) : Raises(batch[i], maps)
    PROVE  Stage(maps, batch, Len(batch), ApplyBatch(maps, batch))
<1>1. PICK after \in [0..Len(batch) -> Maps] :
         /\ after[0] = maps
         /\ \A i \in 1..Len(batch) : after[i] = ApplyMessage(after[i - 1], batch[i])
         /\ ApplyBatch(maps, batch) = after[Len(batch)]
  BY BatchSteps
<1> DEFINE S == {n \in Nat : n <= Len(batch) => Stage(maps, batch, n, after[n])}
<1>2. 0 \in S
  BY <1>1, StageZero
<1>3. ASSUME NEW n \in Nat, n \in S PROVE n + 1 \in S
  <2>1. SUFFICES ASSUME n + 1 <= Len(batch) PROVE Stage(maps, batch, n + 1, after[n + 1])
    OBVIOUS
  <2>2. Len(batch) \in Nat /\ n \in 0..Len(batch) /\ n + 1 \in 1..Len(batch) /\ (n + 1) - 1 = n
    BY <2>1
  <2>3. Stage(maps, batch, n, after[n]) /\ after[n] \in Maps
    BY <1>3, <2>2
  <2>4. after[n + 1] = ApplyMessage(after[n], batch[n + 1])
    BY <1>1, <2>2
  <2> HIDE DEF S
  <2> QED BY <2>1, <2>3, <2>4, StageNext
<1> HIDE DEF S
<1>4. Nat \subseteq S
  BY <1>2, <1>3, Induct
<1>5. Len(batch) \in S /\ Len(batch) \in Nat
  BY <1>4
<1> QED BY <1>1, <1>5 DEF S

\* What c's streamer has read of each flight.
ReadOf(c) == [f \in Flights |-> pos[c][Home[f]]]

\* What a step may do to the line from d's queue to its socket: nothing but
\* losing what is on it, the greeting, the replay, reading the topic, putting
\* a message in the queue, and writing one.
Loses(d) ==
    /\ sent'[d] \in {sent[d], <<>>} /\ outbox'[d] \in {outbox[d], <<>>}
    /\ Working(d)' => Working(d) /\ ReadOf(d)' = ReadOf(d)

Greets(d) ==
    /\ sent[d] = <<>> /\ sent'[d] = Append(sent[d], Snapshot(applied)) /\ applied' = applied
    /\ outbox[d] = <<>> /\ outbox'[d] = outbox[d] /\ ~Working(d)'

Replays(d) ==
    /\ \E n \in 1..published : sent'[d] = Append(sent[d], Past(n))
    /\ outbox[d] = <<>> /\ outbox'[d] = outbox[d] /\ ~Working(d)'

Reads(d) ==
    /\ sent'[d] = sent[d] /\ outbox'[d] = outbox[d]
    /\ \/ ~Working(d) /\ ReadOf(d)' = All(published)
       \/ Working(d) /\ Within(ReadOf(d), ReadOf(d)')

Queues(d) ==
    /\ sent'[d] = sent[d] /\ Working(d)
    /\ Within(ReadOf(d), ReadOf(d)')
    /\ \/ outbox'[d] = Append(outbox[d], Heartbeat)
       \/ \E n \in 1..published :
             /\ outbox'[d] = Append(outbox[d], Update(n))
             /\ \A f \in Flights : Feed[n].flight = f => ReadOf(d)[f] < n /\ n <= ReadOf(d)'[f]

Hands(d) ==
    /\ outbox[d] # <<>> /\ outbox'[d] = Tail(outbox[d])
    /\ sent'[d] \in {sent[d], Append(sent[d], Head(outbox[d]))}
    /\ Working(d) /\ ReadOf(d)' = ReadOf(d)

Moves(d) == Loses(d) \/ Greets(d) \/ Replays(d) \/ Reads(d) \/ Queues(d) \/ Hands(d)

TopicGrows ==
    /\ applied \in Nat /\ published \in Nat /\ applied' \in Nat /\ published' \in Nat
    /\ applied <= applied' /\ published <= published'

LEMMA ReadTypes ==
    ASSUME HubTypes
    PROVE  /\ \A c \in Conns : ReadOf(c) \in Limits
           /\ \A n \in Nat : All(n) \in Limits
<1>1. ASSUME NEW c \in Conns PROVE ReadOf(c) \in Limits
  <2>1. pos[c] \in [Partitions -> Nat] /\ \A f \in Flights : Home[f] \in Partitions
    BY StreamFacts, HubAssumption
  <2> QED BY <2>1 DEF ReadOf, Limits
<1> QED BY <1>1 DEF All, Limits

LEMMA WithinSame == ASSUME NEW p \in Limits PROVE Within(p, p)
BY DEF Within, Limits

\* Reading what is next of a partition reads on, of that flight up to it.
LEMMA ReadNext ==
    ASSUME HubTypes, HubTypes', NEW d \in Conns, Streaming(d), NEW n \in 1..published,
           NextOf(d, n), pos'[d] = [pos[d] EXCEPT ![Part(n)] = n]
    PROVE  /\ Within(ReadOf(d), ReadOf(d)')
           /\ \A f \in Flights : Feed[n].flight = f => ReadOf(d)[f] < n /\ n <= ReadOf(d)'[f]
<1>1. /\ \A p \in Partitions : pos[d][p] <= pos'[d][p]
      /\ pos[d][Part(n)] < n
  BY StreamReads
<1>2. \A f \in Flights : Home[f] \in Partitions
  BY HubAssumption
<1>3. /\ \A f \in Flights : ReadOf(d)[f] = pos[d][Home[f]]
      /\ \A f \in Flights : ReadOf(d)'[f] = pos'[d][Home[f]]
  BY DEF ReadOf
<1>4. Within(ReadOf(d), ReadOf(d)')
  BY <1>1, <1>2, <1>3 DEF Within
<1>5. pos'[d][Part(n)] = n /\ n \in Nat
  <2>1. n \in 1..Len(Feed) /\ n \in Nat
    BY TypeFacts
  <2>2. Part(n) \in Partitions
    BY <2>1, PartTypes
  <2>3. pos[d] \in [Partitions -> Nat]
    BY StreamFacts
  <2> QED BY <2>1, <2>2, <2>3
<1>6. ASSUME NEW f \in Flights, Feed[n].flight = f
      PROVE  ReadOf(d)[f] < n /\ n <= ReadOf(d)'[f]
  <2>1. Part(n) = Home[f]
    BY <1>6 DEF Part
  <2> QED BY <1>1, <1>3, <1>5, <2>1
<1> QED BY <1>4, <1>6

LEMMA UntouchedMoves ==
    ASSUME NEW d \in Conns, Untouched(d)
    PROVE  Moves(d)
BY DEF Untouched, Moves, Loses, Working, ReadOf

LEMMA EarlyMoves ==
    ASSUME HubTypes, NEW d \in Conns, Streaming(d), phase[d] = "idle" => sent[d] = <<>>,
           Accept(d) \/ CopyHistory(d) \/ Replay(d)
    PROVE  Moves(d)
<1>1. phase[d] \in Early /\ outbox'[d] = outbox[d]
  BY DEF Accept, CopyHistory, Replay, Early, streamVars
<1>2. outbox[d] = <<>>
  BY <1>1 DEF Streaming
<1>3. ~Working(d)'
  BY DEF Accept, CopyHistory, Replay, Goto, Working, HubTypes, TypeOK
<1>4. CASE CopyHistory(d)
  BY <1>1, <1>3, <1>4 DEF CopyHistory, Moves, Loses
<1>5. CASE Accept(d)
  <2>1. CASE d \in gone
    BY <1>1, <1>3, <1>5, <2>1 DEF Accept, Write, Moves, Loses
  <2>2. CASE d \notin gone
    <3>1. sent'[d] = Append(sent[d], Snapshot(applied)) /\ applied' = applied /\ phase[d] = "idle"
      BY <1>5, <2>2 DEF Accept, Write, topicVars, HubTypes, TypeOK
    <3> QED BY <1>1, <1>2, <1>3, <3>1 DEF Moves, Greets
  <2> QED BY <2>1, <2>2
<1>6. CASE Replay(d)
  <2>1. CASE d \in gone
    BY <1>1, <1>3, <1>6, <2>1 DEF Replay, Write, Moves, Loses
  <2>2. CASE d \notin gone
    <3>1. replay[d] \in Seq(1..published) /\ replay[d] # <<>>
      BY <1>6, TypeFacts DEF Replay
    <3>2. Head(replay[d]) \in 1..published
      BY <3>1, HeadTail
    <3>3. sent'[d] = Append(sent[d], Past(Head(replay[d])))
      BY <1>6, <2>2 DEF Replay, Write, HubTypes, TypeOK
    <3> QED BY <1>1, <1>2, <1>3, <3>2, <3>3 DEF Moves, Replays
  <2> QED BY <2>1, <2>2
<1> QED BY <1>4, <1>5, <1>6

LEMMA WorkMoves ==
    ASSUME HubTypes, HubTypes', NEW d \in Conns, Streaming(d),
           Stream(d) \/ Beat(d) \/ Send(d) \/ Start(d)
    PROVE  Moves(d)
<1>1. CASE Start(d)
  <2>1. sent' = sent /\ outbox' = outbox /\ pos'[d] = Ends(published) /\ ~Working(d)
    BY <1>1 DEF Start, Working, HubTypes, TypeOK
  <2>2. \A f \in Flights : Home[f] \in Partitions
    BY HubAssumption
  <2>3. ReadOf(d)' = All(published)
    BY <2>1, <2>2 DEF ReadOf, All, Ends
  <2> QED BY <2>1, <2>3 DEF Moves, Reads
<1>2. CASE Beat(d)
  <2>1. sent' = sent /\ outbox'[d] = Append(outbox[d], Heartbeat) /\ pos' = pos /\ Working(d)
    BY <1>2 DEF Beat, Put, Working, streamVars, HubTypes, TypeOK
  <2>2. ReadOf(d)' = ReadOf(d)
    BY <2>1 DEF ReadOf
  <2>3. Within(ReadOf(d), ReadOf(d)')
    BY <2>2, ReadTypes, WithinSame
  <2> QED BY <2>1, <2>3 DEF Moves, Queues
<1>3. CASE Send(d)
  <2>1. /\ outbox[d] # <<>> /\ outbox'[d] = Tail(outbox[d]) /\ Working(d) /\ pos' = pos
        /\ sent'[d] \in {sent[d], Append(sent[d], Head(outbox[d]))}
    BY <1>3 DEF Send, Write, streamVars, HubTypes, TypeOK
  <2>2. ReadOf(d)' = ReadOf(d)
    BY <2>1 DEF ReadOf
  <2> QED BY <2>1, <2>2 DEF Moves, Hands
<1>4. CASE Stream(d)
  <2>1. PICK n \in 1..published :
           /\ NextOf(d, n)
           /\ pos' = [pos EXCEPT ![d] = [@ EXCEPT ![Part(n)] = n]]
           /\ IF Passes(filter[d], n) THEN Put(d, Update(n)) ELSE UNCHANGED outbox
    BY <1>4 DEF Stream
  <2>2. /\ sent' = sent /\ Working(d) /\ pos'[d] = [pos[d] EXCEPT ![Part(n)] = n]
        /\ outbox' = outbox \/ outbox'[d] = Append(outbox[d], Update(n))
    <3>1. sent' = sent /\ Working(d)
      BY <1>4 DEF Stream
    <3>2. DOMAIN pos = Conns /\ DOMAIN outbox = Conns
      BY DEF HubTypes, TypeOK
    <3>3. pos'[d] = [pos[d] EXCEPT ![Part(n)] = n]
      BY <2>1, <3>2
    <3>4. outbox' = outbox \/ outbox'[d] = Append(outbox[d], Update(n))
      BY <2>1, <3>2 DEF Put
    <3> QED BY <3>1, <3>3, <3>4
  <2>3. /\ Within(ReadOf(d), ReadOf(d)')
        /\ \A f \in Flights : Feed[n].flight = f => ReadOf(d)[f] < n /\ n <= ReadOf(d)'[f]
    BY <2>1, <2>2, ReadNext
  <2> QED BY <2>2, <2>3 DEF Moves, Reads, Queues
<1> QED BY <1>1, <1>2, <1>3, <1>4

LEMMA EndMoves ==
    ASSUME HubTypes, NEW d \in Conns,
           \/ GreetingFails(d) \/ StartFails(d) \/ End(d) \/ EndFails(d)
           \/ Receive(d) \/ Disconnected(d) \/ StreamFails(d)
           \/ Leave(d) \/ \E frame \in Frames[d] : Say(d, frame)
    PROVE  Moves(d)
<1>1. CASE GreetingFails(d) \/ StartFails(d) \/ End(d) \/ EndFails(d)
  <2>1. Return(d) /\ sent' = sent
    BY <1>1 DEF GreetingFails, StartFails, End, EndFails
  <2>2. outbox'[d] = <<>> /\ ~Working(d)'
    BY <2>1 DEF Return, Goto, Working, HubTypes, TypeOK
  <2> QED BY <2>1, <2>2 DEF Moves, Loses
<1>2. CASE Receive(d) \/ Disconnected(d) \/ StreamFails(d)
  <2>1. sent' = sent /\ outbox' = outbox /\ pos' = pos /\ phase[d] = "live"
    BY <1>2 DEF Receive, Disconnected, StreamFails, streamVars
  <2> QED BY <2>1 DEF Moves, Loses, Working, ReadOf
<1>3. CASE Leave(d) \/ \E frame \in Frames[d] : Say(d, frame)
  <2>1. /\ sent'[d] \in {sent[d], <<>>} /\ outbox' = outbox /\ pos' = pos /\ phase' = phase
    BY <1>3 DEF Leave, Say, streamVars, HubTypes, TypeOK
  <2> QED BY <2>1 DEF Moves, Loses, Working, ReadOf
<1> QED BY <1>1, <1>2, <1>3

LEMMA LineMoves ==
    ASSUME HubTypes, HubTypes', NEW d \in Conns, Streaming(d), phase[d] = "idle" => sent[d] = <<>>,
           [Next]_vars
    PROVE  Moves(d) /\ TopicGrows
<1>1. TopicGrows
  <2>1. applied \in Nat /\ published \in Nat /\ applied' \in Nat /\ published' \in Nat
    BY CapIsPositive DEF HubTypes, TypeOK
  <2>2. applied' \in {applied, applied + 1} /\ published' \in {published, published + 1}
    <3>1. CASE Apply \/ Publish \/ UNCHANGED vars
      BY <3>1 DEF Apply, Publish, vars, topicVars
    <3>2. ASSUME NEW c \in Conns,
                 \/ Accept(c) \/ CopyHistory(c) \/ Replay(c) \/ GreetingFails(c) \/ Start(c)
                 \/ Stream(c) \/ Send(c) \/ Receive(c) \/ Disconnected(c) \/ End(c)
                 \/ Beat(c)
                 \/ StartFails(c) \/ StreamFails(c) \/ EndFails(c)
                 \/ Leave(c) \/ \E frame \in Frames[c] : Say(c, frame)
          PROVE  UNCHANGED topicVars
      BY <3>2 DEF Accept, CopyHistory, Replay, GreetingFails, Start, Stream, Send, Receive,
                  Disconnected, End, Beat, StartFails, StreamFails, EndFails, Leave, Say
    <3> QED BY <3>1, <3>2, NextCases DEF topicVars
  <2> QED BY <2>1, <2>2 DEF TopicGrows
<1>2. CASE Apply \/ Publish \/ UNCHANGED vars
  BY <1>1, <1>2, TopicElsewhere, UntouchedMoves
<1>3. ASSUME NEW c \in Conns,
             \/ Accept(c) \/ CopyHistory(c) \/ Replay(c) \/ GreetingFails(c) \/ Start(c)
             \/ Stream(c) \/ Send(c) \/ Receive(c) \/ Disconnected(c) \/ End(c)
             \/ Beat(c)
             \/ StartFails(c) \/ StreamFails(c) \/ EndFails(c)
             \/ Leave(c) \/ \E frame \in Frames[c] : Say(c, frame)
      PROVE  Moves(d)
  <2>1. CASE c = d
    BY <1>3, <2>1, EarlyMoves, WorkMoves, EndMoves
  <2>2. CASE c # d
    <3>1. Untouched(d)
      BY <1>3, <2>2, ReturnElsewhere, WorkElsewhere, ClientElsewhere
    <3> QED BY <3>1, UntouchedMoves
  <2> QED BY <2>1, <2>2
<1> QED BY <1>1, <1>2, <1>3, NextCases

\* m is of what has been applied or published, and read if it was streamed.
Seen(m) == m.n <= applied /\ UpTo(m, All(published))
Given(c, m) == Seen(m) /\ (Working(c) => UpTo(m, ReadOf(c)))

\* What was written to c and what waits to be.
Rises(c) ==
    /\ Rising(sent[c]) /\ Rising(outbox[c])
    /\ \A i \in 1..Len(sent[c]), j \in 1..Len(outbox[c]) : MayFollow(outbox[c][j], sent[c][i])
    /\ \A i \in 1..Len(sent[c]) : Given(c, sent[c][i])
    /\ \A i \in 1..Len(outbox[c]) : Given(c, outbox[c][i])

LEMMA Appended ==
    ASSUME NEW q \in Seq(Messages), NEW m \in Messages
    PROVE  /\ Len(q) \in Nat /\ Len(Append(q, m)) = Len(q) + 1
           /\ \A i \in 1..Len(Append(q, m)) :
                 \/ i = Len(q) + 1 /\ Append(q, m)[i] = m
                 \/ i \in 1..Len(q) /\ Append(q, m)[i] = q[i]
OBVIOUS

LEMMA Dropped ==
    ASSUME NEW q \in Seq(Messages), q # <<>>
    PROVE  /\ Len(q) \in Nat /\ Len(Tail(q)) = Len(q) - 1 /\ Tail(q) \in Seq(Messages)
           /\ 1 \in 1..Len(q) /\ q[1] = Head(q) /\ Head(q) \in Messages
           /\ \A i \in 1..Len(Tail(q)) : i + 1 \in 1..Len(q) /\ 1 < i + 1 /\ Tail(q)[i] = q[i + 1]
<1>1. Len(q) \in Nat /\ Len(q) # 0
  OBVIOUS
<1> QED BY <1>1

LEMMA RisingAppend ==
    ASSUME NEW q \in Seq(Messages), NEW m \in Messages, Rising(q),
           \A i \in 1..Len(q) : MayFollow(m, q[i])
    PROVE  Rising(Append(q, m))
<1> DEFINE longer == Append(q, m)
<1>1. /\ Len(q) \in Nat /\ Len(longer) = Len(q) + 1
      /\ \A i \in 1..Len(longer) :
            \/ i = Len(q) + 1 /\ longer[i] = m
            \/ i \in 1..Len(q) /\ longer[i] = q[i]
  BY Appended
<1> HIDE DEF longer
<1>2. SUFFICES ASSUME NEW i \in 1..Len(longer), NEW j \in 1..Len(longer), i < j
               PROVE  MayFollow(longer[j], longer[i])
  BY DEF Rising, longer
<1>3. i \in 1..Len(q) /\ longer[i] = q[i]
  BY <1>1, <1>2
<1>4. CASE j = Len(q) + 1
  BY <1>1, <1>3, <1>4
<1>5. CASE j \in 1..Len(q)
  BY <1>1, <1>2, <1>3, <1>5 DEF Rising
<1> QED BY <1>1, <1>4, <1>5

LEMMA RisingTail ==
    ASSUME NEW q \in Seq(Messages), q # <<>>, Rising(q)
    PROVE  /\ Rising(Tail(q))
           /\ \A i \in 1..Len(Tail(q)) : MayFollow(Tail(q)[i], Head(q))
<1> DEFINE rest == Tail(q)
<1>1. /\ Len(q) \in Nat /\ Len(rest) = Len(q) - 1 /\ 1 \in 1..Len(q) /\ q[1] = Head(q)
      /\ \A i \in 1..Len(rest) : i + 1 \in 1..Len(q) /\ 1 < i + 1 /\ rest[i] = q[i + 1]
  BY Dropped
<1> HIDE DEF rest
<1>2. ASSUME NEW i \in 1..Len(rest), NEW j \in 1..Len(rest), i < j
      PROVE  MayFollow(rest[j], rest[i])
  <2>1. i + 1 < j + 1
    BY <1>2
  <2> QED BY <1>1, <2>1 DEF Rising
<1>3. ASSUME NEW i \in 1..Len(rest) PROVE MayFollow(rest[i], Head(q))
  BY <1>1 DEF Rising
<1> QED BY <1>2, <1>3 DEF Rising, rest

\* Given(d, m) after a step.
GivenNext(d, m) ==
    m.n <= applied' /\ UpTo(m, All(published')) /\ (Working(d)' => UpTo(m, ReadOf(d)'))

\* A step of which what d had read remains so.
ReadsOn(d) ==
    Working(d)' => (Working(d) /\ Within(ReadOf(d), ReadOf(d)')) \/ ReadOf(d)' = All(published)

LEMMA NextReadTypes ==
    ASSUME HubTypes', NEW d \in Conns
    PROVE  ReadOf(d)' \in Limits
<1>1. pos'[d] \in [Partitions -> Nat]
  <2>1. pos' \in [Conns -> [Partitions -> 0..published']] /\ published' \in 0..applied'
        /\ applied' \in 0..Len(Feed) /\ Len(Feed) \in Nat
    BY CapIsPositive DEF HubTypes, TypeOK
  <2>2. pos'[d] \in [Partitions -> 0..published'] /\ \A n \in 0..published' : n \in Nat
    BY <2>1
  <2> QED BY <2>2
<1>2. \A f \in Flights : Home[f] \in Partitions
  BY HubAssumption
<1> QED BY <1>1, <1>2 DEF ReadOf, Limits

LEMMA UpToMore ==
    ASSUME NEW m \in Messages, NEW p \in Limits, NEW q \in Limits, UpTo(m, p), Within(p, q)
    PROVE  UpTo(m, q)
<1> SUFFICES ASSUME m.what \in {"past", "update"}, NEW f \in Flights, Feed[m.n].flight = f
             PROVE  m.n <= q[f]
  BY DEF UpTo
<1>1. m.n \in Nat /\ p[f] \in Nat /\ q[f] \in Nat
  BY CapIsPositive DEF Messages, Limits
<1>2. m.n <= p[f] /\ p[f] <= q[f]
  BY DEF UpTo, Within
<1> QED BY <1>1, <1>2

LEMMA GivenStays ==
    ASSUME HubTypes, HubTypes', TopicGrows, NEW d \in Conns, ReadsOn(d)
    PROVE  \A m \in Messages : Given(d, m) => GivenNext(d, m)
<1> SUFFICES ASSUME NEW m \in Messages, Given(d, m) PROVE GivenNext(d, m)
  OBVIOUS
<1>1. m.n \in Nat /\ ReadOf(d) \in Limits /\ ReadOf(d)' \in Limits
  BY CapIsPositive, ReadTypes, NextReadTypes DEF Messages
<1>2. /\ m.n <= applied' /\ All(published) \in Limits /\ All(published') \in Limits
      /\ Within(All(published), All(published'))
  <2>1. /\ applied \in Nat /\ published \in Nat /\ applied' \in Nat /\ published' \in Nat
        /\ applied <= applied' /\ published <= published'
    BY DEF TopicGrows
  <2>2. m.n <= applied'
    BY <1>1, <2>1 DEF Given, Seen
  <2>3. All(published) \in Limits /\ All(published') \in Limits
    BY <2>1, ReadTypes
  <2>4. Within(All(published), All(published'))
    BY <2>1 DEF Within, All
  <2> QED BY <2>2, <2>3, <2>4
<1>3. UpTo(m, All(published)) /\ UpTo(m, All(published'))
  BY <1>1, <1>2, UpToMore DEF Given, Seen
<1>4. ASSUME Working(d)' PROVE UpTo(m, ReadOf(d)')
  <2>1. CASE Working(d) /\ Within(ReadOf(d), ReadOf(d)')
    BY <1>1, <2>1, UpToMore DEF Given
  <2>2. CASE ReadOf(d)' = All(published)
    BY <1>3, <2>2
  <2> QED BY <1>4, <2>1, <2>2 DEF ReadsOn
<1> QED BY <1>2, <1>3, <1>4 DEF GivenNext

\* Rises(d) after a step that leaves these on the line.
RisesWith(d, s, t) ==
    /\ Rising(s) /\ Rising(t)
    /\ \A i \in 1..Len(s), j \in 1..Len(t) : MayFollow(t[j], s[i])
    /\ \A i \in 1..Len(s) : GivenNext(d, s[i])
    /\ \A i \in 1..Len(t) : GivenNext(d, t[i])

LEMMA RisesAfter ==
    ASSUME NEW d \in Conns, RisesWith(d, sent'[d], outbox'[d])
    PROVE  Rises(d)'
BY DEF RisesWith, GivenNext, Rises, Given, Seen

LEMMA RisesStays ==
    ASSUME HubTypes, HubTypes', TopicGrows, NEW d \in Conns, Rises(d), ReadsOn(d)
    PROVE  RisesWith(d, sent[d], outbox[d])
<1>1. /\ \A i \in 1..Len(sent[d]) : sent[d][i] \in Messages /\ Given(d, sent[d][i])
      /\ \A i \in 1..Len(outbox[d]) : outbox[d][i] \in Messages /\ Given(d, outbox[d][i])
  BY StreamFacts DEF Rises
<1>2. \A m \in Messages : Given(d, m) => GivenNext(d, m)
  BY GivenStays
<1> QED BY <1>1, <1>2 DEF Rises, RisesWith

LEMMA RisesLess ==
    ASSUME NEW d, NEW s \in Seq(Messages), NEW t \in Seq(Messages), RisesWith(d, s, t),
           NEW u \in {s, <<>>}, NEW w \in {t, <<>>}
    PROVE  RisesWith(d, u, w)
<1>1. 1..Len(<<>>) = {}
  OBVIOUS
<1>2. (u = s \/ 1..Len(u) = {}) /\ (w = t \/ 1..Len(w) = {})
  BY <1>1
<1> QED BY <1>2 DEF RisesWith, Rising

LEMMA RisesWriting ==
    ASSUME NEW d, NEW s \in Seq(Messages), RisesWith(d, s, <<>>), NEW m \in Messages,
           GivenNext(d, m), \A i \in 1..Len(s) : MayFollow(m, s[i])
    PROVE  RisesWith(d, Append(s, m), <<>>)
<1>1. Rising(Append(s, m))
  BY RisingAppend DEF RisesWith
<1>2. \A i \in 1..Len(Append(s, m)) : GivenNext(d, Append(s, m)[i])
  BY Appended DEF RisesWith
<1>3. 1..Len(<<>>) = {}
  OBVIOUS
<1> QED BY <1>1, <1>2, <1>3 DEF RisesWith

LEMMA RisesQueueing ==
    ASSUME NEW d, NEW s \in Seq(Messages), NEW t \in Seq(Messages), RisesWith(d, s, t),
           NEW m \in Messages, GivenNext(d, m),
           \A i \in 1..Len(s) : MayFollow(m, s[i]), \A i \in 1..Len(t) : MayFollow(m, t[i])
    PROVE  RisesWith(d, s, Append(t, m))
<1>1. Rising(Append(t, m))
  BY RisingAppend DEF RisesWith
<1>2. \A i \in 1..Len(Append(t, m)) : GivenNext(d, Append(t, m)[i])
  BY Appended DEF RisesWith
<1>3. \A i \in 1..Len(s), j \in 1..Len(Append(t, m)) : MayFollow(Append(t, m)[j], s[i])
  BY Appended DEF RisesWith
<1> QED BY <1>1, <1>2, <1>3 DEF RisesWith

LEMMA RisesHanding ==
    ASSUME NEW d, NEW s \in Seq(Messages), NEW t \in Seq(Messages), RisesWith(d, s, t), t # <<>>,
           NEW u \in {s, Append(s, Head(t))}
    PROVE  RisesWith(d, u, Tail(t))
<1> DEFINE m == Head(t)
           rest == Tail(t)
           longer == Append(s, m)
<1>1. /\ m \in Messages /\ 1 \in 1..Len(t) /\ t[1] = m
      /\ \A i \in 1..Len(rest) : i + 1 \in 1..Len(t) /\ rest[i] = t[i + 1]
  BY Dropped
<1>2. Rising(rest) /\ \A i \in 1..Len(rest) : MayFollow(rest[i], m)
  BY RisingTail DEF RisesWith
<1>3. GivenNext(d, m) /\ \A i \in 1..Len(s) : MayFollow(m, s[i])
  <2> HIDE DEF m
  <2> QED BY <1>1 DEF RisesWith
<1>4. Rising(s) /\ \A i \in 1..Len(s) : GivenNext(d, s[i])
  BY DEF RisesWith
<1> HIDE DEF m, rest
<1>5. \A i \in 1..Len(rest) : GivenNext(d, rest[i]) /\ \A j \in 1..Len(s) : MayFollow(rest[i], s[j])
  BY <1>1 DEF RisesWith
<1>6. /\ Rising(longer)
      /\ \A i \in 1..Len(longer) :
            \/ i = Len(s) + 1 /\ longer[i] = m
            \/ i \in 1..Len(s) /\ longer[i] = s[i]
  BY <1>1, <1>3, <1>4, RisingAppend, Appended
<1> HIDE DEF longer
<1>7. RisesWith(d, s, rest)
  BY <1>2, <1>4, <1>5 DEF RisesWith
<1>8. \A i \in 1..Len(longer) : GivenNext(d, longer[i])
                                /\ \A j \in 1..Len(rest) : MayFollow(rest[j], longer[i])
  BY <1>2, <1>3, <1>4, <1>5, <1>6
<1>9. RisesWith(d, longer, rest)
  BY <1>2, <1>5, <1>6, <1>8 DEF RisesWith
<1>10. u = s \/ u = longer
  BY DEF longer, m
<1> QED BY <1>7, <1>9, <1>10 DEF rest

LEMMA MovesRise ==
    ASSUME HubTypes, HubTypes', TopicGrows, NEW d \in Conns, Rises(d), Moves(d)
    PROVE  Rises(d)'
<1> DEFINE s == sent[d]
           t == outbox[d]
<1>1. /\ s \in Seq(Messages) /\ t \in Seq(Messages)
      /\ published \in Nat /\ applied \in Nat /\ published \in 0..Len(Feed) /\ applied \in 0..Len(Feed)
  BY StreamFacts, CapIsPositive DEF HubTypes, TypeOK
<1>2. 1..Len(<<>>) = {}
  OBVIOUS
<1>3. ASSUME ReadsOn(d) PROVE RisesWith(d, s, t)
  BY <1>3, RisesStays
<1> ReadOf(d) \in Limits /\ Within(ReadOf(d), ReadOf(d))
  BY ReadTypes, WithinSame
<1>4. SUFFICES RisesWith(d, sent'[d], outbox'[d])
  BY RisesAfter
<1>5. CASE Loses(d)
  <2>1. ReadsOn(d)
    BY <1>5 DEF Loses, ReadsOn
  <2>2. sent'[d] \in {s, <<>>} /\ outbox'[d] \in {t, <<>>} /\ RisesWith(d, s, t)
    BY <1>3, <1>5, <2>1 DEF Loses
  <2> HIDE DEF s, t
  <2> QED BY <1>1, <2>2, RisesLess
<1>6. CASE Greets(d)
  <2> DEFINE m == Snapshot(applied)
  <2>1. /\ t = <<>> /\ s = <<>> /\ sent'[d] = Append(s, m) /\ outbox'[d] = <<>>
        /\ RisesWith(d, s, t) /\ ~Working(d)' /\ applied' = applied
    BY <1>3, <1>6 DEF Greets, ReadsOn
  <2>2. m \in Messages
    BY <1>1, MessageTypes
  <2>3. GivenNext(d, m)
    BY <1>1, <2>1 DEF GivenNext, UpTo, Snapshot
  <2>4. \A i \in 1..Len(s) : MayFollow(m, s[i])
    BY <1>2, <2>1
  <2> HIDE DEF s, t, m
  <2>5. RisesWith(d, s, <<>>)
    BY <2>1
  <2> QED BY <1>1, <2>1, <2>2, <2>3, <2>4, <2>5, RisesWriting
<1>7. CASE Replays(d)
  <2>1. PICK n \in 1..published : sent'[d] = Append(s, Past(n))
    BY <1>7 DEF Replays
  <2> DEFINE m == Past(n)
  <2>2. /\ t = <<>> /\ outbox'[d] = <<>> /\ RisesWith(d, s, t) /\ ~Working(d)'
    BY <1>3, <1>7 DEF Replays, ReadsOn
  <2>3. n \in 0..Len(Feed) /\ n \in Nat /\ n <= published /\ published <= applied
    <3>1. published \in 0..applied
      BY DEF HubTypes, TypeOK
    <3> HIDE DEF s, t, m
    <3> QED BY <1>1, <3>1
  <2>4. m \in Messages
    BY <2>3, MessageTypes
  <2>5. GivenNext(d, m)
    <3>1. n <= applied' /\ n <= published' /\ m.n = n
      BY <2>3 DEF TopicGrows, Past
    <3>2. UpTo(m, All(published'))
      <4> HIDE DEF m
      <4> QED BY <3>1 DEF UpTo, All
    <3> QED BY <2>2, <3>1, <3>2 DEF GivenNext
  <2>6. \A i \in 1..Len(s) : MayFollow(m, s[i])
    BY DEF MayFollow, Past
  <2>7. sent'[d] = Append(s, m)
    BY <2>1
  <2> HIDE DEF s, t, m
  <2>8. RisesWith(d, s, <<>>)
    BY <2>2
  <2> QED BY <1>1, <2>2, <2>4, <2>5, <2>6, <2>7, <2>8, RisesWriting
<1>8. CASE Reads(d)
  <2>1. ReadsOn(d)
    BY <1>8 DEF Reads, ReadsOn
  <2> QED BY <1>3, <1>8, <2>1 DEF Reads
<1>9. CASE Queues(d)
  <2>1. /\ Working(d) /\ Within(ReadOf(d), ReadOf(d)') /\ sent'[d] = s /\ ReadsOn(d)
    BY <1>9 DEF Queues, ReadsOn
  <2>2. RisesWith(d, s, t)
    BY <1>3, <2>1
  <2>3. PICK m \in Messages :
           /\ outbox'[d] = Append(t, m)
           /\ \/ m = Heartbeat
              \/ \E n \in 1..published :
                    /\ m = Update(n)
                    /\ \A f \in Flights : Feed[n].flight = f => ReadOf(d)[f] < n /\ n <= ReadOf(d)'[f]
    <3>1. CASE outbox'[d] = Append(outbox[d], Heartbeat)
      BY <3>1, MessageTypes
    <3>2. ASSUME NEW n \in 1..published, outbox'[d] = Append(outbox[d], Update(n)),
                 \A f \in Flights : Feed[n].flight = f => ReadOf(d)[f] < n /\ n <= ReadOf(d)'[f]
          PROVE  \E m \in Messages :
                    /\ outbox'[d] = Append(t, m)
                    /\ \E k \in 1..published :
                          /\ m = Update(k)
                          /\ \A f \in Flights :
                                Feed[k].flight = f => ReadOf(d)[f] < k /\ k <= ReadOf(d)'[f]
      <4>1. n \in 0..Len(Feed)
        BY <1>1
      <4>2. Update(n) \in Messages
        BY <4>1, MessageTypes
      <4> QED BY <3>2, <4>2
    <3> QED BY <1>9, <3>1, <3>2 DEF Queues
  <2>4. /\ \A i \in 1..Len(s) : Given(d, s[i]) /\ s[i] \in Messages
        /\ \A i \in 1..Len(t) : Given(d, t[i]) /\ t[i] \in Messages
    <3>1. /\ \A i \in 1..Len(s) : Given(d, s[i])
          /\ \A i \in 1..Len(t) : Given(d, t[i])
      BY DEF Rises
    <3> HIDE DEF s, t
    <3> QED BY <1>1, <3>1
  <2>9. \A n \in 1..published : n \in Nat /\ n <= published /\ Feed[n].flight \in Flights
    BY <1>1, TypeFacts, PartTypes
  <2>5. ASSUME NEW l \in Messages, Given(d, l) PROVE MayFollow(m, l)
    <3>1. UpTo(l, ReadOf(d)) /\ l.n \in Nat
      BY <2>1, <2>5, CapIsPositive DEF Given, Messages
    <3>2. CASE m = Heartbeat
      BY <3>2 DEF MayFollow, Heartbeat
    <3>3. ASSUME NEW n \in 1..published, m = Update(n),
                 \A f \in Flights : Feed[n].flight = f => ReadOf(d)[f] < n
          PROVE  MayFollow(m, l)
      <4>1. m.n = n /\ m.what = "update" /\ n \in Nat /\ Feed[n].flight \in Flights
        BY <2>9, <3>3 DEF Update
      <4>2. ASSUME l.what \in {"past", "update"}, Alike(m, l) PROVE l.n <= m.n
        <5>1. Feed[l.n].flight = Feed[n].flight
          BY <4>1, <4>2 DEF Alike
        <5>2. l.n <= ReadOf(d)[Feed[n].flight]
          BY <3>1, <4>1, <4>2, <5>1 DEF UpTo
        <5>3. ReadOf(d)[Feed[n].flight] < n /\ ReadOf(d)[Feed[n].flight] \in Nat
          BY <3>3, <4>1 DEF Limits
        <5> QED BY <3>1, <4>1, <5>2, <5>3
      <4> QED BY <4>1, <4>2 DEF MayFollow
    <3> QED BY <2>3, <3>2, <3>3
  <2>6. GivenNext(d, m)
    <3>1. CASE m = Heartbeat
      BY <3>1 DEF GivenNext, Heartbeat, UpTo, TopicGrows
    <3>2. ASSUME NEW n \in 1..published, m = Update(n),
                 \A f \in Flights : Feed[n].flight = f => n <= ReadOf(d)'[f]
          PROVE  GivenNext(d, m)
      <4>1. published <= applied
        BY <1>1 DEF HubTypes, TypeOK
      <4>2. n <= applied' /\ n <= published' /\ m.n = n
        BY <1>1, <2>9, <3>2, <4>1 DEF TopicGrows, Update
      <4>3. UpTo(m, All(published'))
        BY <4>2 DEF UpTo, All
      <4>4. UpTo(m, ReadOf(d)')
        BY <3>2, <4>2 DEF UpTo
      <4> QED BY <4>2, <4>3, <4>4 DEF GivenNext
    <3> QED BY <2>3, <3>1, <3>2
  <2> HIDE DEF s, t
  <2>7. /\ \A i \in 1..Len(s) : MayFollow(m, s[i])
        /\ \A i \in 1..Len(t) : MayFollow(m, t[i])
    BY <2>4, <2>5
  <2>8. RisesWith(d, s, Append(t, m))
    BY <1>1, <2>2, <2>6, <2>7, RisesQueueing
  <2> QED BY <2>1, <2>3, <2>8
<1>10. CASE Hands(d)
  <2>1. ReadsOn(d)
    BY <1>10 DEF Hands, ReadsOn
  <2>2. RisesWith(d, s, t)
    BY <1>3, <2>1
  <2>3. t # <<>> /\ outbox'[d] = Tail(t) /\ sent'[d] \in {s, Append(s, Head(t))}
    BY <1>10 DEF Hands
  <2> HIDE DEF s, t
  <2> QED BY <1>1, <2>2, <2>3, RisesHanding
<1> QED BY <1>5, <1>6, <1>7, <1>8, <1>9, <1>10 DEF Moves

\* The batch and the maps, which are of what was applied or published.
HookRises ==
    /\ Labelled(ui) /\ MapsUpTo(ui, All(published)) /\ FlightsUpTo(ui, applied)
    /\ Rising(pending)
    /\ \A i \in 1..Len(pending) : Seen(pending[i]) /\ Raises(pending[i], ui)

\* m is no step back from batch and maps.
Over(m, q, maps) == Raises(m, maps) /\ \A i \in 1..Len(q) : MayFollow(m, q[i])

ReadUpTo(p, q, maps) == MapsUpTo(maps, p) /\ \A i \in 1..Len(q) : UpTo(q[i], p)

\* What is still to arrive from the socket, or to be read from the topic.
Arrives(c) ==
    Tracked(c) =>
        /\ \A i \in 1..Len(sent[c]) : received < i => Over(sent[c][i], pending, ui)
        /\ \A i \in 1..Len(outbox[c]) : Over(outbox[c][i], pending, ui)
        /\ Working(c) => ReadUpTo(ReadOf(c), pending, ui)

\* Everything on its way from the topic to the maps is in an order in which
\* only the replay can take them back.
RiseInv == HookRises /\ \A c \in Conns : Rises(c) /\ Arrives(c)

LEMMA RiseFacts ==
    ASSUME HookTypes
    PROVE  /\ pending \in Seq(Messages) /\ Len(pending) \in Nat /\ ui \in Maps
           /\ \A i \in 1..Len(pending) : pending[i] \in Messages
           /\ \A m \in Messages : m.n \in Nat
           /\ published \in Nat /\ applied \in Nat /\ published <= applied
           /\ All(published) \in Limits
           /\ \A c \in Conns : /\ ReadOf(c) \in Limits
                               /\ sent[c] \in Seq(Messages) /\ outbox[c] \in Seq(Messages)
                               /\ Len(sent[c]) \in Nat /\ Len(outbox[c]) \in Nat
<1>1. pending \in Seq(Messages) /\ ui \in Maps
  BY HookParts DEF HookOwn
<1>2. \A m \in Messages : m.n \in Nat
  BY CapIsPositive DEF Messages
<1>3. published \in Nat /\ applied \in Nat /\ published <= applied
  BY CapIsPositive DEF HookTypes, HubTypes, TypeOK
<1>4. \A c \in Conns : sent[c] \in Seq(Messages) /\ outbox[c] \in Seq(Messages)
  BY StreamFacts DEF HookTypes
<1>5. All(published) \in Limits /\ \A c \in Conns : ReadOf(c) \in Limits
  BY <1>3, ReadTypes DEF HookTypes
<1> QED BY <1>1, <1>2, <1>3, <1>4, <1>5

\* The topic grows, and what was on the maps is of it still.
LEMMA TopicRises ==
    ASSUME HookTypes, HookRises, TopicGrows, UNCHANGED <<pending, ui>>
    PROVE  HookRises'
<1>1. /\ \A f \in Flights : /\ ui.predictions[f] \in Nat /\ ui.gates[f] \in Nat
                            /\ ui.flights[f] \in Nat
      /\ \A i \in 1..Len(pending) : pending[i].n \in Nat
  BY RiseFacts, MapsFacts
<1>2. MapsUpTo(ui, All(published'))
  BY <1>1 DEF HookRises, MapsUpTo, TopicGrows, All
<1>3. FlightsUpTo(ui, applied')
  BY <1>1 DEF HookRises, FlightsUpTo, TopicGrows
<1>4. ASSUME NEW i \in 1..Len(pending)
      PROVE  pending[i].n <= applied' /\ UpTo(pending[i], All(published'))
  BY <1>1 DEF HookRises, Seen, UpTo, TopicGrows, All
<1> QED BY <1>2, <1>3, <1>4 DEF HookRises, Seen

\* Arrives(d) after a step that leaves batch and maps alone.
ArrivesWith(d, s, t) ==
    /\ \A i \in 1..Len(s) : received < i => Over(s[i], pending, ui)
    /\ \A i \in 1..Len(t) : Over(t[i], pending, ui)

LEMMA ArrivesAfter ==
    ASSUME NEW d \in Conns, UNCHANGED <<socket, ready, received, pending, ui, cut>>,
           Tracked(d) => /\ ArrivesWith(d, sent'[d], outbox'[d])
                         /\ Working(d)' => ReadUpTo(ReadOf(d)', pending, ui)
    PROVE  Arrives(d)'
BY DEF Arrives, ArrivesWith, Tracked

LEMMA ArrivesLess ==
    ASSUME NEW d \in Conns, NEW s \in Seq(Messages), NEW t \in Seq(Messages), ArrivesWith(d, s, t),
           NEW u \in {s, <<>>}, NEW w \in {t, <<>>}
    PROVE  ArrivesWith(d, u, w)
<1>1. 1..Len(<<>>) = {}
  OBVIOUS
<1>2. (u = s \/ 1..Len(u) = {}) /\ (w = t \/ 1..Len(w) = {})
  BY <1>1
<1> QED BY <1>2 DEF ArrivesWith

LEMMA ArrivesWriting ==
    ASSUME NEW d \in Conns, NEW s \in Seq(Messages), NEW t \in Seq(Messages), ArrivesWith(d, s, t),
           NEW m \in Messages, Over(m, pending, ui)
    PROVE  ArrivesWith(d, Append(s, m), t) /\ ArrivesWith(d, s, Append(t, m))
<1>1. \A i \in 1..Len(Append(s, m)) : received < i => Over(Append(s, m)[i], pending, ui)
  BY Appended DEF ArrivesWith
<1>2. \A i \in 1..Len(Append(t, m)) : Over(Append(t, m)[i], pending, ui)
  BY Appended DEF ArrivesWith
<1> QED BY <1>1, <1>2 DEF ArrivesWith

LEMMA ArrivesHanding ==
    ASSUME NEW d \in Conns, NEW s \in Seq(Messages), NEW t \in Seq(Messages), ArrivesWith(d, s, t),
           t # <<>>, NEW u \in {s, Append(s, Head(t))}
    PROVE  ArrivesWith(d, u, Tail(t))
<1>1. /\ Head(t) \in Messages /\ Tail(t) \in Seq(Messages) /\ 1 \in 1..Len(t) /\ t[1] = Head(t)
      /\ \A i \in 1..Len(Tail(t)) : i + 1 \in 1..Len(t) /\ Tail(t)[i] = t[i + 1]
  BY Dropped
<1>2. Over(Head(t), pending, ui)
  BY <1>1 DEF ArrivesWith
<1>3. ArrivesWith(d, s, Tail(t))
  BY <1>1 DEF ArrivesWith
<1>4. ArrivesWith(d, Append(s, Head(t)), Tail(t))
  BY <1>1, <1>2, <1>3, ArrivesWriting
<1> QED BY <1>3, <1>4

LEMMA MovesArrive ==
    ASSUME HookTypes, HubTypes', HookRises, NEW d \in Conns, Rises(d), Arrives(d), Moves(d),
           UNCHANGED <<socket, ready, received, pending, ui, cut>>
    PROVE  Arrives(d)'
<1> DEFINE s == sent[d]
           t == outbox[d]
<1>1. /\ s \in Seq(Messages) /\ t \in Seq(Messages)
      /\ ReadOf(d) \in Limits /\ ReadOf(d)' \in Limits
      /\ published \in Nat /\ applied \in Nat /\ ui \in Maps
      /\ \A i \in 1..Len(pending) : pending[i] \in Messages /\ pending[i].n \in Nat
      /\ \A f \in Flights : ui.predictions[f] \in Nat /\ ui.gates[f] \in Nat
  BY RiseFacts, MapsFacts, NextReadTypes DEF HookTypes
<1>2. SUFFICES ASSUME Tracked(d)
               PROVE  /\ ArrivesWith(d, sent'[d], outbox'[d])
                      /\ Working(d)' => ReadUpTo(ReadOf(d)', pending, ui)
  BY ArrivesAfter
<1>3. ArrivesWith(d, s, t) /\ (Working(d) => ReadUpTo(ReadOf(d), pending, ui))
  BY <1>2 DEF Arrives, ArrivesWith
<1>4. ReadUpTo(All(published), pending, ui)
  BY DEF HookRises, Seen, ReadUpTo
<1>5. CASE Loses(d)
  <2>1. sent'[d] \in {s, <<>>} /\ outbox'[d] \in {t, <<>>}
    BY <1>5 DEF Loses
  <2>2. Working(d)' => ReadUpTo(ReadOf(d)', pending, ui)
    BY <1>3, <1>5 DEF Loses
  <2> HIDE DEF s, t
  <2> QED BY <1>1, <1>3, <2>1, <2>2, ArrivesLess
<1>6. CASE Greets(d)
  <2> DEFINE m == Snapshot(applied)
  <2>1. sent'[d] = Append(s, m) /\ outbox'[d] = t /\ ~Working(d)'
    BY <1>6 DEF Greets
  <2>2. m \in Messages
    <3>1. applied \in 0..Len(Feed)
      BY DEF HookTypes, HubTypes, TypeOK
    <3> QED BY <3>1, MessageTypes
  <2>3. Raises(m, ui)
    BY DEF HookRises, FlightsUpTo, Raises, Snapshot
  <2>4. \A i \in 1..Len(pending) : MayFollow(m, pending[i])
    BY DEF HookRises, Seen, MayFollow, Snapshot
  <2> HIDE DEF s, t, m
  <2>5. Over(m, pending, ui)
    BY <2>3, <2>4 DEF Over
  <2>6. ArrivesWith(d, Append(s, m), t)
    BY <1>1, <1>3, <2>2, <2>5, ArrivesWriting
  <2> QED BY <2>1, <2>6
<1>7. CASE Replays(d)
  <2>1. PICK n \in 1..published : sent'[d] = Append(s, Past(n))
    BY <1>7 DEF Replays
  <2> DEFINE m == Past(n)
  <2>2. sent'[d] = Append(s, m) /\ outbox'[d] = t /\ ~Working(d)'
    BY <1>7, <2>1 DEF Replays
  <2>3. m \in Messages
    <3>1. n \in 0..Len(Feed)
      BY TypeFacts DEF HookTypes
    <3> QED BY <3>1, MessageTypes
  <2>4. Over(m, pending, ui)
    BY DEF Over, Raises, MayFollow, Past
  <2> HIDE DEF s, t, m
  <2>5. ArrivesWith(d, Append(s, m), t)
    BY <1>1, <1>3, <2>3, <2>4, ArrivesWriting
  <2> QED BY <2>2, <2>5
<1>8. ASSUME Working(d), Within(ReadOf(d), ReadOf(d)') PROVE ReadUpTo(ReadOf(d)', pending, ui)
  <2>1. ReadUpTo(ReadOf(d), pending, ui)
    BY <1>3, <1>8
  <2>2. MapsUpTo(ui, ReadOf(d)')
    BY <1>1, <1>8, <2>1 DEF ReadUpTo, MapsUpTo, Within, Limits
  <2>3. \A i \in 1..Len(pending) : UpTo(pending[i], ReadOf(d)')
    BY <1>1, <1>8, <2>1, UpToMore DEF ReadUpTo
  <2> QED BY <2>2, <2>3 DEF ReadUpTo
<1>9. CASE Reads(d)
  BY <1>3, <1>4, <1>8, <1>9 DEF Reads
<1>10. CASE Queues(d)
  <2>1. /\ Working(d) /\ sent'[d] = s /\ ReadUpTo(ReadOf(d), pending, ui)
        /\ ReadUpTo(ReadOf(d)', pending, ui)
    BY <1>3, <1>8, <1>10 DEF Queues
  <2>2. CASE outbox'[d] = Append(t, Heartbeat)
    <3>1. Over(Heartbeat, pending, ui) /\ Heartbeat \in Messages
      BY MessageTypes DEF Over, Raises, MayFollow, Heartbeat
    <3> HIDE DEF s, t
    <3>2. ArrivesWith(d, s, Append(t, Heartbeat))
      BY <1>1, <1>3, <3>1, ArrivesWriting
    <3> QED BY <2>1, <2>2, <3>2
  <2>3. ASSUME NEW n \in 1..published, outbox'[d] = Append(t, Update(n)),
               \A f \in Flights : Feed[n].flight = f => ReadOf(d)[f] < n
        PROVE  ArrivesWith(d, sent'[d], outbox'[d])
    <3> DEFINE m == Update(n)
    <3>1. m \in Messages /\ m.n = n /\ m.what = "update" /\ n \in Nat
      <4>1. n \in 0..Len(Feed) /\ n \in Nat
        BY TypeFacts DEF HookTypes
      <4> QED BY <4>1, MessageTypes DEF Update
    <3>2. \A f \in Flights : Feed[n].flight = f => ReadOf(d)[f] < n /\ ReadOf(d)[f] \in Nat
      BY <1>1, <2>3 DEF Limits
    <3> HIDE DEF s, t, m
    <3>3. Raises(m, ui)
      <4>1. \A f \in Flights : ui.predictions[f] <= ReadOf(d)[f] /\ ui.gates[f] <= ReadOf(d)[f]
        BY <2>1 DEF ReadUpTo, MapsUpTo
      <4> QED BY <1>1, <3>1, <3>2, <4>1 DEF Raises
    <3>4. ASSUME NEW i \in 1..Len(pending) PROVE MayFollow(m, pending[i])
      <4> DEFINE l == pending[i]
      <4>1. UpTo(l, ReadOf(d)) /\ l.n \in Nat
        BY <1>1, <2>1 DEF ReadUpTo
      <4>2. Feed[n].flight \in Flights
        BY TypeFacts, PartTypes DEF HookTypes
      <4> HIDE DEF l
      <4>3. ASSUME l.what \in {"past", "update"}, Alike(m, l) PROVE l.n <= m.n
        <5>1. Feed[l.n].flight = Feed[n].flight
          BY <3>1, <4>3 DEF Alike
        <5>2. l.n <= ReadOf(d)[Feed[n].flight]
          BY <4>1, <4>2, <4>3, <5>1 DEF UpTo
        <5>3. ReadOf(d)[Feed[n].flight] < n /\ ReadOf(d)[Feed[n].flight] \in Nat
          BY <3>2, <4>2
        <5> QED BY <3>1, <4>1, <5>2, <5>3
      <4>4. MayFollow(m, l)
        BY <3>1, <4>3 DEF MayFollow
      <4> QED BY <4>4 DEF l
    <3>5. Over(m, pending, ui)
      BY <3>3, <3>4 DEF Over
    <3>6. ArrivesWith(d, s, Append(t, m))
      BY <1>1, <1>3, <3>1, <3>5, ArrivesWriting
    <3>7. outbox'[d] = Append(t, m)
      BY <2>3 DEF m
    <3> QED BY <2>1, <3>6, <3>7
  <2>4. ArrivesWith(d, sent'[d], outbox'[d])
    BY <1>10, <2>2, <2>3 DEF Queues
  <2> QED BY <2>1, <2>4
<1>11. CASE Hands(d)
  <2>1. /\ t # <<>> /\ outbox'[d] = Tail(t) /\ sent'[d] \in {s, Append(s, Head(t))}
        /\ Working(d) /\ ReadOf(d)' = ReadOf(d)
    BY <1>11 DEF Hands
  <2> HIDE DEF s, t
  <2>2. ArrivesWith(d, sent'[d], outbox'[d])
    BY <1>1, <1>3, <2>1, ArrivesHanding
  <2> QED BY <1>3, <2>1, <2>2
<1> QED BY <1>5, <1>6, <1>7, <1>9, <1>10, <1>11 DEF Moves

\* What applying a batch leaves of the order.
LEMMA FlushOver ==
    ASSUME HookTypes, HookRises, Flush
    PROVE  /\ HookRises'
           /\ \A l \in Messages : Over(l, pending, ui) => Over(l, pending', ui')
           /\ \A p \in Limits : ReadUpTo(p, pending, ui) => ReadUpTo(p, pending', ui')
           /\ (\A i \in 1..(Len(pending) - Len(pending')) : pending[i].what # "past")
                 => Forward(ui, ui')
<1>1. PICK k \in 1..Len(pending) :
         /\ SubSeq(pending, 1, k) \in Seq(Messages) /\ Len(SubSeq(pending, 1, k)) = k
         /\ \A i \in 1..k : SubSeq(pending, 1, k)[i] = pending[i]
         /\ ui' = ApplyBatch(ui, SubSeq(pending, 1, k))
         /\ pending' \in Seq(Messages) /\ Len(pending') = Len(pending) - k
         /\ \A i \in 1..Len(pending') : pending'[i] = pending[k + i]
  <2>1. HookOwn
    BY HookParts
  <2> QED BY <2>1, FlushTypes
<1> DEFINE batch == SubSeq(pending, 1, k)
<1>2. batch \in Seq(Messages) /\ Len(batch) = k /\ \A i \in 1..k : batch[i] = pending[i]
  BY <1>1
<1>3. ui' = ApplyBatch(ui, batch)
  BY <1>1
<1> HIDE DEF batch
<1>4. /\ Len(pending) \in Nat /\ ui \in Maps /\ published \in Nat /\ applied \in Nat
      /\ \A i \in 1..Len(pending) : pending[i] \in Messages
      /\ \A i \in 1..k : i \in 1..Len(pending)
      /\ \A i \in 1..Len(pending') : k + i \in 1..Len(pending) /\ \A j \in 1..k : j < k + i
      /\ Len(pending) - Len(pending') = k
  BY <1>1, RiseFacts
<1>5. Rising(batch) /\ Labelled(ui) /\ \A i \in 1..Len(batch) : Raises(batch[i], ui)
  <2>1. Labelled(ui) /\ \A i \in 1..Len(pending) : Raises(pending[i], ui)
    BY DEF HookRises
  <2>2. \A i \in 1..k : Raises(batch[i], ui)
    <3> TAKE i \in 1..k
    <3>1. i \in 1..Len(pending) /\ batch[i] = pending[i]
      BY <1>2, <1>4
    <3> QED BY <2>1, <3>1
  <2>3. \A i, j \in 1..k : i < j => MayFollow(batch[j], batch[i])
    <3>1. \A i, j \in 1..Len(pending) : i < j => MayFollow(pending[j], pending[i])
      BY DEF HookRises, Rising
    <3> TAKE i, j \in 1..k
    <3> HAVE i < j
    <3>2. /\ i \in 1..Len(pending) /\ batch[i] = pending[i]
          /\ j \in 1..Len(pending) /\ batch[j] = pending[j]
      BY <1>2, <1>4
    <3>3. MayFollow(pending[j], pending[i])
      BY <3>1, <3>2
    <3> QED BY <3>2, <3>3
  <2>4. Len(batch) = k
    BY <1>2
  <2>5. Rising(batch)
    BY <2>3, <2>4 DEF Rising
  <2> QED BY <2>1, <2>2, <2>4, <2>5
<1>6. Stage(ui, batch, k, ui')
  BY <1>2, <1>3, <1>4, <1>5, BatchRaises
<1>7. ASSUME NEW l \in Messages, Over(l, pending, ui) PROVE Over(l, pending', ui')
  <2>1. Raises(l, ui) /\ \A j \in 1..k : MayFollow(l, batch[j])
    BY <1>2, <1>4, <1>7 DEF Over
  <2>2. Raises(l, ui')
    BY <1>6, <2>1 DEF Stage
  <2>3. \A i \in 1..Len(pending') : MayFollow(l, pending'[i])
    BY <1>1, <1>4, <1>7 DEF Over
  <2> QED BY <2>2, <2>3 DEF Over
<1>8. ASSUME NEW p \in Limits, ReadUpTo(p, pending, ui) PROVE ReadUpTo(p, pending', ui')
  <2>1. MapsUpTo(ui, p) /\ \A j \in 1..k : UpTo(batch[j], p)
    BY <1>2, <1>4, <1>8 DEF ReadUpTo
  <2>2. MapsUpTo(ui', p)
    BY <1>6, <2>1 DEF Stage
  <2>3. \A i \in 1..Len(pending') : UpTo(pending'[i], p)
    BY <1>1, <1>4, <1>8 DEF ReadUpTo
  <2> QED BY <2>2, <2>3 DEF ReadUpTo
<1>9. (\A i \in 1..(Len(pending) - Len(pending')) : pending[i].what # "past") => Forward(ui, ui')
  <2>1. SUFFICES ASSUME \A i \in 1..k : pending[i].what # "past" PROVE Forward(ui, ui')
    BY <1>4
  <2>2. \A i \in 1..k : batch[i].what # "past"
    BY <1>2, <2>1
  <2> QED BY <1>6, <2>2 DEF Stage
<1>10. HookRises'
  <2>1. UNCHANGED <<published, applied>>
    BY DEF Flush, vars, topicVars
  <2>2. Labelled(ui')
    BY <1>6 DEF Stage
  <2>3. ReadUpTo(All(published), pending, ui) /\ All(published) \in Limits
    BY RiseFacts DEF HookRises, Seen, ReadUpTo
  <2>4. MapsUpTo(ui', All(published))
    BY <1>8, <2>3 DEF ReadUpTo
  <2>5. FlightsUpTo(ui', applied)
    <3>1. FlightsUpTo(ui, applied) /\ \A j \in 1..k : batch[j].n <= applied
      BY <1>2, <1>4 DEF HookRises, Seen
    <3> QED BY <1>4, <1>6, <3>1 DEF Stage
  <2>6. Rising(pending')
    <3> SUFFICES ASSUME NEW i \in 1..Len(pending'), NEW j \in 1..Len(pending'), i < j
                 PROVE  MayFollow(pending'[j], pending'[i])
      BY DEF Rising
    <3>1. k + i < k + j
      BY <1>1
    <3>2. MayFollow(pending[k + j], pending[k + i])
      BY <1>4, <3>1 DEF HookRises, Rising
    <3> QED BY <1>1, <3>2
  <2>7. ASSUME NEW i \in 1..Len(pending')
        PROVE  /\ pending'[i].n <= applied /\ UpTo(pending'[i], All(published))
               /\ Raises(pending'[i], ui')
    <3> DEFINE l == pending[k + i]
    <3>1. pending'[i] = l /\ k + i \in 1..Len(pending) /\ l \in Messages
      BY <1>1, <1>4
    <3>2. l.n <= applied /\ UpTo(l, All(published)) /\ Raises(l, ui)
      BY <3>1 DEF HookRises, Seen
    <3>3. \A j \in 1..k : MayFollow(l, pending[j])
      BY <1>4 DEF HookRises, Rising
    <3> HIDE DEF l
    <3>4. \A j \in 1..k : MayFollow(l, batch[j])
      BY <1>2, <3>3
    <3>5. Raises(l, ui')
      BY <1>6, <3>1, <3>2, <3>4 DEF Stage
    <3> QED BY <3>1, <3>2, <3>5
  <2> QED BY <2>1, <2>2, <2>4, <2>5, <2>6, <2>7 DEF HookRises, Seen
<1> QED BY <1>7, <1>8, <1>9, <1>10

LEMMA FlushRises ==
    ASSUME HookTypes, HookRises, Flush, NEW d \in Conns, Arrives(d)
    PROVE  Arrives(d)'
<1>1. /\ UNCHANGED <<sent, outbox, phase, pos, socket, ready, received, cut>>
  BY DEF Flush, vars, streamVars
<1>2. /\ \A l \in Messages : Over(l, pending, ui) => Over(l, pending', ui')
      /\ \A p \in Limits : ReadUpTo(p, pending, ui) => ReadUpTo(p, pending', ui')
  BY FlushOver
<1>3. /\ \A i \in 1..Len(sent[d]) : sent[d][i] \in Messages
      /\ \A i \in 1..Len(outbox[d]) : outbox[d][i] \in Messages
      /\ ReadOf(d) \in Limits /\ ReadOf(d)' = ReadOf(d)
  BY <1>1, RiseFacts DEF ReadOf
<1>4. CASE ~Tracked(d)
  BY <1>1, <1>4 DEF Arrives, Tracked
<1>5. CASE Tracked(d)
  <2>1. /\ \A i \in 1..Len(sent[d]) : received < i => Over(sent[d][i], pending, ui)
        /\ \A i \in 1..Len(outbox[d]) : Over(outbox[d][i], pending, ui)
        /\ Working(d) => ReadUpTo(ReadOf(d), pending, ui)
    BY <1>5 DEF Arrives
  <2>2. /\ \A i \in 1..Len(sent[d]) : received < i => Over(sent[d][i], pending', ui')
        /\ \A i \in 1..Len(outbox[d]) : Over(outbox[d][i], pending', ui')
        /\ Working(d) => ReadUpTo(ReadOf(d), pending', ui')
    BY <1>2, <1>3, <2>1
  <2> QED BY <1>1, <1>3, <2>2 DEF Arrives, Working
<1> QED BY <1>4, <1>5

LEMMA MessageRises ==
    ASSUME HookTypes, HookRises, OnMessage, NEW d \in Conns, Rises(socket), Arrives(socket),
           Arrives(d)
    PROVE  HookRises' /\ Arrives(d)'
<1> DEFINE m == sent[socket][received + 1]
<1>1. /\ UNCHANGED <<sent, outbox, phase, pos, socket, ready, ui, cut, published, applied>>
      /\ Tracked(socket) /\ received < Len(sent[socket]) /\ received' = received + 1
      /\ pending' = Append(pending, m)
  BY DEF OnMessage, vars, streamVars, topicVars, Tracked, Reachable
<1>2. socket \in Conns /\ received \in Nat
  <2>1. HookOwn /\ ready = "open"
    BY HookParts DEF OnMessage
  <2> QED BY <2>1 DEF HookOwn
<1>3. received + 1 \in 1..Len(sent[socket]) /\ received < received + 1 /\ Len(sent[socket]) \in Nat
  BY <1>1, <1>2, RiseFacts
<1>4. m \in Messages /\ Over(m, pending, ui) /\ Given(socket, m)
  <2>1. m \in Messages
    BY <1>2, <1>3, RiseFacts
  <2>2. Over(m, pending, ui)
    BY <1>1, <1>3 DEF Arrives
  <2>3. Given(socket, m)
    BY <1>3 DEF Rises
  <2> QED BY <2>1, <2>2, <2>3
<1>5. /\ pending \in Seq(Messages) /\ Len(pending) \in Nat
      /\ \A i \in 1..Len(pending') :
            \/ pending'[i] = m
            \/ i \in 1..Len(pending) /\ pending'[i] = pending[i]
  <2> HIDE DEF m
  <2>1. pending \in Seq(Messages)
    BY RiseFacts
  <2>2. \A i \in 1..Len(Append(pending, m)) :
           \/ i = Len(pending) + 1 /\ Append(pending, m)[i] = m
           \/ i \in 1..Len(pending) /\ Append(pending, m)[i] = pending[i]
    BY <1>4, <2>1, Appended
  <2> QED BY <1>1, <2>1, <2>2
<1>6. \A j \in 1..Len(sent[socket]) : received + 1 < j => MayFollow(sent[socket][j], m)
  BY <1>3 DEF Rises, Rising
<1>7. \A j \in 1..Len(outbox[socket]) : MayFollow(outbox[socket][j], m)
  BY <1>3 DEF Rises
<1> HIDE DEF m
<1>8. HookRises'
  <2>1. Rising(pending')
    <3>1. Rising(pending) /\ \A i \in 1..Len(pending) : MayFollow(m, pending[i])
      BY <1>4 DEF HookRises, Over
    <3>2. Rising(Append(pending, m))
      BY <1>4, <1>5, <3>1, RisingAppend
    <3> QED BY <1>1, <3>2
  <2>2. \A i \in 1..Len(pending') : Seen(pending'[i]) /\ Raises(pending'[i], ui)
    BY <1>4, <1>5 DEF HookRises, Over, Given
  <2>3. \A i \in 1..Len(pending') : /\ pending'[i].n <= applied' /\ UpTo(pending'[i], All(published'))
                                    /\ Raises(pending'[i], ui')
    BY <1>1, <2>2 DEF Seen
  <2>4. Labelled(ui') /\ MapsUpTo(ui', All(published')) /\ FlightsUpTo(ui', applied')
    BY <1>1 DEF HookRises
  <2> QED BY <2>1, <2>3, <2>4 DEF HookRises, Seen
<1>9. Arrives(d)'
  <2>1. CASE d # socket
    BY <1>1, <2>1 DEF Arrives, Tracked
  <2>2. CASE d = socket
    <3>1. /\ \A i \in 1..Len(sent[d]) : received < i => Over(sent[d][i], pending, ui)
          /\ \A i \in 1..Len(outbox[d]) : Over(outbox[d][i], pending, ui)
          /\ Working(d) => ReadUpTo(ReadOf(d), pending, ui)
      BY <1>1, <2>2 DEF Arrives
    <3>2. ASSUME NEW l, Over(l, pending, ui), MayFollow(l, m) PROVE Over(l, pending', ui')
      BY <1>1, <1>5, <3>2 DEF Over
    <3>3. ASSUME NEW i \in 1..Len(sent[d]), received' < i PROVE Over(sent[d][i], pending', ui')
      <4>1. received < i /\ received + 1 < i
        BY <1>1, <1>2, <3>3
      <4>2. Over(sent[d][i], pending, ui) /\ MayFollow(sent[d][i], m)
        BY <1>6, <2>2, <3>1, <4>1
      <4> QED BY <3>2, <4>2
    <3>4. ASSUME NEW i \in 1..Len(outbox[d]) PROVE Over(outbox[d][i], pending', ui')
      <4>1. Over(outbox[d][i], pending, ui) /\ MayFollow(outbox[d][i], m)
        BY <1>7, <2>2, <3>1
      <4> QED BY <3>2, <4>1
    <3>5. Working(d) => ReadUpTo(ReadOf(d), pending', ui')
      <4>1. Working(d) => UpTo(m, ReadOf(d))
        BY <1>4, <2>2 DEF Given
      <4> QED BY <1>1, <1>5, <3>1, <4>1 DEF ReadUpTo
    <3>6. ReadOf(d)' = ReadOf(d)
      BY <1>1 DEF ReadOf
    <3> QED BY <1>1, <3>3, <3>4, <3>5, <3>6 DEF Arrives, Working
  <2> QED BY <2>1, <2>2
<1> QED BY <1>8, <1>9

\* The steps that neither receive nor apply.
LEMMA RestRises ==
    ASSUME HookTypes, HookRises, TrackInv, StreamInv, NEW d \in Conns, Arrives(d),
           UNCHANGED <<sent, outbox, phase, pos, ui, published, applied>>,
           \/ Connect \/ (Unmount /\ pending' = <<>>) \/ OnClose
           \/ UNCHANGED <<pending, received>> /\ (Tracked(d)' => Tracked(d))
    PROVE  HookRises' /\ Arrives(d)'
<1>1. CASE Connect
  <2>1. UNCHANGED pending /\ received' = 0 /\ phase[socket'] = "idle"
    BY <1>1 DEF Connect
  <2>2. HookRises'
    BY <2>1 DEF HookRises, Seen
  <2>3. CASE d = socket'
    <3>1. sent[d] = <<>> /\ outbox[d] = <<>> /\ ~Working(d)
      BY <2>1, <2>3 DEF TrackInv, Tracks, StreamInv, Streaming, Early, Working
    <3>2. 1..Len(<<>>) = {}
      OBVIOUS
    <3>3. 1..Len(sent'[d]) = {} /\ 1..Len(outbox'[d]) = {} /\ ~Working(d)'
      BY <3>1, <3>2 DEF Working
    <3> QED BY <2>2, <3>3 DEF Arrives
  <2>4. CASE d # socket'
    BY <2>2, <2>4 DEF Arrives, Tracked
  <2> QED BY <2>3, <2>4
<1>2. CASE Unmount /\ pending' = <<>>
  <2>1. 1..Len(pending') = {}
    BY <1>2
  <2>2. HookRises'
    BY <2>1 DEF HookRises, Rising
  <2>3. ~Tracked(d)'
    BY <1>2 DEF Unmount, Tracked
  <2> QED BY <2>2, <2>3 DEF Arrives
<1>3. CASE OnClose
  <2>1. UNCHANGED pending /\ ~Tracked(d)'
    BY <1>3 DEF OnClose, Tracked
  <2> QED BY <2>1 DEF HookRises, Seen, Arrives
<1>4. CASE UNCHANGED <<pending, received>> /\ (Tracked(d)' => Tracked(d))
  <2>1. ReadOf(d)' = ReadOf(d)
    BY DEF ReadOf
  <2> QED BY <1>4, <2>1 DEF HookRises, Seen, Arrives, Working
<1> QED BY <1>1, <1>2, <1>3, <1>4

LEMMA StepRise ==
    /\ HookTypes /\ HookTypes' /\ StreamInv /\ TrackInv /\ RiseInv /\ [HookNext]_allVars
    => RiseInv'
<1> SUFFICES ASSUME HookTypes, HookTypes', StreamInv, TrackInv, RiseInv, [HookNext]_allVars
             PROVE  RiseInv'
  OBVIOUS
<1>1. HookRises /\ HubTypes /\ HubTypes' /\ \A d \in Conns : Rises(d) /\ Arrives(d)
  BY DEF RiseInv, HookTypes
<1>2. \A d \in Conns : Moves(d) /\ TopicGrows
  <2>1. [Next]_vars
    BY HookStepIsHubStep
  <2>2. \A d \in Conns : Streaming(d) /\ (phase[d] = "idle" => sent[d] = <<>>)
    BY DEF StreamInv, TrackInv, Tracks
  <2> QED BY <1>1, <2>1, <2>2, LineMoves
<1>3. \A d \in Conns : Rises(d)'
  BY <1>1, <1>2, MovesRise
<1>4. \E c \in Conns : TRUE
  <2>1. CASE Conns = {}
    BY <2>1, HookAssumption, FS_EmptySet, CapIsPositive
  <2> QED BY <2>1
<1>5. ASSUME HubAlone, NEW d \in Conns PROVE HookRises' /\ Arrives(d)'
  <2>1. UNCHANGED <<socket, ready, received, pending, ui, cut>>
    BY <1>5 DEF HubAlone, hookVars
  <2> QED BY <1>1, <1>2, <2>1, TopicRises, MovesArrive
<1>6. ASSUME HookSends, NEW d \in Conns PROVE HookRises' /\ Arrives(d)'
  <2>1. UNCHANGED <<sent, outbox, phase, pos, published, applied>>
    BY <1>6, SendsAreSays DEF vars, topicVars, streamVars, Say
  <2>2. UNCHANGED <<socket, received, pending, ui, cut>>
        /\ (ready' = ready \/ ready = "connecting")
    BY <1>6 DEF HookSends, OnOpen, Want
  <2>3. Tracked(d)' => Tracked(d)
    BY <2>2 DEF Tracked
  <2> QED BY <1>1, <2>1, <2>2, <2>3, RestRises
<1>7. ASSUME HookAlone, NEW d \in Conns PROVE HookRises' /\ Arrives(d)'
  <2>1. UNCHANGED <<sent, outbox, phase, pos, published, applied>>
    BY <1>7, AloneIsSilent DEF vars, topicVars, streamVars
  <2>2. CASE Flush
    BY <1>1, <2>2, FlushOver, FlushRises
  <2>3. CASE OnMessage
    <3>1. socket \in Conns
      <4>1. HookOwn /\ ready = "open"
        BY <2>3, HookParts DEF OnMessage
      <4> QED BY <4>1 DEF HookOwn
    <3> QED BY <1>1, <2>3, <3>1, MessageRises
  <2>4. CASE Connect \/ Unmount \/ OnClose
    <3>1. UNCHANGED ui /\ (Unmount => pending' = <<>>)
      BY <2>4 DEF Connect, Unmount, OnClose
    <3> QED BY <1>1, <2>1, <2>4, <3>1, RestRises
  <2>5. CASE Watchdog \/ UNCHANGED allVars \/ \E c \in Conns : Cut(c)
    <3>1. /\ UNCHANGED <<socket, received, pending, ui>> /\ cut \subseteq cut'
          /\ ready' = ready \/ ready' = "closing"
      BY <2>5 DEF Watchdog, Cut, allVars, hookVars
    <3>2. Tracked(d)' => Tracked(d)
      BY <3>1 DEF Tracked
    <3> QED BY <1>1, <2>1, <3>1, <3>2, RestRises
  <2> QED BY <1>7, <2>2, <2>3, <2>4, <2>5 DEF HookAlone
<1>8. \A d \in Conns : HookRises' /\ Arrives(d)'
  BY <1>5, <1>6, <1>7, HookCases
<1> QED BY <1>3, <1>4, <1>8 DEF RiseInv

LEMMA InitRise == HookInit => RiseInv
<1> SUFFICES ASSUME HookInit PROVE RiseInv
  OBVIOUS
<1>1. 1..Len(<<>>) = {}
  OBVIOUS
<1>2. pending = <<>> /\ ui = EmptyMaps /\ published = 0 /\ applied = 0 /\ socket = None
      /\ \A c \in Conns : sent[c] = <<>> /\ outbox[c] = <<>>
  BY DEF HookInit, Init
<1>3. HookRises
  <2>1. \A f \in Flights : ui.flights[f] = 0 /\ ui.predictions[f] = 0 /\ ui.gates[f] = 0
    BY <1>2 DEF EmptyMaps
  <2>2. 1..Len(pending) = {} /\ 0 <= 0
    BY <1>1, <1>2
  <2> QED BY <1>2, <2>1, <2>2 DEF HookRises, Labelled, MapsUpTo, FlightsUpTo, Rising, All
<1>4. ASSUME NEW c \in Conns PROVE Rises(c) /\ Arrives(c)
  <2>1. 1..Len(sent[c]) = {} /\ 1..Len(outbox[c]) = {}
    BY <1>1, <1>2
  <2>2. ~Tracked(c)
    BY <1>2, HookAssumption DEF Tracked
  <2> QED BY <2>1, <2>2 DEF Rises, Rising, Arrives
<1> QED BY <1>3, <1>4 DEF RiseInv

ReplayGoesBack ==
    (\A i \in 1..(Len(pending) - Len(pending')) : mounted' => pending[i].what # "past") =>
       \A f \in Flights :
          /\ ui'.predictions[f] >= ui.predictions[f]
          /\ ui'.gates[f] >= ui.gates[f]
          /\ ui'.flights[f] < ui.flights[f] => ui.flights[f] > ui.predictions[f]

LEMMA StepForward == HookTypes /\ HookTypes' /\ RiseInv /\ [HookNext]_allVars => ReplayGoesBack
<1> SUFFICES ASSUME HookTypes, HookTypes', RiseInv, [HookNext]_allVars,
                    \A i \in 1..(Len(pending) - Len(pending')) : mounted' => pending[i].what # "past",
                    NEW f \in Flights
             PROVE  /\ ui'.predictions[f] >= ui.predictions[f]
                    /\ ui'.gates[f] >= ui.gates[f]
                    /\ ui'.flights[f] < ui.flights[f] => ui.flights[f] > ui.predictions[f]
  BY DEF ReplayGoesBack
<1>1. ui \in Maps /\ ui' \in Maps
  BY DEF HookTypes, HookTypeOK
<1>2. /\ ui.flights[f] \in Nat /\ ui.predictions[f] \in Nat /\ ui.gates[f] \in Nat
      /\ ui'.flights[f] \in Nat /\ ui'.predictions[f] \in Nat /\ ui'.gates[f] \in Nat
  BY <1>1, MapsFacts
<1>3. CASE Flush
  <2>1. mounted'
    BY <1>3 DEF Flush
  <2>2. Forward(ui, ui')
    BY <1>3, <2>1, FlushOver DEF RiseInv
  <2>3. /\ ui.predictions[f] <= ui'.predictions[f]
        /\ ui.gates[f] <= ui'.gates[f]
        /\ ui.flights[f] <= ui.predictions[f] => ui.flights[f] <= ui'.flights[f]
    BY <2>2 DEF Forward
  <2> QED BY <1>2, <2>3
<1>4. CASE ~Flush
  <2>1. ui' = ui
    BY <1>4, HookCases DEF HookAlone, HookSends, HubAlone, Connect, OnMessage, Watchdog, OnClose,
                           Unmount, Cut, OnOpen, Want, hookVars, allVars
  <2> QED BY <1>2, <2>1
<1> QED BY <1>3, <1>4

\* What is on the map goes back to something older by the replay of the
\* history, or where a flight had come from a snapshot ahead of the topic:
\* never by a reconnect as such, or by what an earlier connection had left
\* in the batch.
THEOREM MapsGoForward == HookSpec => OnlyReplayGoesBack
<1>1. HookTypes => HubTypes
  BY DEF HookTypes
<1>2. HookInit => Init
  BY DEF HookInit
<1>3. HookTypes /\ HookTypes' /\ RiseInv /\ [HookNext]_allVars => [ReplayGoesBack]_allVars
  BY StepForward
<1> QED BY <1>1, <1>2, <1>3, InitHookTypes, StepHookTypes, HookStepIsHubStep, InitStream, StepStream,
           InitLine, StepLine, InitTrack, StepTrack, InitRise, StepRise,
           PTL DEF HookSpec, OnlyReplayGoesBack, ReplayGoesBack
=============================================================================
