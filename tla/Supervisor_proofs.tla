-------------------------- MODULE Supervisor_proofs --------------------------
(***************************************************************************)
(* Proofs about Supervisor, for any number of supervisors, workers and     *)
(* faults.                                                                 *)
(***************************************************************************)
EXTENDS Supervisor, TLAPS

LOCAL INSTANCE SequencesExt

\* A server that is up has begun to stop no supervisor; any other has, unless
\* the shutdown ended before that.
PhaseOK ==
    /\ server.at = "up" => server.sup = 0
    /\ server.sup = 0 => server.at \in {"up", "aborted"}

TypeInv == TypeOK /\ PhaseOK

\* The steps of w's supervised loop and of run(), and those of shutdown().
WorkerStep(w) ==
    Loop(w) \/ Take(w) \/ Finish(w) \/ FinishFailed(w) \/ Crash(w) \/ CloseCrashedFails(w)

ServerStep == Shutdown \/ Stop \/ ShutdownFails \/ StopWorkerFails \/ StopTimesOut

LEMMA NextSplit ==
    [Next]_vars => ServerStep \/ UNCHANGED vars \/ \E w \in Workers : WorkerStep(w)
  BY DEF Next, WorkerStep, ServerStep, Gone

\* What Pools holds: non-empty sequences of workers, each worker in one.
LEMMA PoolFacts ==
    /\ Len(Pools) \in Nat \ {0} /\ DOMAIN Pools = 1..Len(Pools)
    /\ \A i \in 1..Len(Pools) :
          /\ Pools[i] \in Seq(Workers)
          /\ Len(Pools[i]) \in Nat \ {0} /\ DOMAIN Pools[i] = 1..Len(Pools[i])
          /\ \A j \in 1..Len(Pools[i]) : Pools[i][j] \in Workers
          /\ ToSet(Pools[i]) = {Pools[i][j] : j \in 1..Len(Pools[i])}
<1>1. Pools \in Seq(Seq(Workers)) /\ Pools # <<>>
  BY PoolsAssumption
<1>2. Len(Pools) \in Nat \ {0} /\ DOMAIN Pools = 1..Len(Pools)
  BY <1>1
<1>3. ASSUME NEW i \in 1..Len(Pools)
      PROVE  /\ Pools[i] \in Seq(Workers)
             /\ Len(Pools[i]) \in Nat \ {0} /\ DOMAIN Pools[i] = 1..Len(Pools[i])
             /\ \A j \in 1..Len(Pools[i]) : Pools[i][j] \in Workers
             /\ ToSet(Pools[i]) = {Pools[i][j] : j \in 1..Len(Pools[i])}
  <2>0. ASSUME NEW T, Pools \in Seq(T) PROVE Pools[i] \in T
    BY <2>0
  <2>1. Pools[i] \in Seq(Workers) /\ Pools[i] # <<>>
    BY <1>1, <1>2, <2>0, PoolsAssumption
  <2>2. Len(Pools[i]) \in Nat \ {0} /\ DOMAIN Pools[i] = 1..Len(Pools[i])
    BY <2>1
  <2>3. \A j \in 1..Len(Pools[i]) : Pools[i][j] \in Workers
    BY <2>1
  <2>4. ToSet(Pools[i]) = {Pools[i][j] : j \in 1..Len(Pools[i])}
    BY <2>2 DEF ToSet
  <2> QED BY <2>1, <2>2, <2>3, <2>4
<1> QED BY <1>2, <1>3

\* TypeInv in two parts: the worker's variables, and the server's.
WorkerTypes ==
    /\ loop \in [Workers -> Loops]
    /\ cancelled \subseteq Workers
    /\ hand \in [Workers -> BOOLEAN]
    /\ open \in [Workers -> SUBSET Clients]
    /\ leaked \subseteq Workers \X Clients /\ cut \subseteq Workers
    /\ restarts \in [Workers -> Nat] /\ failures \in [Workers -> Nat]
    /\ faults \in 0..MaxFaults

ServerTypes ==
    /\ server \in [at : Phases, sup : 0..Len(Pools), next : Nat]
    /\ server.next \in IF server.sup = 0 THEN {0} ELSE 1..Len(Pools[server.sup])
    /\ PhaseOK

LEMMA TypeParts == TypeInv <=> WorkerTypes /\ ServerTypes
  BY DEF TypeInv, TypeOK, WorkerTypes, ServerTypes

LEMMA FaultBound == MaxFaults \in Nat
  BY PoolsAssumption

LEMMA TypeInit == Init => TypeInv
<1> SUFFICES ASSUME Init PROVE TypeInv
  OBVIOUS
<1>1. WorkerTypes
  <2>1. faults \in 0..MaxFaults
    BY FaultBound DEF Init
  <2>2. restarts \in [Workers -> Nat] /\ failures \in [Workers -> Nat]
    BY DEF Init
  <2> QED BY <2>1, <2>2, Zenon DEF Init, WorkerTypes, Loops
<1>2. ServerTypes
  BY PoolFacts DEF Init, ServerTypes, PhaseOK, Phases
<1> QED BY <1>1, <1>2, TypeParts

LEMMA FaultType ==
    ASSUME WorkerTypes, Fault PROVE faults' \in 0..MaxFaults /\ faults' = faults + 1
  BY PoolsAssumption DEF WorkerTypes, Fault

\* start() and stop() keep the clients' bookkeeping well typed.
LEMMA ReplaceType ==
    ASSUME WorkerTypes, NEW w \in Workers, NEW cs \in SUBSET Clients,
           NEW opened \in SUBSET Clients, Replace(w, cs, opened)
    PROVE  open' \in [Workers -> SUBSET Clients] /\ leaked' \subseteq Workers \X Clients
<1>1. (open[w] \ cs) \cup opened \in SUBSET Clients
  BY DEF WorkerTypes
<1>2. open' \in [Workers -> SUBSET Clients]
  BY <1>1 DEF Replace, WorkerTypes
<1>3. leaked' \subseteq Workers \X Clients
  BY DEF Replace, WorkerTypes
<1> QED BY <1>2, <1>3

LEMMA StartCutType ==
    ASSUME WorkerTypes, NEW w \in Workers, StartCut(w)
    PROVE  open' \in [Workers -> SUBSET Clients] /\ leaked' \subseteq Workers \X Clients
<1>1. {"consumer"} \in SUBSET Clients /\ {} \in SUBSET Clients /\ Clients \in SUBSET Clients
  BY DEF Clients
<1>2. \E cs, opened \in SUBSET Clients : Replace(w, cs, opened)
  BY <1>1, Zenon DEF StartCut
<1> QED BY <1>2, ReplaceType

LEMMA StopCutType ==
    ASSUME WorkerTypes, NEW w \in Workers, StopCut(w)
    PROVE  /\ open' \in [Workers -> SUBSET Clients]
           /\ leaked' \subseteq leaked \cup ({w} \X Clients)
           /\ leaked' \subseteq Workers \X Clients
           /\ \A v \in Workers : open'[v] \subseteq open[v]
           /\ \A v \in Workers \ {w} : open'[v] = open[v]
<1>1. PICK c \in open[w] :
         /\ open' = [open EXCEPT ![w] = IF c = "consumer" THEN @ \ {c} ELSE {}]
         /\ leaked' \in {leaked, leaked \cup {<<w, c>>}}
  BY DEF StopCut
<1>2. c \in Clients
  BY DEF WorkerTypes
<1>3. leaked' \subseteq leaked \cup ({w} \X Clients)
  BY <1>1, <1>2
<1>4. /\ open' \in [Workers -> SUBSET Clients]
      /\ \A v \in Workers : open'[v] \subseteq open[v]
      /\ \A v \in Workers \ {w} : open'[v] = open[v]
  BY <1>1 DEF WorkerTypes
<1> QED BY <1>3, <1>4 DEF WorkerTypes

LEMMA WorkerTypeStep ==
    ASSUME TypeInv, NEW w \in Workers, WorkerStep(w) PROVE TypeInv'
<1>0. WorkerTypes /\ ServerTypes
  BY TypeParts
<1>1. server' = server /\ cancelled' = cancelled
  BY DEF WorkerStep, Loop, Take, Finish, FinishFailed, Crash, CloseCrashedFails,
         CloseCrashed, Wake, Start, StartFails, EndCancelled
<1>2. ServerTypes'
  BY <1>0, <1>1 DEF ServerTypes, PhaseOK
<1>3. (UNCHANGED faults \/ Fault) /\ cut' \in {cut, cut \cup {w}}
  BY DEF WorkerStep, Loop, Take, Finish, FinishFailed, Crash, CloseCrashedFails,
         CloseCrashed, Wake, Start, StartFails, EndCancelled, clientVars
<1>4. faults' \in 0..MaxFaults /\ cut' \subseteq Workers
  BY <1>0, <1>3, FaultType DEF WorkerTypes
<1>5. ASSUME loop' \in [Workers -> Loops], hand' \in [Workers -> BOOLEAN],
             open' \in [Workers -> SUBSET Clients],
             leaked' \subseteq Workers \X Clients,
             restarts' \in [Workers -> Nat], failures' \in [Workers -> Nat]
      PROVE  TypeInv'
  <2>1. WorkerTypes'
    BY <1>0, <1>1, <1>4, <1>5 DEF WorkerTypes
  <2> QED BY <1>2, <2>1 DEF WorkerTypes, ServerTypes, TypeInv, TypeOK
<1>6. /\ loop \in [Workers -> Loops] /\ hand \in [Workers -> BOOLEAN]
      /\ open \in [Workers -> SUBSET Clients]
      /\ leaked \subseteq Workers \X Clients
      /\ restarts \in [Workers -> Nat] /\ failures \in [Workers -> Nat]
  BY <1>0 DEF WorkerTypes
<1>12. \A l \in Loops : Goto(w, l) => loop' \in [Workers -> Loops]
  BY <1>6 DEF Goto
<1>13. CASE Take(w) \/ Finish(w) \/ FinishFailed(w)
  BY <1>5, <1>6, <1>13 DEF Take, Finish, FinishFailed, clientVars, countVars
<1>7. CASE Crash(w)
  <2>1. loop' \in [Workers -> Loops]
    BY <1>7, <1>12 DEF Crash, Loops
  <2>2. failures' \in [Workers -> Nat]
    BY <1>6, <1>7 DEF Crash
  <2>3. hand' \in [Workers -> BOOLEAN]
    BY <1>6, <1>7 DEF Crash
  <2> QED BY <1>5, <1>6, <1>7, <2>1, <2>2, <2>3 DEF Crash, clientVars
<1>8. CASE CloseCrashed(w) \/ CloseCrashedFails(w)
  <2>1. open' \in [Workers -> SUBSET Clients] /\ leaked' \subseteq Workers \X Clients
    BY <1>0, <1>6, <1>8, StopCutType DEF CloseCrashed, CloseCrashedFails
  <2>2. loop' \in [Workers -> Loops]
    BY <1>8, <1>12 DEF CloseCrashed, CloseCrashedFails, Loops
  <2> QED
    BY <1>5, <1>6, <1>8, <2>1, <2>2 DEF CloseCrashed, CloseCrashedFails, countVars
<1>9. CASE Wake(w)
  <2>1. restarts' \in [Workers -> Nat]
    BY <1>6, <1>9 DEF Wake
  <2>2. loop' \in [Workers -> Loops]
    BY <1>9, <1>12 DEF Wake, Loops, Ended
  <2> QED BY <1>5, <1>6, <1>9, <2>1, <2>2 DEF Wake, clientVars
<1>10. CASE Start(w) \/ StartFails(w)
  <2>1. open' \in [Workers -> SUBSET Clients] /\ leaked' \subseteq Workers \X Clients
    BY <1>0, <1>10, ReplaceType, StartCutType DEF Start, StartFails
  <2>2. loop' \in [Workers -> Loops]
    BY <1>10, <1>12 DEF Start, StartFails, Loops, Ended
  <2> QED BY <1>5, <1>6, <1>10, <2>1, <2>2 DEF Start, StartFails, countVars
<1>11. CASE EndCancelled(w)
  <2>1. open' \in [Workers -> SUBSET Clients] /\ leaked' \subseteq Workers \X Clients
    BY <1>0, <1>6, <1>11, StartCutType, StopCutType DEF EndCancelled, clientVars
  <2>2. loop' \in [Workers -> Loops]
    BY <1>11, <1>12 DEF EndCancelled, Loops, Ended
  <2>3. hand' \in [Workers -> BOOLEAN]
    BY <1>6, <1>11 DEF EndCancelled
  <2> QED BY <1>5, <1>6, <1>11, <2>1, <2>2, <2>3 DEF EndCancelled, countVars
<1> QED
  BY <1>7, <1>8, <1>9, <1>10, <1>11, <1>13 DEF WorkerStep, Loop

----------------------------------------------------------------------------
(* Where shutdown() may be.                                                *)

\* The next supervisor's stop() begins at its first worker, whose supervisor
\* has some; after the last one the shared clients are closed.
LEMMA NextSupervisorEffect ==
    ASSUME ServerTypes, NextSupervisor
    PROVE  \/ /\ server.sup = Len(Pools)
              /\ server' = [at |-> "closing", sup |-> server.sup, next |-> server.next]
              /\ cancelled' = cancelled
           \/ /\ server.sup + 1 \in 1..Len(Pools)
              /\ server' = [at |-> "await", sup |-> server.sup + 1, next |-> 1]
              /\ Cancel(ToSet(Pools[server.sup + 1]))
<1>1. /\ server \in [at : Phases, sup : 0..Len(Pools), next : Nat]
      /\ Len(Pools) \in Nat
  BY PoolFacts DEF ServerTypes
<1> QED BY <1>1 DEF NextSupervisor

LEMMA NextSupervisorType ==
    ASSUME TypeInv, NextSupervisor
    PROVE  ServerTypes' /\ cancelled' \subseteq Workers /\ cancelled \subseteq cancelled'
<1>1. ServerTypes /\ WorkerTypes
  BY TypeParts
<1>2. /\ server \in [at : Phases, sup : 0..Len(Pools), next : Nat]
      /\ server.next \in IF server.sup = 0 THEN {0} ELSE 1..Len(Pools[server.sup])
      /\ Len(Pools) \in Nat \ {0}
  BY <1>1, PoolFacts DEF ServerTypes
<1>3. CASE /\ server.sup = Len(Pools)
           /\ server' = [at |-> "closing", sup |-> server.sup, next |-> server.next]
           /\ cancelled' = cancelled
  <2>1. ServerTypes'
    BY <1>2, <1>3 DEF ServerTypes, PhaseOK, Phases
  <2> QED BY <1>1, <1>3, <2>1 DEF WorkerTypes
<1>4. CASE /\ server.sup + 1 \in 1..Len(Pools)
           /\ server' = [at |-> "await", sup |-> server.sup + 1, next |-> 1]
           /\ Cancel(ToSet(Pools[server.sup + 1]))
  <2>1. PICK i \in 1..Len(Pools) : i = server.sup + 1
    BY <1>4
  <2>2. ToSet(Pools[i]) \subseteq Workers /\ 1 \in 1..Len(Pools[i])
    BY PoolFacts
  <2>3. cancelled' \subseteq Workers /\ cancelled \subseteq cancelled'
    BY <1>1, <1>4, <2>1, <2>2 DEF Cancel, WorkerTypes
  <2>4. server' = [at |-> "await", sup |-> i, next |-> 1]
    BY <1>4, <2>1
  <2>5. ServerTypes'
    BY <2>1, <2>2, <2>4 DEF ServerTypes, PhaseOK, Phases
  <2> QED BY <2>3, <2>5
<1> QED BY <1>1, <1>3, <1>4, NextSupervisorEffect

\* While a supervisor is being stopped, server.next is one of its workers.
LEMMA CurrentWorker ==
    ASSUME ServerTypes, server.at \in {"await", "pool"}
    PROVE  /\ server.sup \in 1..Len(Pools)
           /\ server.next \in 1..Len(Pool)
           /\ Pool = Pools[server.sup]
           /\ Pool[server.next] \in Workers
<1>1. server.sup \in 1..Len(Pools)
  BY PoolFacts DEF ServerTypes, PhaseOK
<1>2. server.next \in 1..Len(Pools[server.sup])
  BY <1>1 DEF ServerTypes
<1> QED BY <1>1, <1>2, PoolFacts DEF Pool

\* One worker of the list after the other.
LEMMA NextInPool ==
    ASSUME ServerTypes, server.at \in {"await", "pool"},
           \/ NextTask
           \/ server.next < Len(Pool) /\ server' = [server EXCEPT !.next = @ + 1]
           \/ server' = [server EXCEPT !.at = "aborted"]
    PROVE  ServerTypes'
<1>1. PICK i \in 1..Len(Pools) : i = server.sup /\ Pool = Pools[i]
  BY CurrentWorker
<1>2. /\ Len(Pools[i]) \in Nat \ {0} /\ server.next \in 1..Len(Pools[i])
      /\ server \in [at : Phases, sup : 0..Len(Pools), next : Nat]
  BY <1>1, CurrentWorker, PoolFacts DEF ServerTypes
<1>3. \/ server' = [at |-> server.at, sup |-> i, next |-> server.next + 1]
         /\ server.next < Len(Pools[i])
      \/ server' = [at |-> "pool", sup |-> i, next |-> 1]
      \/ server' = [at |-> "aborted", sup |-> i, next |-> server.next]
  BY <1>1, <1>2 DEF NextTask
<1>4. server'.sup = i /\ server'.next \in 1..Len(Pools[i])
  BY <1>2, <1>3
<1>5. server'.at \in Phases \ {"up"}
  BY <1>2, <1>3 DEF Phases
<1>6. server' \in [at : Phases, sup : 0..Len(Pools), next : Nat]
  BY <1>2, <1>3, <1>5
<1> QED BY <1>4, <1>5, <1>6 DEF ServerTypes, PhaseOK

LEMMA ServerTypeStep == ASSUME TypeInv, ServerStep PROVE TypeInv'
<1>0. WorkerTypes /\ ServerTypes
  BY TypeParts
<1>1. UNCHANGED <<loop, hand, countVars>>
  BY DEF ServerStep, Shutdown, ShutdownFails, Stop, AwaitTask, StopWorker, CloseShared,
         StopWorkerFails, StopTimesOut
<1>2. faults' \in 0..MaxFaults
  <2>1. UNCHANGED faults \/ Fault
    BY DEF ServerStep, Shutdown, ShutdownFails, Stop, AwaitTask, StopWorker, CloseShared,
           StopWorkerFails, StopTimesOut
  <2> QED BY <1>0, <2>1, FaultType DEF WorkerTypes
<1>3. ASSUME open' \in [Workers -> SUBSET Clients], leaked' \subseteq Workers \X Clients,
             cut' \subseteq Workers, cancelled' \subseteq Workers, ServerTypes'
      PROVE  TypeInv'
  <2>1. WorkerTypes'
    BY <1>0, <1>1, <1>2, <1>3 DEF WorkerTypes, countVars
  <2> QED BY <1>3, <2>1 DEF WorkerTypes, ServerTypes, TypeInv, TypeOK
<1>4. CASE Shutdown
  BY <1>0, <1>3, <1>4, NextSupervisorType DEF Shutdown, clientVars, WorkerTypes
<1>8. CASE ShutdownFails
  <2>1. ServerTypes'
    BY <1>0, <1>8 DEF ShutdownFails, ServerTypes, PhaseOK, Phases
  <2> QED BY <1>0, <1>3, <1>8, <2>1 DEF ShutdownFails, clientVars, WorkerTypes
<1>5. CASE AwaitTask
  BY <1>0, <1>3, <1>5, NextInPool DEF AwaitTask, clientVars, WorkerTypes
<1>6. CASE StopWorker \/ StopWorkerFails \/ StopTimesOut
  <2>1. server.at = "pool"
    BY <1>6 DEF StopWorker, StopWorkerFails, StopTimesOut
  <2>2. /\ Pool[server.next] \in Workers
        /\ \A j \in server.next..Len(Pool) : Pool[j] \in Workers
    <3>1. PICK i \in 1..Len(Pools) :
             i = server.sup /\ Pool = Pools[i] /\ server.next \in 1..Len(Pools[i])
      BY <1>0, <2>1, CurrentWorker
    <3>2. Len(Pools[i]) \in Nat /\ \A j \in 1..Len(Pools[i]) : Pools[i][j] \in Workers
      BY PoolFacts
    <3> QED BY <3>1, <3>2
  <2>3. open' \in [Workers -> SUBSET Clients] /\ leaked' \subseteq Workers \X Clients
    BY <1>0, <1>6, <2>2, StopCutType
    DEF StopWorker, StopWorkerFails, StopTimesOut, WorkerTypes
  <2>4. ServerTypes' /\ cancelled' \subseteq Workers
    BY <1>0, <1>6, <2>1, NextInPool, NextSupervisorType
    DEF StopWorker, StopWorkerFails, StopTimesOut, WorkerTypes
  <2>5. cut' \subseteq Workers
    BY <1>0, <1>6, <2>2 DEF StopWorker, StopWorkerFails, StopTimesOut, WorkerTypes
  <2> QED BY <1>3, <2>3, <2>4, <2>5
<1>7. CASE CloseShared
  <2>1. ServerTypes'
    BY <1>0, <1>7 DEF CloseShared, ServerTypes, PhaseOK, Phases
  <2> QED BY <1>0, <1>3, <1>7, <2>1 DEF CloseShared, clientVars, WorkerTypes
<1> QED BY <1>4, <1>5, <1>6, <1>7, <1>8 DEF ServerStep, Stop

LEMMA TypeStep == TypeInv /\ [Next]_vars => TypeInv'
<1> SUFFICES ASSUME TypeInv, [Next]_vars PROVE TypeInv'
  OBVIOUS
<1>1. CASE UNCHANGED vars
  BY <1>1 DEF vars, clientVars, countVars, TypeInv, TypeOK, PhaseOK
<1> QED BY <1>1, NextSplit, WorkerTypeStep, ServerTypeStep

LEMMA TypeInvHolds == Spec => []TypeInv
  BY TypeInit, TypeStep, PTL DEF Spec

\* Type correctness: also that stop() never reads past the end of a pool.
THEOREM TypeCorrect == Spec => []TypeOK
<1>1. TypeInv => TypeOK
  BY DEF TypeInv
<1> QED BY <1>1, TypeInvHolds, PTL

----------------------------------------------------------------------------
(* The counters.                                                           *)

\* A step of w's loop is no other worker's step, and none of the server's.
LEMMA WorkerFrame ==
    ASSUME WorkerTypes, NEW w \in Workers, WorkerStep(w)
    PROVE  /\ server' = server /\ cancelled' = cancelled
           /\ \A v \in Workers \ {w} :
                 /\ loop'[v] = loop[v] /\ open'[v] = open[v]
                 /\ restarts'[v] = restarts[v] /\ failures'[v] = failures[v]
<1>1. server' = server /\ cancelled' = cancelled
  BY DEF WorkerStep, Loop, Take, Finish, FinishFailed, Crash, CloseCrashedFails,
         CloseCrashed, Wake, Start, StartFails, EndCancelled
<1>2. \A v \in Workers \ {w} : loop'[v] = loop[v]
  BY DEF WorkerStep, Loop, Take, Finish, FinishFailed, Crash, CloseCrashedFails,
         CloseCrashed, Wake, Start, StartFails, EndCancelled, Goto, WorkerTypes
<1>3. \A v \in Workers \ {w} : open'[v] = open[v]
  BY DEF WorkerStep, Loop, Take, Finish, FinishFailed, Crash, CloseCrashedFails,
         CloseCrashed, Wake, Start, StartFails, EndCancelled, StopCut, StartCut,
         Replace, clientVars, WorkerTypes
<1>4. \A v \in Workers \ {w} : restarts'[v] = restarts[v] /\ failures'[v] = failures[v]
  BY DEF WorkerStep, Loop, Take, Finish, FinishFailed, Crash, CloseCrashedFails,
         CloseCrashed, Wake, Start, StartFails, EndCancelled, countVars, WorkerTypes
<1> QED BY <1>1, <1>2, <1>3, <1>4

\* RestartsMatchFailures for one worker.
CountsOK(w) ==
    /\ loop[w] \in {"running", "starting", "failed"} => failures[w] = restarts[w]
    /\ loop[w] \in {"closing", "sleeping", "done"} => failures[w] = restarts[w] + 1
    /\ loop[w] = "cancelled" => failures[w] \in {restarts[w], restarts[w] + 1}

LEMMA CountsMeaning ==
    ASSUME WorkerTypes
    PROVE  RestartsMatchFailures <=> \A w \in Workers : CountsOK(w)
  BY DEF WorkerTypes, RestartsMatchFailures, CountsOK

CountInv == WorkerTypes /\ \A w \in Workers : CountsOK(w)

LEMMA CountStep ==
    ASSUME TypeInv, TypeInv', \A w \in Workers : CountsOK(w), [Next]_vars
    PROVE  \A w \in Workers : CountsOK(w)'
<1>0. WorkerTypes
  BY TypeParts
<1>1. CASE UNCHANGED <<loop, countVars>>
  BY <1>1 DEF CountsOK, countVars
<1>2. ASSUME NEW w \in Workers, WorkerStep(w) PROVE \A v \in Workers : CountsOK(v)'
  <2>1. \A v \in Workers \ {w} : CountsOK(v)'
    BY <1>0, <1>2, WorkerFrame DEF CountsOK
  <2> SUFFICES CountsOK(w)'
    BY <2>1
  <2>2. CountsOK(w) /\ restarts[w] \in Nat /\ failures[w] \in Nat
    BY <1>0 DEF WorkerTypes
  <2>3. CASE Take(w) \/ Finish(w) \/ FinishFailed(w)
    BY <2>2, <2>3 DEF Take, Finish, FinishFailed, countVars, CountsOK
  <2>4. CASE Crash(w)
    <3>1. /\ loop[w] = "running" /\ loop'[w] = "closing"
          /\ failures'[w] = failures[w] + 1 /\ restarts'[w] = restarts[w]
      BY <1>0, <2>4 DEF Crash, At, Goto, WorkerTypes
    <3> QED BY <2>2, <3>1 DEF CountsOK
  <2>5. CASE CloseCrashed(w) \/ CloseCrashedFails(w)
    <3>1. /\ loop[w] = "closing" /\ loop'[w] = "sleeping"
          /\ UNCHANGED countVars
      BY <1>0, <2>5 DEF CloseCrashed, CloseCrashedFails, At, Goto, WorkerTypes
    <3> QED BY <2>2, <3>1 DEF CountsOK, countVars
  <2>6. CASE Wake(w)
    <3>1. /\ loop[w] = "sleeping" /\ failures'[w] = failures[w]
          /\ \/ loop'[w] = "done" /\ restarts'[w] = restarts[w]
             \/ loop'[w] = "starting" /\ restarts'[w] = restarts[w] + 1
      BY <1>0, <2>6 DEF Wake, At, Goto, WorkerTypes
    <3> QED BY <2>2, <3>1 DEF CountsOK
  <2>7. CASE Start(w) \/ StartFails(w)
    <3>1. /\ loop[w] = "starting" /\ loop'[w] \in {"running", "failed"}
          /\ UNCHANGED countVars
      BY <1>0, <2>7 DEF Start, StartFails, At, Goto, WorkerTypes
    <3> QED BY <2>2, <3>1 DEF CountsOK, countVars
  <2>8. CASE EndCancelled(w)
    <3>1. /\ loop[w] \in {"running", "starting", "closing", "sleeping"}
          /\ loop'[w] = "cancelled" /\ UNCHANGED countVars
      BY <1>0, <2>8 DEF EndCancelled, Goto, WorkerTypes
    <3> QED BY <2>2, <3>1 DEF CountsOK, countVars
  <2> QED
    BY <1>2, <2>3, <2>4, <2>5, <2>6, <2>7, <2>8 DEF WorkerStep, Loop
<1>3. ServerStep => UNCHANGED <<loop, countVars>>
  BY DEF ServerStep, Shutdown, ShutdownFails, Stop, AwaitTask, StopWorker, CloseShared,
         StopWorkerFails, StopTimesOut
<1> QED BY <1>1, <1>2, <1>3, NextSplit DEF vars, clientVars

\* The counters a supervisor reports agree with where its loops are.
THEOREM CountersAgree == Spec => []RestartsMatchFailures
<1> DEFINE Inv == \A w \in Workers : CountsOK(w)
<1>1. Init => Inv
  BY DEF Init, CountsOK
<1>2. TypeInv /\ TypeInv' /\ Inv /\ [Next]_vars => Inv'
  BY CountStep
<1>3. TypeInv /\ Inv => RestartsMatchFailures
  BY TypeParts, CountsMeaning
<1> QED BY <1>1, <1>2, <1>3, TypeInvHolds, PTL DEF Spec

----------------------------------------------------------------------------
(* Clients.                                                                *)

\* A supervisor cancels every task it has before it awaits or stops any.
StoppedAreCancelled ==
    \A w \in Workers : Stopping(w) => w \in cancelled \/ loop[w] \in Ended

\* An ended loop stays ended, and nothing opens its clients again.
LEMMA EndedStays ==
    ASSUME TypeInv, [Next]_vars, NEW v \in Workers, loop[v] \in Ended
    PROVE  loop'[v] = loop[v] /\ open'[v] \subseteq open[v]
<1>0. WorkerTypes /\ ServerTypes
  BY TypeParts
<1>1. CASE UNCHANGED <<loop, open>>
  BY <1>1
<1>2. ASSUME NEW w \in Workers, WorkerStep(w)
      PROVE  loop'[v] = loop[v] /\ open'[v] \subseteq open[v]
  <2>1. w # v
    BY <1>2
    DEF WorkerStep, Loop, Take, Finish, FinishFailed, Crash, CloseCrashedFails,
        CloseCrashed, Wake, Start, StartFails, EndCancelled, At, Ended
  <2> QED BY <1>0, <1>2, <2>1, WorkerFrame
<1>3. CASE ServerStep
  <2>1. loop' = loop
    BY <1>3 DEF ServerStep, Shutdown, ShutdownFails, Stop, AwaitTask, StopWorker, CloseShared,
           StopWorkerFails, StopTimesOut
  <2>2. CASE StopWorker \/ StopWorkerFails \/ StopTimesOut
    <3>1. Pool[server.next] \in Workers
      BY <1>0, <2>2, CurrentWorker DEF StopWorker, StopWorkerFails, StopTimesOut
    <3> QED
      BY <1>0, <2>1, <2>2, <3>1, StopCutType
      DEF StopWorker, StopWorkerFails, StopTimesOut, WorkerTypes
  <2>3. CASE ~ (StopWorker \/ StopWorkerFails \/ StopTimesOut)
    BY <1>3, <2>1, <2>3 DEF clientVars, ServerStep, Shutdown, ShutdownFails, Stop, AwaitTask, CloseShared
  <2> QED BY <2>2, <2>3
<1> QED BY <1>1, <1>2, <1>3, NextSplit DEF vars, clientVars

LEMMA CancelledGrows ==
    ASSUME TypeInv, [Next]_vars
    PROVE  /\ cancelled \subseteq cancelled'
           /\ \/ server'.sup = server.sup
              \/ /\ server.sup + 1 \in 1..Len(Pools) /\ server'.sup = server.sup + 1
                 /\ Cancel(ToSet(Pools[server.sup + 1]))
<1>0. WorkerTypes /\ ServerTypes
  BY TypeParts
<1>1. CASE UNCHANGED <<server, cancelled>>
  BY <1>1
<1>2. CASE NextSupervisor
  <2>1. cancelled \subseteq cancelled'
    BY <1>2, NextSupervisorType
  <2>2. \/ server'.sup = server.sup
        \/ /\ server.sup + 1 \in 1..Len(Pools) /\ server'.sup = server.sup + 1
           /\ Cancel(ToSet(Pools[server.sup + 1]))
    BY <1>0, <1>2, NextSupervisorEffect
  <2> QED BY <2>1, <2>2
<1>3. ASSUME cancelled' = cancelled,
             \/ NextTask
             \/ \E a \in Phases : server' = [server EXCEPT !.at = a]
             \/ server' = [server EXCEPT !.next = @ + 1]
      PROVE  cancelled \subseteq cancelled' /\ server'.sup = server.sup
  BY <1>0, <1>3 DEF NextTask, ServerTypes
<1>4. CASE ServerStep
  BY <1>2, <1>3, <1>4
  DEF ServerStep, Shutdown, ShutdownFails, Stop, AwaitTask, StopWorker, CloseShared,
      StopWorkerFails, StopTimesOut, Phases
<1>5. ASSUME NEW w \in Workers, WorkerStep(w) PROVE UNCHANGED <<server, cancelled>>
  BY <1>0, <1>5, WorkerFrame
<1> QED BY <1>1, <1>4, <1>5, NextSplit DEF vars, clientVars

LEMMA StoppedStep ==
    ASSUME TypeInv, StoppedAreCancelled, [Next]_vars
    PROVE  StoppedAreCancelled'
<1> SUFFICES ASSUME NEW w \in Workers, Stopping(w)', w \notin cancelled'
             PROVE  loop'[w] \in Ended
  BY DEF StoppedAreCancelled
<1>1. w \notin cancelled
  BY CancelledGrows
<1>2. loop[w] \in Ended => loop'[w] \in Ended
  BY EndedStays
<1>3. CASE Stopping(w)
  BY <1>1, <1>2, <1>3 DEF StoppedAreCancelled
<1>4. CASE ~Stopping(w)
  <2>0. server.sup \in Nat
    BY PoolFacts, TypeParts DEF ServerTypes
  <2>1. PICK i \in DOMAIN Pools : w \in ToSet(Pools[i]) /\ server'.sup >= i
    BY DEF Stopping
  <2>2. ~ (server.sup >= i) /\ i \in Nat
    BY <1>4, <2>1, PoolFacts DEF Stopping
  <2>3. i = server.sup + 1 /\ Cancel(ToSet(Pools[server.sup + 1]))
    BY <2>0, <2>1, <2>2, CancelledGrows
  <2>4. loop[w] \in Ended
    BY <2>1, <2>3 DEF Cancel
  <2> QED BY <1>2, <2>4
<1> QED BY <1>3, <1>4

LEMMA OpenStep ==
    ASSUME TypeInv, StoppedAreCancelled, RunsOnOpenClients, [Next]_vars
    PROVE  RunsOnOpenClients'
<1> SUFFICES ASSUME NEW v \in Workers, loop'[v] = "running", v \notin cancelled'
             PROVE  open'[v] = Clients
  BY DEF RunsOnOpenClients, At
<1>0. WorkerTypes /\ ServerTypes
  BY TypeParts
<1>1. v \notin cancelled
  BY CancelledGrows
<1>2. loop[v] = "running" => open[v] = Clients
  BY <1>1 DEF RunsOnOpenClients, At
<1>3. CASE UNCHANGED <<loop, open>>
  BY <1>2, <1>3
<1>4. ASSUME NEW w \in Workers, WorkerStep(w) PROVE open'[v] = Clients
  <2>1. CASE v # w
    BY <1>0, <1>2, <1>4, <2>1, WorkerFrame
  <2>2. CASE v = w
    <3>1. CASE Start(w)
      <4>1. (open[w] \ Clients) \cup Clients = Clients
        BY <1>0 DEF WorkerTypes
      <4> QED BY <1>0, <2>2, <3>1, <4>1 DEF Start, Replace, WorkerTypes
    <3>2. CASE Take(w) \/ Finish(w) \/ FinishFailed(w)
      BY <1>2, <2>2, <3>2 DEF Take, Finish, FinishFailed, clientVars
    <3>3. CASE ~Start(w) /\ ~(Take(w) \/ Finish(w) \/ FinishFailed(w))
      <4>1. \E l \in Loops \ {"running"} : Goto(w, l)
        BY <1>4, <3>3
        DEF WorkerStep, Loop, Crash, CloseCrashedFails, CloseCrashed, Wake,
            StartFails, EndCancelled, Loops, Ended
      <4> QED BY <1>0, <2>2, <4>1 DEF Goto, WorkerTypes
    <3> QED BY <3>1, <3>2, <3>3
  <2> QED BY <2>1, <2>2
<1>5. CASE ServerStep
  <2>1. loop' = loop
    BY <1>5 DEF ServerStep, Shutdown, ShutdownFails, Stop, AwaitTask, StopWorker, CloseShared,
           StopWorkerFails, StopTimesOut
  <2>2. CASE StopWorker \/ StopWorkerFails \/ StopTimesOut
    <3>1. server.at = "pool"
      BY <2>2 DEF StopWorker, StopWorkerFails, StopTimesOut
    <3>2. /\ server.sup \in 1..Len(Pools) /\ server.next \in 1..Len(Pools[server.sup])
          /\ Pool = Pools[server.sup] /\ Pool[server.next] \in Workers
      BY <1>0, <3>1, CurrentWorker
    <3>3. Stopping(Pool[server.next])
      <4>1. PICK i \in 1..Len(Pools) : i = server.sup
        BY <3>2
      <4>2. Pool[server.next] \in ToSet(Pools[i]) /\ i \in DOMAIN Pools
        BY <3>2, <4>1, PoolFacts
      <4>3. server.sup >= i
        BY <4>1
      <4> QED BY <4>2, <4>3 DEF Stopping
    <3>4. v # Pool[server.next]
      BY <1>1, <2>1, <3>2, <3>3 DEF StoppedAreCancelled, Ended
    <3>5. open'[v] = open[v]
      BY <1>0, <2>2, <3>2, <3>4, StopCutType
      DEF StopWorker, StopWorkerFails, StopTimesOut, WorkerTypes
    <3> QED BY <1>2, <2>1, <3>5
  <2>3. CASE ~ (StopWorker \/ StopWorkerFails \/ StopTimesOut)
    BY <1>2, <1>5, <2>1, <2>3 DEF clientVars, ServerStep, Shutdown, ShutdownFails, Stop, AwaitTask, CloseShared
  <2> QED BY <2>2, <2>3
<1> QED BY <1>3, <1>4, <1>5, NextSplit DEF vars, clientVars

\* run() never meets a closed client: pool.stop() closes the clients of a
\* cancelled or ended loop only, and a restart opens both.
THEOREM RunningClientsAreOpen == Spec => []RunsOnOpenClients
<1>1. Init => StoppedAreCancelled /\ RunsOnOpenClients
  <2> SUFFICES ASSUME Init PROVE StoppedAreCancelled /\ RunsOnOpenClients
    OBVIOUS
  <2>1. \A w \in Workers : ~Stopping(w)
    BY PoolFacts DEF Init, Stopping
  <2>2. RunsOnOpenClients
    BY DEF Init, RunsOnOpenClients
  <2> QED BY <2>1, <2>2 DEF StoppedAreCancelled
<1>2. TypeInv /\ StoppedAreCancelled /\ [Next]_vars => StoppedAreCancelled'
  BY StoppedStep
<1>3. TypeInv /\ StoppedAreCancelled /\ RunsOnOpenClients /\ [Next]_vars
        => RunsOnOpenClients'
  BY OpenStep
<1> QED BY <1>1, <1>2, <1>3, TypeInvHolds, PTL DEF Spec

----------------------------------------------------------------------------
(* Leaks.                                                                  *)

\* Also, a client still open in a loop past its crash is one whose stop() was
\* cut short.
LeakInv ==
    /\ LeaksTakeACutStop
    /\ \A w \in Workers :
          loop[w] \in {"sleeping", "starting"} => w \in cut \/ open[w] = {}

LEMMA CutGrows == ASSUME [Next]_vars PROVE cut \subseteq cut'
  BY NextSplit
  DEF WorkerStep, Loop, Take, Finish, FinishFailed, Crash, CloseCrashedFails,
      CloseCrashed, Wake, Start, StartFails, EndCancelled, ServerStep, Shutdown,
      ShutdownFails, Stop, AwaitTask, StopWorker, CloseShared, StopWorkerFails,
      StopTimesOut, clientVars, vars

\* What a step of w's loop does to its clients, by where the loop was.
LEMMA ClientMoves ==
    ASSUME WorkerTypes, NEW w \in Workers, WorkerStep(w)
    PROVE  \/ loop'[w] \in {"running", "closing"} /\ UNCHANGED clientVars
           \/ /\ loop[w] = "closing" /\ leaked' \subseteq leaked \cup ({w} \X Clients)
              /\ w \in cut'
           \/ loop[w] = "closing" /\ open'[w] = {} /\ UNCHANGED leaked
           \/ loop[w] = "sleeping" /\ UNCHANGED clientVars
           \/ /\ loop[w] = "starting" /\ loop'[w] \in {"running", "failed", "cancelled"}
              /\ leaked' \subseteq leaked \cup ({w} \X open[w])
           \/ loop'[w] \in Ended /\ UNCHANGED clientVars
<1>1. CASE Take(w) \/ Finish(w) \/ FinishFailed(w)
  BY <1>1 DEF Take, Finish, FinishFailed, At
<1>2. CASE Crash(w)
  BY <1>2 DEF Crash, At, Goto, WorkerTypes
<1>3. CASE CloseCrashed(w)
  BY <1>3 DEF CloseCrashed, At, Goto, WorkerTypes
<1>8. CASE CloseCrashedFails(w)
  BY <1>8, StopCutType DEF CloseCrashedFails, At
<1>4. CASE Wake(w)
  BY <1>4 DEF Wake, At
<1>5. CASE Start(w)
  BY <1>5 DEF Start, At, Goto, Replace, WorkerTypes
<1>6. CASE StartFails(w)
  BY <1>6 DEF StartFails, At, Goto, StartCut, Replace, WorkerTypes
<1>7. CASE EndCancelled(w)
  <2>1. loop'[w] = "cancelled"
    BY <1>7 DEF EndCancelled, Goto, WorkerTypes
  <2>2. CASE loop[w] = "starting"
    BY <1>7, <2>1, <2>2 DEF EndCancelled, StartCut, Replace
  <2>3. CASE loop[w] = "closing"
    BY <1>7, <2>3, StopCutType DEF EndCancelled
  <2>4. CASE loop[w] \notin {"starting", "closing"}
    BY <1>7, <2>1, <2>4 DEF EndCancelled, Ended
  <2> QED BY <2>2, <2>3, <2>4
<1> QED
  BY <1>1, <1>2, <1>3, <1>4, <1>5, <1>6, <1>7, <1>8 DEF WorkerStep, Loop

\* The server's steps only close clients, and lose one by a stop() cut short.
LEMMA ServerMoves ==
    ASSUME WorkerTypes, ServerTypes, ServerStep
    PROVE  /\ loop' = loop
           /\ \A v \in Workers : open'[v] \subseteq open[v]
           /\ leaked' \subseteq leaked \cup (cut' \X Clients)
<1>1. loop' = loop
  BY DEF ServerStep, Shutdown, ShutdownFails, Stop, AwaitTask, StopWorker, CloseShared,
         StopWorkerFails, StopTimesOut
<1>2. CASE StopWorker \/ StopWorkerFails \/ StopTimesOut
  <2>0. server.at = "pool"
    BY <1>2 DEF StopWorker, StopWorkerFails, StopTimesOut
  <2>1. /\ Pool[server.next] \in Workers
        /\ server.next \in server.next..Len(Pool)
    <3>1. PICK i \in 1..Len(Pools) :
             i = server.sup /\ Pool = Pools[i] /\ server.next \in 1..Len(Pools[i])
      BY <2>0, CurrentWorker
    <3>2. Len(Pools[i]) \in Nat
      BY PoolFacts
    <3> QED BY <2>0, <3>1, <3>2, CurrentWorker
  <2>2. CASE StopWorker
    BY <1>1, <2>1, <2>2 DEF StopWorker, WorkerTypes
  <2>3. CASE StopWorkerFails \/ StopTimesOut
    <3>1. StopCut(Pool[server.next]) /\ Pool[server.next] \in cut'
      BY <2>1, <2>3 DEF StopWorkerFails, StopTimesOut
    <3> QED BY <1>1, <2>1, <3>1, StopCutType
  <2> QED BY <1>2, <2>2, <2>3
<1>3. CASE ~ (StopWorker \/ StopWorkerFails \/ StopTimesOut)
  BY <1>1, <1>3
  DEF ServerStep, Shutdown, ShutdownFails, Stop, AwaitTask, CloseShared, clientVars
<1> QED BY <1>2, <1>3

LEMMA LeakStep == ASSUME TypeInv, LeakInv, [Next]_vars PROVE LeakInv'
<1>0. WorkerTypes /\ ServerTypes
  BY TypeParts
<1>1. cut \subseteq cut'
  BY CutGrows
<1>2. ASSUME loop' = loop, \A v \in Workers : open'[v] \subseteq open[v],
             leaked' \subseteq leaked \cup (cut' \X Clients)
      PROVE  LeakInv'
  <2>1. LeaksTakeACutStop'
    BY <1>1, <1>2 DEF LeakInv, LeaksTakeACutStop
  <2>2. ASSUME NEW v \in Workers, loop'[v] \in {"sleeping", "starting"}
        PROVE  v \in cut' \/ open'[v] = {}
    BY <1>1, <1>2, <2>2 DEF LeakInv
  <2> QED BY <2>1, <2>2 DEF LeakInv
<1>3. ASSUME NEW w \in Workers, WorkerStep(w) PROVE LeakInv'
  <2>1. \A v \in Workers \ {w} : loop'[v] = loop[v] /\ open'[v] = open[v]
    BY <1>0, <1>3, WorkerFrame
  <2>2. loop[w] \in {"sleeping", "starting"} => w \in cut \/ open[w] = {}
    BY DEF LeakInv
  <2>3. \/ leaked' \subseteq leaked
        \/ leaked' \subseteq leaked \cup ({w} \X Clients) /\ w \in cut'
        \/ leaked' \subseteq leaked \cup ({w} \X open[w]) /\ (w \in cut \/ open[w] = {})
    BY <1>0, <1>3, <2>2, ClientMoves DEF clientVars
  <2>4. LeaksTakeACutStop'
    BY <1>1, <2>3 DEF LeakInv, LeaksTakeACutStop
  <2>5. loop'[w] \in {"sleeping", "starting"} => w \in cut' \/ open'[w] = {}
    BY <1>0, <1>1, <1>3, <2>2, ClientMoves DEF clientVars, Ended
  <2>6. ASSUME NEW v \in Workers, loop'[v] \in {"sleeping", "starting"}
        PROVE  v \in cut' \/ open'[v] = {}
    <3>1. CASE v = w
      BY <2>5, <2>6, <3>1
    <3>2. CASE v # w
      BY <1>1, <2>1, <2>6, <3>2 DEF LeakInv
    <3> QED BY <3>1, <3>2
  <2> QED BY <2>4, <2>6 DEF LeakInv
<1>4. ServerStep => LeakInv'
  BY <1>0, <1>2, ServerMoves
<1>5. UNCHANGED vars => LeakInv'
  BY <1>2 DEF vars, clientVars
<1> QED BY <1>3, <1>4, <1>5, NextSplit

\* A client is lost only if a stop() of its own worker was cut short: start()
\* never replaces a client that is open but for that.
THEOREM LostClientsWereCut == Spec => []LeaksTakeACutStop
<1>1. Init => LeakInv
  BY DEF Init, LeakInv, LeaksTakeACutStop
<1>2. TypeInv /\ LeakInv /\ [Next]_vars => LeakInv'
  BY LeakStep
<1>3. LeakInv => LeaksTakeACutStop
  BY DEF LeakInv
<1> QED BY <1>1, <1>2, <1>3, TypeInvHolds, PTL DEF Spec

----------------------------------------------------------------------------
(* A completed shutdown.                                                   *)

\* shutdown() is done awaiting the task of Pools[i][j], and closing its clients.
Awaited(i, j) ==
    \/ server.sup > i
    \/ /\ server.sup = i
       /\ \/ server.at \in {"pool", "closing", "closed"}
          \/ server.at = "await" /\ j < server.next

Swept(i, j) ==
    \/ server.sup > i
    \/ /\ server.sup = i
       /\ \/ server.at \in {"closing", "closed"}
          \/ server.at = "pool" /\ j < server.next

AwaitedHaveEnded ==
    \A i \in 1..Len(Pools) : \A j \in 1..Len(Pools[i]) :
        Awaited(i, j) => loop[Pools[i][j]] \in Ended

SweptAreClosed ==
    \A i \in 1..Len(Pools) : \A j \in 1..Len(Pools[i]) :
        Swept(i, j) => Pools[i][j] \in cut \/ open[Pools[i][j]] = {}

SharedComeLast == server.at \in {"closing", "closed"} => server.sup = Len(Pools)

\* Every way shutdown() moves on.
LEMMA ServerChange ==
    ASSUME TypeInv, ServerStep
    PROVE  \/ /\ server.at = "await" /\ loop[Pool[server.next]] \in Ended
              /\ server.next < Len(Pool)
              /\ server' = [at |-> "await", sup |-> server.sup, next |-> server.next + 1]
           \/ /\ server.at = "await" /\ loop[Pool[server.next]] \in Ended
              /\ ~(server.next < Len(Pool))
              /\ server' = [at |-> "pool", sup |-> server.sup, next |-> 1]
           \/ server' = [at |-> "aborted", sup |-> server.sup, next |-> server.next]
           \/ /\ server.at = "pool" /\ open'[Pool[server.next]] = {}
              /\ server.next < Len(Pool)
              /\ server' = [at |-> "pool", sup |-> server.sup, next |-> server.next + 1]
           \/ /\ \/ server.at = "up"
                 \/ /\ server.at = "pool"
                    /\ \/ \A j \in server.next..Len(Pool) : Pool[j] \in cut'
                       \/ ~(server.next < Len(Pool)) /\ open'[Pool[server.next]] = {}
              /\ \/ /\ server.sup = Len(Pools)
                    /\ server' = [at |-> "closing", sup |-> server.sup, next |-> server.next]
                 \/ server' = [at |-> "await", sup |-> server.sup + 1, next |-> 1]
           \/ /\ server.at = "closing"
              /\ server' = [at |-> "closed", sup |-> server.sup, next |-> server.next]
<1>0. WorkerTypes /\ ServerTypes
  BY TypeParts
<1>1. server \in [at : Phases, sup : 0..Len(Pools), next : Nat]
  BY <1>0 DEF ServerTypes
<1>2. CASE Shutdown
  BY <1>0, <1>2, NextSupervisorEffect DEF Shutdown
<1>3. CASE AwaitTask
  BY <1>1, <1>3 DEF AwaitTask, NextTask
<1>4. CASE StopWorker
  <2>1. server.at = "pool" /\ Pool[server.next] \in Workers
    BY <1>0, <1>4, CurrentWorker DEF StopWorker
  <2>2. open'[Pool[server.next]] = {}
    BY <1>0, <1>4, <2>1 DEF StopWorker, WorkerTypes
  <2>3. CASE server.next < Len(Pool)
    BY <1>1, <1>4, <2>1, <2>2, <2>3 DEF StopWorker
  <2>4. CASE ~(server.next < Len(Pool))
    BY <1>0, <1>4, <2>1, <2>2, <2>4, NextSupervisorEffect DEF StopWorker
  <2> QED BY <2>3, <2>4
<1>5. CASE StopWorkerFails
  BY <1>1, <1>5 DEF StopWorkerFails
<1>6. CASE StopTimesOut
  <2>1. \A j \in server.next..Len(Pool) : Pool[j] \in cut'
    BY <1>6 DEF StopTimesOut
  <2> QED BY <1>0, <1>6, <2>1, NextSupervisorEffect DEF StopTimesOut
<1>8. CASE ShutdownFails
  BY <1>1, <1>8 DEF ShutdownFails
<1>7. CASE CloseShared
  BY <1>1, <1>7 DEF CloseShared
<1> QED BY <1>2, <1>3, <1>4, <1>5, <1>6, <1>7, <1>8 DEF ServerStep, Stop

LEMMA SharedStep == TypeInv /\ SharedComeLast /\ [Next]_vars => SharedComeLast'
<1> SUFFICES ASSUME TypeInv, SharedComeLast, [Next]_vars PROVE SharedComeLast'
  OBVIOUS
<1>1. CASE UNCHANGED server
  BY <1>1 DEF SharedComeLast
<1>2. CASE ServerStep
  BY <1>2, ServerChange DEF SharedComeLast
<1>3. ASSUME NEW w \in Workers, WorkerStep(w) PROVE UNCHANGED server
  BY <1>3, TypeParts, WorkerFrame
<1> QED BY <1>1, <1>2, <1>3, NextSplit DEF vars, clientVars

LEMMA AwaitedStep == TypeInv /\ AwaitedHaveEnded /\ [Next]_vars => AwaitedHaveEnded'
<1> SUFFICES ASSUME TypeInv, AwaitedHaveEnded, [Next]_vars,
                    NEW i \in 1..Len(Pools), NEW j \in 1..Len(Pools[i]),
                    Awaited(i, j)'
             PROVE  loop'[Pools[i][j]] \in Ended
  BY DEF AwaitedHaveEnded
<1>0. WorkerTypes /\ ServerTypes
  BY TypeParts
<1>1. Pools[i][j] \in Workers /\ i \in Nat /\ j \in Nat /\ i # 0
  BY PoolFacts
<1>2. loop[Pools[i][j]] \in Ended => loop'[Pools[i][j]] \in Ended
  BY <1>1, EndedStays
<1>3. Awaited(i, j) => loop[Pools[i][j]] \in Ended
  BY DEF AwaitedHaveEnded
<1>4. CASE UNCHANGED server
  BY <1>2, <1>3, <1>4 DEF Awaited
<1>5. CASE ServerStep
  <2>1. /\ server.sup \in Nat /\ server.next \in Nat
        /\ server.at = "up" => server.sup = 0
        /\ server.at = "await" => Pool = Pools[server.sup]
                                  /\ server.next \in 1..Len(Pools[server.sup])
    BY <1>0, PoolFacts, CurrentWorker DEF ServerTypes, PhaseOK
  <2>2. Awaited(i, j) \/ (server.at = "await" /\ server.sup = i /\ server.next = j
                            /\ loop[Pool[server.next]] \in Ended)
    <3>1. CASE /\ server.at = "await" /\ loop[Pool[server.next]] \in Ended
               /\ server.next < Len(Pool)
               /\ server' = [at |-> "await", sup |-> server.sup, next |-> server.next + 1]
      BY <1>1, <2>1, <3>1 DEF Awaited
    <3>2. CASE /\ server.at = "await" /\ loop[Pool[server.next]] \in Ended
               /\ ~(server.next < Len(Pool))
               /\ server' = [at |-> "pool", sup |-> server.sup, next |-> 1]
      <4>1. CASE server.sup > i
        BY <4>1 DEF Awaited
      <4>2. CASE ~(server.sup > i)
        <5>1. server.sup = i
          BY <3>2, <4>2 DEF Awaited
        <5>2. /\ server.next \in 1..Len(Pools[i])
              /\ ~(server.next < Len(Pools[i]))
          BY <2>1, <3>2, <5>1
        <5>3. Len(Pools[i]) \in Nat
          BY PoolFacts
        <5>4. server.next = Len(Pools[i])
          BY <5>2, <5>3
        <5> QED BY <2>1, <3>2, <5>1, <5>3, <5>4 DEF Awaited
      <4> QED BY <4>1, <4>2
    <3>3. CASE server' = [at |-> "aborted", sup |-> server.sup, next |-> server.next]
      BY <1>1, <2>1, <3>3 DEF Awaited
    <3>4. CASE server.at = "pool"
      BY <1>1, <1>5, <2>1, <3>4, ServerChange DEF Awaited
    <3>5. CASE server.at \in {"up", "closing"}
      BY <1>1, <1>5, <2>1, <3>5, ServerChange DEF Awaited
    <3> QED BY <1>5, <3>1, <3>2, <3>3, <3>4, <3>5, ServerChange
  <2> QED BY <1>2, <1>3, <2>1, <2>2
<1>6. ASSUME NEW w \in Workers, WorkerStep(w) PROVE UNCHANGED server
  BY <1>0, <1>6, WorkerFrame
<1> QED BY <1>4, <1>5, <1>6, NextSplit DEF vars, clientVars

LEMMA SweptStep ==
    TypeInv /\ AwaitedHaveEnded /\ SweptAreClosed /\ [Next]_vars => SweptAreClosed'
<1> SUFFICES ASSUME TypeInv, AwaitedHaveEnded, SweptAreClosed, [Next]_vars,
                    NEW i \in 1..Len(Pools), NEW j \in 1..Len(Pools[i]),
                    Swept(i, j)'
             PROVE  Pools[i][j] \in cut' \/ open'[Pools[i][j]] = {}
  BY DEF SweptAreClosed
<1>0. WorkerTypes /\ ServerTypes
  BY TypeParts
<1>1. Pools[i][j] \in Workers /\ i \in Nat /\ j \in Nat /\ i # 0
  BY PoolFacts
<1>2. cut \subseteq cut'
  BY CutGrows
<1>3. Swept(i, j) => Pools[i][j] \in cut' \/ open'[Pools[i][j]] = {}
  <2>1. ASSUME Swept(i, j) PROVE Pools[i][j] \in cut' \/ open'[Pools[i][j]] = {}
    <3>1. Awaited(i, j) /\ (Pools[i][j] \in cut \/ open[Pools[i][j]] = {})
      BY <2>1 DEF Swept, Awaited, SweptAreClosed
    <3>2. open'[Pools[i][j]] \subseteq open[Pools[i][j]]
      BY <1>1, <3>1, EndedStays DEF AwaitedHaveEnded
    <3> QED BY <1>2, <3>1, <3>2
  <2> QED BY <2>1
<1>4. CASE UNCHANGED server
  BY <1>3, <1>4 DEF Swept
<1>5. CASE ServerStep
  <2>1. /\ server.sup \in Nat /\ server.next \in Nat
        /\ server.at = "up" => server.sup = 0
        /\ server.at = "pool" => Pool = Pools[server.sup]
                                  /\ server.next \in 1..Len(Pools[server.sup])
    BY <1>0, PoolFacts, CurrentWorker DEF ServerTypes, PhaseOK
  <2>2. \/ Swept(i, j)
        \/ server.at = "pool" /\ server.sup = i /\ server.next = j
              /\ open'[Pool[server.next]] = {}
        \/ server.at = "pool" /\ server.sup = i /\ Pools[i][j] \in cut'
    <3>1. CASE server.at \in {"await", "closing"}
      BY <1>1, <1>5, <2>1, <3>1, ServerChange DEF Swept
    <3>2. CASE server.at = "up"
      BY <1>1, <1>5, <2>1, <3>2, ServerChange DEF Swept
    <3>3. CASE server' = [at |-> "aborted", sup |-> server.sup, next |-> server.next]
      BY <1>1, <2>1, <3>3 DEF Swept
    <3>4. CASE /\ server.at = "pool" /\ open'[Pool[server.next]] = {}
               /\ server.next < Len(Pool)
               /\ server' = [at |-> "pool", sup |-> server.sup, next |-> server.next + 1]
      BY <1>1, <2>1, <3>4 DEF Swept
    <3>5. CASE /\ server.at = "pool"
               /\ \/ \A k \in server.next..Len(Pool) : Pool[k] \in cut'
                  \/ ~(server.next < Len(Pool)) /\ open'[Pool[server.next]] = {}
               /\ \/ /\ server.sup = Len(Pools)
                     /\ server' = [at |-> "closing", sup |-> server.sup, next |-> server.next]
                  \/ server' = [at |-> "await", sup |-> server.sup + 1, next |-> 1]
      <4>1. CASE server.sup > i
        BY <4>1 DEF Swept
      <4>2. CASE ~(server.sup > i)
        <5>1. server.sup = i
          BY <1>1, <2>1, <3>5, <4>2 DEF Swept
        <5>2. Pool = Pools[i] /\ server.next \in 1..Len(Pools[i]) /\ Len(Pools[i]) \in Nat
          BY <2>1, <3>5, <5>1, PoolFacts
        <5>3. CASE \A k \in server.next..Len(Pool) : Pool[k] \in cut'
          <6>1. CASE j < server.next
            BY <3>5, <5>1, <6>1 DEF Swept
          <6>2. CASE ~(j < server.next)
            <7>1. j \in server.next..Len(Pool)
              BY <1>1, <2>1, <5>2, <6>2
            <7> QED BY <3>5, <5>1, <5>2, <5>3, <7>1
          <6> QED BY <6>1, <6>2
        <5>4. CASE ~(server.next < Len(Pool)) /\ open'[Pool[server.next]] = {}
          <6>1. server.next = Len(Pools[i])
            BY <5>2, <5>4
          <6> QED BY <2>1, <3>5, <5>1, <5>2, <5>4, <6>1 DEF Swept
        <5> QED BY <3>5, <5>3, <5>4
      <4> QED BY <4>1, <4>2
    <3> QED BY <1>5, <3>1, <3>2, <3>3, <3>4, <3>5, ServerChange
  <2> QED BY <1>3, <2>1, <2>2
<1>6. ASSUME NEW w \in Workers, WorkerStep(w) PROVE UNCHANGED server
  BY <1>0, <1>6, WorkerFrame
<1> QED BY <1>4, <1>5, <1>6, NextSplit DEF vars

\* A completed shutdown leaves every loop ended, and every client closed of
\* every worker no stop() of which was cut short.
THEOREM ShutdownIsClean == Spec => []CleanShutdown
<1> DEFINE Inv == AwaitedHaveEnded /\ SweptAreClosed /\ SharedComeLast
<1>1. Init => Inv
  <2> SUFFICES ASSUME Init PROVE Inv
    OBVIOUS
  <2>1. \A i \in 1..Len(Pools) : \A j \in 1..Len(Pools[i]) :
            ~Awaited(i, j) /\ ~Swept(i, j)
    BY DEF Init, Awaited, Swept
  <2> QED BY <2>1 DEF Init, AwaitedHaveEnded, SweptAreClosed, SharedComeLast
<1>2. TypeInv /\ Inv /\ [Next]_vars => Inv'
  BY AwaitedStep, SweptStep, SharedStep
<1>3. ASSUME TypeInv, Inv PROVE CleanShutdown
  <2> SUFFICES ASSUME server.at = "closed", NEW w \in Workers
               PROVE  loop[w] \in Ended /\ (w \in cut \/ open[w] = {})
    BY DEF CleanShutdown
  <2>1. PICK i \in 1..Len(Pools) : w \in ToSet(Pools[i])
    BY PoolsAssumption, PoolFacts
  <2>2. PICK j \in 1..Len(Pools[i]) : w = Pools[i][j]
    BY <2>1, PoolFacts
  <2>3. server.sup = Len(Pools) /\ Len(Pools) \in Nat
    BY <1>3, PoolFacts DEF SharedComeLast
  <2>4. Awaited(i, j) /\ Swept(i, j)
    BY <2>3 DEF Awaited, Swept
  <2> QED BY <1>3, <2>2, <2>4 DEF AwaitedHaveEnded, SweptAreClosed
<1> QED BY <1>1, <1>2, <1>3, TypeInvHolds, PTL DEF Spec

=============================================================================
