----------------------------- MODULE Supervisor -----------------------------
(***************************************************************************)
(* Supervision and shutdown of the server process                          *)
(* (flight_tracker/workers/supervisor.py, workers/worker_pool.py,          *)
(* server.py): one task per worker runs worker.run(), closes and reopens   *)
(* the worker's Kafka clients after a crash, and is cancelled by           *)
(* Supervisor.stop(); the server stops its two supervisors one after the   *)
(* other, each within a time limit.  Init is the state startup() leaves.   *)
(*                                                                         *)
(* t.cancel() makes the task's current await raise CancelledError, which   *)
(* nothing here catches for good: a cancelled task's only further step is  *)
(* to end, after whatever its cleanup takes.                               *)
(*                                                                         *)
(* stop() of an aiokafka client marks it closed first and does nothing for *)
(* a client that is: one whose stop() was cut short is never closed.       *)
(***************************************************************************)
EXTENDS Integers, Sequences, FiniteSets

LOCAL INSTANCE SequencesExt

CONSTANTS
    Workers,        \* workers of both supervisors
    Pools,          \* Pools[i]: pool.workers of the i-th supervisor stopped
    MaxFaults       \* bound on injected faults, of any kind

ASSUME PoolsAssumption ==
    /\ Pools \in Seq(Seq(Workers)) /\ Pools # <<>>
    /\ \A i \in DOMAIN Pools : Pools[i] # <<>>
    /\ \A w \in Workers : \E i \in DOMAIN Pools : w \in ToSet(Pools[i])
    /\ MaxFaults \in Nat

Clients == {"consumer", "producer"}     \* _consumer, _dlq_producer

VARIABLES
    loop,           \* loop[w]: where w's supervised loop is
    cancelled,      \* workers whose task has been cancelled
    hand,           \* hand[w]: run() is handling a message
    open,           \* open[w]: the clients w refers to that a stop() would close
    leaked,         \* <<w, client>> that no stop() will ever close
    cut,            \* workers whose stop() was cut short, or left out for that
    restarts,       \* restarts_per_worker, and worker.restarts
    failures,       \* failures_per_worker
    server,         \* shutdown(): where it is, at which supervisor and worker
    faults          \* faults injected so far

clientVars == <<open, leaked, cut>>
countVars == <<restarts, failures>>
vars == <<loop, cancelled, hand, clientVars, countVars, server, faults>>

Ended == {"done", "cancelled", "failed"}
Loops == {"running", "closing", "sleeping", "starting"} \cup Ended
Phases == {"up", "await", "pool", "closing", "closed", "aborted"}

TypeOK ==
    /\ loop \in [Workers -> Loops]
    /\ cancelled \subseteq Workers
    /\ hand \in [Workers -> BOOLEAN]
    /\ open \in [Workers -> SUBSET Clients]
    /\ leaked \subseteq Workers \X Clients /\ cut \subseteq Workers
    /\ restarts \in [Workers -> Nat] /\ failures \in [Workers -> Nat]
    /\ server \in [at : Phases, sup : 0..Len(Pools), next : Nat]
    /\ server.next \in IF server.sup = 0 THEN {0} ELSE 1..Len(Pools[server.sup])
    /\ faults \in 0..MaxFaults

Init ==
    /\ loop = [w \in Workers |-> "running"]
    /\ cancelled = {} /\ leaked = {} /\ cut = {}
    /\ hand = [w \in Workers |-> FALSE]
    /\ open = [w \in Workers |-> Clients]
    /\ restarts = [w \in Workers |-> 0] /\ failures = [w \in Workers |-> 0]
    /\ server = [at |-> "up", sup |-> 0, next |-> 0]
    /\ faults = 0

Fault == faults < MaxFaults /\ faults' = faults + 1

At(w, l) == loop[w] = l /\ w \notin cancelled
Goto(w, l) == loop' = [loop EXCEPT ![w] = l]

----------------------------------------------------------------------------
(* Worker.run().                                                           *)

Take(w) ==
    /\ At(w, "running") /\ ~hand[w]
    /\ hand' = [hand EXCEPT ![w] = TRUE]
    /\ UNCHANGED <<loop, cancelled, clientVars, countVars, server, faults>>

Finish(w) ==
    /\ At(w, "running") /\ hand[w]
    /\ hand' = [hand EXCEPT ![w] = FALSE]
    /\ UNCHANGED <<loop, cancelled, clientVars, countVars, server, faults>>

\* handle_failure, then the commit.
FinishFailed(w) ==
    /\ At(w, "running") /\ hand[w]
    /\ Fault
    /\ hand' = [hand EXCEPT ![w] = FALSE]
    /\ UNCHANGED <<loop, cancelled, clientVars, countVars, server>>

----------------------------------------------------------------------------
(* _supervised_loop().                                                     *)

\* run() raised.
Crash(w) ==
    /\ At(w, "running")
    /\ Fault
    /\ Goto(w, "closing")
    /\ hand' = [hand EXCEPT ![w] = FALSE]
    /\ failures' = [failures EXCEPT ![w] = @ + 1]
    /\ UNCHANGED <<cancelled, clientVars, restarts, server>>

\* Mutation of CloseCrashed: only the consumer is closed.
CloseCrashedConsumer(w) ==
    /\ At(w, "closing") /\ Goto(w, "sleeping")
    /\ open' = [open EXCEPT ![w] = @ \ {"consumer"}]
    /\ UNCHANGED <<cancelled, hand, leaked, cut, countVars, server, faults>>

\* worker.stop().
CloseCrashed(w) ==
    /\ At(w, "closing")
    /\ Goto(w, "sleeping")
    /\ open' = [open EXCEPT ![w] = {}]
    /\ UNCHANGED <<cancelled, hand, leaked, cut, countVars, server, faults>>

\* worker.stop() cut short while client c closes, the consumer before the
\* producer: c may have been as good as closed.
StopCut(w) ==
    \E c \in open[w] :
        /\ open' = [open EXCEPT ![w] = IF c = "consumer" THEN @ \ {c} ELSE {}]
        /\ leaked' \in {leaked, leaked \cup {<<w, c>>}}

\* It raised, from the first client or from the second: printed, and on.
CloseCrashedFails(w) ==
    /\ At(w, "closing")
    /\ Fault
    /\ Goto(w, "sleeping")
    /\ StopCut(w) /\ cut' = cut \cup {w}
    /\ UNCHANGED <<cancelled, hand, countVars, server>>

\* A stopped supervisor: _stopping, set together with the cancellations.
Stopping(w) ==
    \E i \in DOMAIN Pools : w \in ToSet(Pools[i]) /\ server.sup >= i

\* Mutation of Wake: the restart is not counted.
WakeUncounted(w) ==
    /\ At(w, "sleeping") /\ Goto(w, IF Stopping(w) THEN "done" ELSE "starting")
    /\ UNCHANGED <<cancelled, hand, clientVars, countVars, server, faults>>

\* The delay is over; both restart counters are bumped before start().
Wake(w) ==
    /\ At(w, "sleeping")
    /\ IF Stopping(w)
         THEN Goto(w, "done") /\ UNCHANGED restarts
         ELSE Goto(w, "starting") /\ restarts' = [restarts EXCEPT ![w] = @ + 1]
    /\ UNCHANGED <<cancelled, hand, clientVars, failures, server, faults>>

\* start() makes a new client in the place of each of cs: one that is open is lost.
Replace(w, cs, opened) ==
    /\ leaked' = leaked \cup ({w} \X (open[w] \cap cs))
    /\ open' = [open EXCEPT ![w] = (@ \ cs) \cup opened]

\* worker.start().
Start(w) ==
    /\ At(w, "starting")
    /\ Replace(w, Clients, Clients)
    /\ Goto(w, "running")
    /\ UNCHANGED <<cancelled, hand, cut, countVars, server, faults>>

\* start() cut short at the consumer or at the producer, which may have been
\* as good as started.
StartCut(w) ==
    \/ \E opened \in {{}, {"consumer"}} : Replace(w, {"consumer"}, opened)
    \/ \E opened \in {{"consumer"}, Clients} : Replace(w, Clients, opened)

\* Mutation of StartFails: the exception is swallowed and the loop goes on.
StartFailsRetried(w) ==
    /\ At(w, "starting") /\ Fault /\ StartCut(w) /\ Goto(w, "running")
    /\ UNCHANGED <<cancelled, hand, cut, countVars, server>>

\* It raised: outside the try, so the task ends with that exception.
StartFails(w) ==
    /\ At(w, "starting")
    /\ Fault
    /\ StartCut(w)
    /\ Goto(w, "failed")
    /\ UNCHANGED <<cancelled, hand, cut, countVars, server>>

\* CancelledError reaches the loop, wherever it is.
EndCancelled(w) ==
    /\ w \in cancelled /\ loop[w] \notin Ended
    /\ Goto(w, "cancelled")
    /\ hand' = [hand EXCEPT ![w] = FALSE]
    /\ \/ loop[w] = "starting" /\ StartCut(w) /\ UNCHANGED cut
       \/ loop[w] = "closing" /\ StopCut(w) /\ cut' = cut \cup {w}
       \/ loop[w] \in {"running", "sleeping"} /\ UNCHANGED clientVars
    /\ UNCHANGED <<cancelled, countVars, server, faults>>

----------------------------------------------------------------------------
(* shutdown() and Supervisor.stop().                                       *)

Pool == Pools[server.sup]

\* Mutation of Cancel: only the tasks inside run() are cancelled.
CancelRunning(ws) == cancelled' = cancelled \cup {w \in ws : loop[w] = "running"}

\* cancel() of every task that is not done.
Cancel(ws) == cancelled' = cancelled \cup {w \in ws : loop[w] \notin Ended}

\* stop() of the next supervisor, up to its first await; or the shared
\* clients' turn.
NextSupervisor ==
    IF server.sup = Len(Pools)
      THEN server' = [server EXCEPT !.at = "closing"] /\ UNCHANGED cancelled
      ELSE /\ server' = [at |-> "await", sup |-> server.sup + 1, next |-> 1]
           /\ Cancel(ToSet(Pools[server.sup + 1]))

Shutdown ==
    /\ server.at = "up"
    /\ NextSupervisor
    /\ UNCHANGED <<loop, hand, clientVars, countVars, faults>>

\* The ingestion or a metrics task had ended with an exception: awaiting it
\* ends shutdown() before any supervisor is stopped.
ShutdownFails ==
    /\ server.at = "up"
    /\ Fault
    /\ server' = [server EXCEPT !.at = "aborted"]
    /\ UNCHANGED <<loop, cancelled, hand, clientVars, countVars>>

\* Mutation of NextTask: one worker too many.
NextTaskPastEnd ==
    server' = IF server.next <= Len(Pool) THEN [server EXCEPT !.next = @ + 1]
              ELSE [server EXCEPT !.at = "pool", !.next = 1]

\* On to the next worker of the list, or past its end.
NextTask ==
    server' = IF server.next < Len(Pool) THEN [server EXCEPT !.next = @ + 1]
              ELSE [server EXCEPT !.at = "pool", !.next = 1]

\* Mutation of AwaitTask: only a cancelled task counts as ended.
AwaitCancelled ==
    /\ server.at = "await" /\ loop[Pool[server.next]] = "cancelled" /\ NextTask
    /\ UNCHANGED <<loop, cancelled, hand, clientVars, countVars, faults>>

\* await t: the exception of a failed task comes out of stop(), and of shutdown().
AwaitTask ==
    /\ server.at = "await"
    /\ loop[Pool[server.next]] \in Ended
    /\ IF loop[Pool[server.next]] = "failed"
         THEN server' = [server EXCEPT !.at = "aborted"]
         ELSE NextTask
    /\ UNCHANGED <<loop, cancelled, hand, clientVars, countVars, faults>>

\* The time limit has no action while stop() awaits a task: it cancels that
\* task once more, stop() takes the CancelledError that ends it for the task's
\* own, and goes on, from then on without a limit.

\* Mutation of StopWorker: the dead-letter producer is left open.
StopConsumer ==
    /\ server.at = "pool"
    /\ open' = [open EXCEPT ![Pool[server.next]] = @ \ {"consumer"}]
    /\ IF server.next < Len(Pool)
         THEN server' = [server EXCEPT !.next = @ + 1] /\ UNCHANGED cancelled
         ELSE NextSupervisor
    /\ UNCHANGED <<loop, hand, leaked, cut, countVars, faults>>

\* pool.stop(), one worker.stop() at a time.
StopWorker ==
    /\ server.at = "pool"
    /\ open' = [open EXCEPT ![Pool[server.next]] = {}]
    /\ IF server.next < Len(Pool)
         THEN server' = [server EXCEPT !.next = @ + 1] /\ UNCHANGED cancelled
         ELSE NextSupervisor
    /\ UNCHANGED <<loop, hand, leaked, cut, countVars, faults>>

StopWorkerFails ==
    /\ server.at = "pool"
    /\ Fault
    /\ StopCut(Pool[server.next])
    /\ cut' = cut \cup {Pool[server.next]}
    /\ server' = [server EXCEPT !.at = "aborted"]
    /\ UNCHANGED <<loop, cancelled, hand, countVars>>

\* The time limit during pool.stop(): reported, and on to the next
\* supervisor; nobody stops the rest of the pool.
StopTimesOut ==
    /\ server.at = "pool"
    /\ Fault
    /\ StopCut(Pool[server.next])
    /\ cut' = cut \cup {Pool[j] : j \in server.next..Len(Pool)}
    /\ NextSupervisor
    /\ UNCHANGED <<loop, hand, countVars>>

\* The producer, the database pool and the Redis client are closed.
CloseShared ==
    /\ server.at = "closing"
    /\ server' = [server EXCEPT !.at = "closed"]
    /\ UNCHANGED <<loop, cancelled, hand, clientVars, countVars, faults>>

Gone ==
    /\ server.at \in {"closed", "aborted"}
    /\ UNCHANGED vars

Loop(w) ==
    \/ CloseCrashed(w) \/ Wake(w) \/ Start(w) \/ StartFails(w) \/ EndCancelled(w)

Stop == AwaitTask \/ StopWorker \/ CloseShared

Next ==
    \/ \E w \in Workers :
          Loop(w) \/ Take(w) \/ Finish(w) \/ FinishFailed(w) \/ Crash(w) \/ CloseCrashedFails(w)
    \/ Shutdown \/ Stop
    \/ ShutdownFails \/ StopWorkerFails \/ StopTimesOut
    \/ Gone

Spec == Init /\ [][Next]_vars

\* Sleeps end, client calls return or raise, a cancelled task is resumed and
\* its cleanup ends.
FairSpec == Spec /\ WF_vars(Stop) /\ \A w \in Workers : WF_vars(Loop(w))

----------------------------------------------------------------------------
(* Properties.                                                             *)

\* The counters a supervisor reports tell where its loops are: a worker has
\* one failure more than restarts exactly between its crash and its restart,
\* also when the restart then fails or is cancelled.
RestartsMatchFailures ==
    \A w \in Workers :
        LET missing == failures[w] - restarts[w] IN
        /\ loop[w] \in {"running", "starting", "failed"} => missing = 0
        /\ loop[w] \in {"closing", "sleeping", "done"} => missing = 1
        /\ loop[w] = "cancelled" => missing \in {0, 1}

\* run() reads from a started consumer and can dead-letter through a started
\* producer, after any number of crashes, failed stops and restarts, until
\* its task is cancelled: pool.stop() never closes the clients of a loop that
\* goes on.
RunsOnOpenClients ==
    \A w \in Workers : At(w, "running") => open[w] = Clients

\* A client is lost only if a stop() of its own worker was cut short, by an
\* exception, by the cancellation of its task or by the time limit: whatever
\* else crashes, fails to start or is cancelled, start() never replaces a
\* client that is open.
LeaksTakeACutStop == \A lost \in leaked : lost[1] \in cut

\* A completed shutdown leaves every loop ended, and every client closed of
\* every worker no stop() of which was cut short, also of one that was between
\* crash and restart, or whose restart was cancelled half way.
CleanShutdown ==
    server.at = "closed" => \A w \in Workers :
        loop[w] \in Ended /\ (w \in cut \/ open[w] = {})

\* Once a supervisor is stopped all its loops end, even if stop() itself is
\* cut short by the exception of a task that had failed before.
StoppedLoopsEnd ==
    \A w \in Workers : Stopping(w) ~> loop[w] \in Ended

\* A shutdown never hangs: it completes or an exception ends it.
ShutdownEnds == server.at = "await" ~> server.at \in {"closed", "aborted"}

----------------------------------------------------------------------------
(* A claim of a docstring that the code does not keep.                     *)

\* supervisor.py:36-40: run() forever, restarting it on any unexpected crash.
CrashesAreRestarted ==
    \A w \in Workers : loop[w] = "closing" ~> loop[w] = "running" \/ w \in cancelled
=============================================================================
