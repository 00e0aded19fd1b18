---------------------------- MODULE WorkerCluster ----------------------------
(***************************************************************************)
(* The primary process of src/common/services/cluster.service.ts and the   *)
(* workers it forks: health checks and reports, graceful restarts, the     *)
(* monitor that replaces dead workers, scaling, and shutdown.  A timer     *)
(* fires any time after it was set; of loads, memory and error rates only  *)
(* what they lead to is kept.  drainingWorkers, which nothing reads, is    *)
(* left out, and so are statistics that are only reported.                 *)
(***************************************************************************)
EXTENDS Integers, FiniteSets

CONSTANTS
  NumCPUs, MemoryBased, EnvCap,          \* the machine
  MaxWorkers, MinWorkers,                \* MAX_WORKERS (0 for no limit), ...
  MinHealthyWorkers, MaxConcurrentRestarts, MaxRestarts,
  Nobody,          \* no worker
  MaxForks,        \* bound: workers forked, a fork beyond it throws; ids are
                   \* never used again
  MaxTroubles,     \* bound: crashes, failures, forks that throw, health
                   \* checks, and requests to restart or to scale
  MaxTimers        \* bound: forks scheduled at a time

Workers == 1..MaxForks
Lower(a, b) == IF a < b THEN a ELSE b
Greater(a, b) == IF a > b THEN a ELSE b

getOptimalWorkerCount ==
  LET limit == IF MaxWorkers > 0 THEN Lower(MaxWorkers, NumCPUs) ELSE NumCPUs
      desired == IF MaxWorkers = 0 THEN Lower(Lower(MemoryBased, EnvCap), limit)
                                   ELSE limit
  IN Lower(Greater(MinWorkers, desired), limit)

ASSUME WorkerClusterAssumption ==
  /\ {NumCPUs, MemoryBased, EnvCap, MaxWorkers, MinWorkers, MinHealthyWorkers,
      MaxConcurrentRestarts, MaxRestarts, MaxForks, MaxTroubles, MaxTimers} \subseteq Nat
  /\ Nobody \notin Workers

VARIABLES
  forked,          \* workers forked so far are 1..forked
  workers,         \* the map of workers: those whose process is alive
  balancer,        \* workers the load balancer knows
  status,          \* workerStats: a status, "none" for a worker without entry
  check,           \* health check: "sent" with its timer set, "late" without
  restart,         \* where restartWorkerGracefully is suspended
  replacement,     \* newWorker of that call
  currentlyRestarting,
  retry,           \* workers with a timer that will ask for their restart
  stopping,        \* workers whose shutdownWorker promise is not settled
  disconnected,    \* exitedAfterDisconnect
  killed,          \* SIGKILL is on its way
  terminated,      \* SIGTERM is, for want of a shutdown message
  forkTimers,      \* createWorker() scheduled by an exit or an emergency
  tickTimers,      \* createWorker() scheduled by the health monitor
  phase,           \* of the shutdown of the primary
  troubles

registry == <<forked, workers, balancer, status>>
restarts == <<restart, replacement, currentlyRestarting, retry>>
ends == <<stopping, disconnected, killed, terminated>>
timers == <<forkTimers, tickTimers>>
vars == <<registry, check, restarts, ends, timers, phase, troubles>>

Statuses == {"none", "starting", "healthy", "unhealthy", "draining"}
Healthy == {w \in Workers : status[w] = "healthy"}
Shutdown == phase # "no"
Running == phase # "exited"

Trouble ==
  /\ troubles < MaxTroubles
  /\ troubles' = troubles + 1

Init ==
  /\ forked = 0
  /\ workers = {}
  /\ balancer = {}
  /\ status = [w \in Workers |-> "none"]
  /\ check = [w \in Workers |-> "none"]
  /\ restart = [w \in Workers |-> "idle"]
  /\ replacement = [w \in Workers |-> Nobody]
  /\ currentlyRestarting = {}
  /\ retry = {}
  /\ stopping = {}
  /\ disconnected = {}
  /\ killed = {}
  /\ terminated = {}
  /\ forkTimers = getOptimalWorkerCount
  /\ tickTimers = 0
  /\ phase = "no"
  /\ troubles = 0

-----------------------------------------------------------------------------
(* Forking.                                                                *)

\* cluster.fork() and the entries of the new worker in every map.
Forks ==
  /\ ~Shutdown
  /\ forked < MaxForks
  /\ forked' = forked + 1
  /\ workers' = workers \cup {forked + 1}
  /\ balancer' = balancer \cup {forked + 1}
  /\ status' = [status EXCEPT ![forked + 1] = "starting"]
  /\ UNCHANGED troubles

\* createWorker() answers null: the primary shuts down, or the fork throws.
ForksNothing ==
  /\ \/ Shutdown /\ UNCHANGED troubles
     \/ forked = MaxForks /\ UNCHANGED troubles
     \/ ~Shutdown /\ Trouble
  /\ UNCHANGED registry

ForkTimer ==
  /\ Running
  /\ \/ forkTimers > 0 /\ forkTimers' = forkTimers - 1 /\ UNCHANGED tickTimers
     \/ tickTimers > 0 /\ tickTimers' = tickTimers - 1 /\ UNCHANGED forkTimers
  /\ Forks \/ ForksNothing
  /\ UNCHANGED <<check, restarts, ends, phase>>

\* The worker is taken for healthy: it says so in 'ready', in a report, even
\* in the one that says it has drained, or in the answer to a check, or it
\* only lived for 15 s.  None of them looks at the status it had.
BecomesHealthy(w) ==
  /\ Running /\ w \in workers
  /\ status[w] # "healthy"
  /\ status' = [status EXCEPT ![w] = "healthy"]
  /\ UNCHANGED <<forked, workers, balancer, check, restarts, ends, timers,
                 phase, troubles>>

-----------------------------------------------------------------------------
(* Graceful restart.                                                       *)

drainWorker(w, known) ==
  /\ balancer' = balancer \ {w}
  /\ status' = [known EXCEPT ![w] = "draining"]

\* Also while other restarts are under way.
BeginsRestartAnytime(w, known) ==
  /\ currentlyRestarting' = currentlyRestarting \cup {w}
  /\ restart' = [restart EXCEPT ![w] = "drain"]
  /\ drainWorker(w, known)

BeginsRestart(w, known) ==
  /\ Cardinality(currentlyRestarting) < MaxConcurrentRestarts
  /\ currentlyRestarting' = currentlyRestarting \cup {w}
  /\ restart' = [restart EXCEPT ![w] = "drain"]
  /\ drainWorker(w, known)

\* The request is dropped.
Dropped(w, pending) == pending
\* setTimeout(restartWorkerGracefully, 5000)
Postponed(w, pending) == pending \cup {w}

\* restartWorkerGracefully(w) when pending are the workers with a retry timer
\* and known the statistics.
RestartWorkerGracefully(w, pending, known) ==
  /\ \/ /\ Shutdown \/ w \notin workers \/ w \in currentlyRestarting
        /\ retry' = pending
        /\ status' = known
        /\ UNCHANGED <<balancer, restart, currentlyRestarting>>
     \/ /\ ~Shutdown /\ w \in workers \ currentlyRestarting
        /\ Cardinality(currentlyRestarting) >= MaxConcurrentRestarts
        /\ retry' = Postponed(w, pending)
        /\ status' = known
        /\ UNCHANGED <<balancer, restart, currentlyRestarting>>
     \/ /\ ~Shutdown /\ w \in workers \ currentlyRestarting
        /\ BeginsRestart(w, known)
        /\ retry' = pending
  /\ UNCHANGED <<forked, workers, replacement>>

\* A message restart-request, a fatal worker-error, restartAllWorkers,
\* scaleToWorkers or scaleDownWorker.
RestartRequest(w) ==
  /\ Running /\ w \in workers
  /\ Trouble
  /\ RestartWorkerGracefully(w, retry, status)
  /\ UNCHANGED <<check, ends, timers, phase>>

RetryTimer(w) ==
  /\ Running /\ w \in retry
  /\ RestartWorkerGracefully(w, retry \ {w}, status)
  /\ UNCHANGED <<check, ends, timers, phase, troubles>>

\* The worker that could not be replaced is left alone.
LetLive(w) == UNCHANGED killed
Kill(w) == killed' = killed \cup ({w} \cap workers)

\* The way out of restartWorkerGracefully.
EndsRestart(w) ==
  /\ restart' = [restart EXCEPT ![w] = "idle"]
  /\ replacement' = [replacement EXCEPT ![w] = Nobody]
  /\ currentlyRestarting' = currentlyRestarting \ {w}
  /\ UNCHANGED retry

\* The load fell, or drainTimeout: the replacement is forked.
RestartDrained(w) ==
  /\ Running /\ restart[w] = "drain"
  /\ \/ /\ Forks
        /\ restart' = [restart EXCEPT ![w] = "ready"]
        /\ replacement' = [replacement EXCEPT ![w] = forked + 1]
        /\ UNCHANGED <<currentlyRestarting, retry, killed>>
     \/ ForksNothing /\ Kill(w) /\ EndsRestart(w)
  /\ UNCHANGED <<check, stopping, disconnected, terminated, timers, phase>>

\* shutdownWorker of each of these: it sends the message and waits, or, when
\* that throws, sends SIGTERM and does not wait.
shutdownWorkers(ws) ==
  \/ /\ stopping' = stopping \cup ws
     /\ UNCHANGED <<terminated, troubles>>
  \/ \E w \in ws :
       /\ Trouble
       /\ stopping' = stopping \cup (ws \ {w})
       /\ terminated' = terminated \cup {w}

\* waitForWorkerReady sees the replacement healthy: shutdownWorker(w).
RestartReady(w) ==
  /\ Running /\ restart[w] = "ready"
  /\ replacement[w] \in Healthy
  /\ \/ /\ w \in workers
        /\ shutdownWorkers({w})
        /\ restart' = [restart EXCEPT ![w] = "stop"]
        /\ UNCHANGED <<replacement, currentlyRestarting, retry>>
     \/ /\ w \notin workers
        /\ EndsRestart(w)
        /\ UNCHANGED <<stopping, terminated, troubles>>
  /\ UNCHANGED <<registry, check, disconnected, killed, timers, phase>>

\* waitForWorkerReady gives up.
RestartNotReady(w) ==
  /\ Running /\ restart[w] = "ready"
  /\ replacement[w] \notin Healthy
  /\ Kill(w)
  /\ EndsRestart(w)
  /\ UNCHANGED <<registry, check, stopping, disconnected, terminated, timers,
                 phase, troubles>>

RestartStopped(w) ==
  /\ Running /\ restart[w] = "stop"
  /\ w \notin stopping
  /\ EndsRestart(w)
  /\ UNCHANGED <<registry, check, ends, timers, phase, troubles>>

\* shutdownWorker: disconnect() after 1 s, and the worker closes its channel ...
Disconnect(w) ==
  /\ Running /\ w \in stopping
  /\ stopping' = stopping \ {w}
  /\ disconnected' = disconnected \cup {w}
  /\ UNCHANGED <<registry, check, restarts, killed, terminated, timers, phase,
                 troubles>>

\* Only when the worker has disconnected already.
StopTimeoutCleared(w) ==
  /\ Running /\ w \in stopping \cap disconnected
  /\ stopping' = stopping \ {w}
  /\ killed' = killed \cup {w}
  /\ UNCHANGED <<registry, check, restarts, disconnected, terminated, timers, phase,
                 troubles>>

\* ... or it does not, and gets SIGKILL after shutdownTimeout; disconnect() has
\* set exitedAfterDisconnect by then.
StopTimeout(w) ==
  /\ Running /\ w \in stopping
  /\ stopping' = stopping \ {w}
  /\ disconnected' = disconnected \cup {w}
  /\ killed' = killed \cup {w}
  /\ UNCHANGED <<registry, check, restarts, terminated, timers, phase, troubles>>

-----------------------------------------------------------------------------
(* Exits.                                                                  *)

\* Ids are never used again, so no worker has an earlier restart on record.
shouldAutoRestart == MaxRestarts > 0

cleanupWorker(w) ==
  /\ workers' = workers \ {w}
  /\ balancer' = balancer \ {w}

\* handleWorkerExit and the handler of worker-died.  A worker told to stop
\* that has no connections exits before the primary disconnects it.
HandleWorkerExit(w) ==
  /\ cleanupWorker(w)
  /\ status' = [status EXCEPT ![w] = "none"]
  /\ check' = [check EXCEPT ![w] = "none"]
  /\ currentlyRestarting' = currentlyRestarting \ {w}
  /\ retry' = retry \ {w}
  /\ stopping' = stopping \ {w}
  /\ disconnected' = disconnected \ {w}
  /\ killed' = killed \ {w}
  /\ terminated' = terminated \ {w}
  /\ forkTimers' = IF w \notin disconnected /\ ~Shutdown /\ shouldAutoRestart
                   THEN forkTimers + 1 ELSE forkTimers
  /\ UNCHANGED <<forked, restart, replacement, tickTimers, phase>>

Exit(w) ==
  /\ Running
  /\ w \in workers \cap (killed \cup disconnected \cup stopping \cup terminated)
  /\ forkTimers < MaxTimers
  /\ HandleWorkerExit(w)
  /\ UNCHANGED troubles

Crash(w) ==
  /\ Running /\ w \in workers
  /\ forkTimers < MaxTimers
  /\ Trouble
  /\ HandleWorkerExit(w)

-----------------------------------------------------------------------------
(* Health checks and reports.                                              *)

\* The interval ends with the connection.
SendCheck(w) ==
  /\ ~Shutdown /\ w \in workers \ disconnected
  /\ status[w] # "starting" /\ check[w] # "sent"
  /\ Trouble
  /\ check' = [check EXCEPT ![w] = "sent"]
  /\ UNCHANGED <<registry, restarts, ends, timers, phase>>

\* handleHealthResponse: an answer to a check that has timed out is ignored.
HealthResponse(w) ==
  /\ Running /\ w \in workers /\ check[w] # "none"
  /\ check' = [check EXCEPT ![w] = "none"]
  /\ UNCHANGED <<registry, restarts, ends, timers, phase, troubles>>

HealthTimeout(w) ==
  /\ Running /\ check[w] = "sent"
  /\ check' = [check EXCEPT ![w] = "late"]
  /\ RestartWorkerGracefully(w, retry, status)
  /\ UNCHANGED <<ends, timers, phase, troubles>>

\* 'error' on the channel or a check that cannot be sent: handleWorkerFailure.
WorkerFailure(w) ==
  /\ Running /\ w \in workers
  /\ Trouble
  /\ status' = [status EXCEPT ![w] = "unhealthy"]
  /\ retry' = retry \cup {w}
  /\ UNCHANGED <<forked, workers, balancer, check, restart,
                 replacement, currentlyRestarting, ends, timers, phase>>

\* worker-stats on their way when the worker died: a new entry, for good.
GhostReport(w) ==
  /\ Running /\ w \in 1..forked \ workers
  /\ Trouble
  /\ status' = [status EXCEPT ![w] = "healthy"]
  /\ UNCHANGED <<forked, workers, balancer, check, restarts, ends, timers, phase>>

\* worker-stats that look bad; with critical memory use the primary restarts
\* the worker.
BadReport(w) ==
  /\ Running /\ w \in workers
  /\ Trouble
  /\ LET known == [status EXCEPT ![w] = "unhealthy"]
     IN \/ RestartWorkerGracefully(w, retry, known)
        \/ /\ status' = known
           /\ UNCHANGED <<forked, workers, balancer, restarts>>
  /\ UNCHANGED <<check, ends, timers, phase>>

-----------------------------------------------------------------------------
(* The monitor, scaling.                                                   *)

NoNeed == 0
Needed == Greater(0, getOptimalWorkerCount - Cardinality(workers))
HalfOptimal == (getOptimalWorkerCount + 1) \div 2

\* handleClusterDegradation.
EmergencyForks ==
  IF workers = {} \/ 2 * Cardinality(Healthy) < Cardinality(workers)
  THEN Greater(0, Greater(MinHealthyWorkers, HalfOptimal) - Cardinality(Healthy))
  ELSE 0

\* Every 15 s; the forks it schedules come before the next tick, unless there
\* are eight of them.
MonitorTick ==
  /\ ~Shutdown /\ tickTimers = 0
  /\ forkTimers + EmergencyForks <= MaxTimers
  /\ Needed > 0 \/ EmergencyForks > 0
  /\ tickTimers' = Needed
  /\ forkTimers' = forkTimers + EmergencyForks
  /\ UNCHANGED <<registry, check, restarts, ends, phase, troubles>>

\* The interval of startAutoScaling with a high load.
ScaleUp ==
  /\ ~Shutdown
  /\ Cardinality(Healthy) < getOptimalWorkerCount
  /\ Cardinality(workers) < MaxWorkers
  /\ Trouble
  /\ UNCHANGED <<registry, check, restarts, ends, tickTimers, phase>>
  /\ forkTimers < MaxTimers /\ forkTimers' = forkTimers + 1

\* scaleToWorkers, to more than there are; to fewer it asks for restarts.
ScaleToMore ==
  /\ ~Shutdown
  /\ Trouble
  /\ \E n \in 1..MaxTimers - forkTimers : forkTimers' = forkTimers + n
  /\ UNCHANGED <<registry, check, restarts, ends, tickTimers, phase>>

\* With a low load the idlest healthy worker is restarted, if it is a worker.
ScaleDown(w) ==
  /\ ~Shutdown
  /\ w \in Healthy
  /\ Cardinality(Healthy) > Greater(MinWorkers, MinHealthyWorkers)
  /\ Trouble
  /\ RestartWorkerGracefully(w, retry, status)
  /\ UNCHANGED <<check, ends, timers, phase>>

-----------------------------------------------------------------------------
(* Shutdown of the primary.                                                *)

\* A signal: the intervals and timers of the checks are cleared, every worker
\* is drained.
BeginShutdown ==
  /\ ~Shutdown
  /\ phase' = "draining"
  /\ balancer' = balancer \ workers
  /\ status' = [w \in Workers |-> IF w \in workers THEN "draining" ELSE status[w]]
  /\ check' = [w \in Workers |-> "none"]
  /\ UNCHANGED <<forked, workers, restarts, ends, timers, troubles>>

\* Promise.allSettled of the drains, which end by drainTimeout at the latest.
ShutdownStops ==
  /\ phase = "draining"
  /\ phase' = "stopping"
  /\ shutdownWorkers(workers)
  /\ UNCHANGED <<registry, check, restarts, disconnected, killed, timers>>

ShutdownExits ==
  /\ phase = "stopping" /\ stopping = {}
  /\ phase' = "exited"
  /\ UNCHANGED <<registry, check, restarts, ends, timers, troubles>>

-----------------------------------------------------------------------------
\* By the type of the message; a fatal worker-error counts as a request.
handleWorkerMessage(w) ==
  BecomesHealthy(w) \/ HealthResponse(w) \/ BadReport(w) \/ RestartRequest(w)

Next ==
  \/ ForkTimer \/ MonitorTick \/ ScaleUp \/ ScaleToMore
  \/ BeginShutdown \/ ShutdownStops \/ ShutdownExits
  \/ \E w \in Workers :
       \/ handleWorkerMessage(w) \/ RetryTimer(w)
       \/ RestartDrained(w) \/ RestartReady(w) \/ RestartNotReady(w)
       \/ RestartStopped(w) \/ Disconnect(w) \/ StopTimeout(w)
       \/ Exit(w) \/ Crash(w)
       \/ SendCheck(w) \/ HealthTimeout(w)
       \/ WorkerFailure(w) \/ GhostReport(w)
       \/ ScaleDown(w)

Spec == Init /\ [][Next]_vars

\* What happens by itself to a worker: timers fire, and a process ends that was
\* killed or has disconnected.  A worker may hang: it need not answer,
\* disconnect or obey, SIGTERM included.
Due(w) ==
  \/ status[w] = "starting" /\ BecomesHealthy(w)
  \/ RetryTimer(w) \/ RestartDrained(w) \/ RestartReady(w)
  \/ RestartNotReady(w) \/ RestartStopped(w) \/ StopTimeout(w)
  \/ w \in killed \cup disconnected /\ Exit(w)

\* The event loop comes round to everything that is due.
Fairness ==
  /\ WF_vars(ForkTimer) /\ WF_vars(MonitorTick)
  /\ WF_vars(ShutdownStops \/ ShutdownExits)
  /\ \A w \in Workers : WF_vars(Due(w))

FairSpec == Spec /\ Fairness

-----------------------------------------------------------------------------
(* Properties.                                                             *)

TypeOK ==
  /\ forked \in 0..MaxForks
  /\ workers \subseteq 1..forked
  /\ balancer \subseteq workers
  /\ status \in [Workers -> Statuses]
  /\ \A w \in workers : status[w] # "none"
  /\ check \in [Workers -> {"none", "sent", "late"}]
  /\ \A w \in Workers : check[w] # "none" => w \in workers
  /\ restart \in [Workers -> {"idle", "drain", "ready", "stop"}]
  /\ replacement \in [Workers -> Workers \cup {Nobody}]
  /\ currentlyRestarting \subseteq workers
  /\ retry \subseteq workers
  /\ stopping \subseteq workers
  /\ disconnected \subseteq workers
  /\ killed \subseteq workers
  /\ terminated \subseteq workers
  /\ forkTimers \in Nat
  /\ tickTimers \in Nat
  /\ phase \in {"no", "draining", "stopping", "exited"}
  /\ troubles \in 0..MaxTroubles

\* Never more than maxConcurrentRestarts living workers are in the middle of a
\* graceful restart, although every exit takes its worker off
\* currentlyRestarting while the call goes on.
RestartsBounded ==
  /\ TypeOK
  /\ Cardinality({w \in workers : restart[w] # "idle"}) <= MaxConcurrentRestarts

\* Every living worker gets requests, or is being restarted, or is about to
\* end, or the whole cluster shuts down: no path through a restart that fails
\* half way leaves a process that nobody uses and nobody ends.
NoWorkerForgotten ==
  \A w \in workers :
    \/ w \in balancer
    \/ restart[w] # "idle"
    \/ w \in killed \cup disconnected \cup terminated
    \/ Shutdown

\* A worker that drains gets no requests, and neither does one that was told
\* to stop; reports that call it healthy again change nothing.
DrainedGetsNothing ==
  \A w \in balancer : restart[w] = "idle" /\ w \notin stopping

\* The balancer has the workers that should get requests, and no others.
BalancerRight == NoWorkerForgotten /\ DrainedGetsNothing

\* The cluster comes back to its number of workers after crashes, restarts and
\* failed forks, unless the primary shuts down or the bound is met.
Recovers ==
  Cardinality(workers) < getOptimalWorkerCount ~>
    \/ Cardinality(workers) >= getOptimalWorkerCount
    \/ Shutdown
    \/ forked = MaxForks

\* A worker that misses a health check is gone in the end, also when other
\* restarts postpone its own and when its answer comes after all.  Only one that
\* could not be sent the shutdown message may stay: it gets SIGTERM, which a
\* process that hangs does not handle.
HungWorkerIsReplaced ==
  \A w \in Workers : check[w] = "late" ~> w \notin workers \/ w \in terminated \/ Shutdown

\* A shutdown ends, whatever was under way when it began.
ShutdownEnds == Shutdown ~> phase = "exited"
=============================================================================
