-------------------------- MODULE Processes_proofs --------------------------
(***************************************************************************)
(* Theorems about the processes, one part each: WorkerCluster, for any      *)
(* number of forks, crashes and requests and any configuration (how many   *)
(* workers are restarted at a time, and which workers get requests);       *)
(* LoadBalancer, for any number of workers, loads reported and weights     *)
(* (how long a round robin and a weighted one pass a live worker over);    *)
(* WorkerProcess, for any finite number of connections and any calls and   *)
(* messages (what a worker reports when it drains, what it cuts short when *)
(* it exits, and how its calls of getStats settle); Server, for any number *)
(* of requests, starts and outages (what listens is connected, the cache   *)
(* is optional, and what can end the process).                             *)
(***************************************************************************)
EXTENDS WorkerCluster, LoadBalancer, WorkerProcess, Server, FiniteSetTheorems,
        WellFoundedInduction, TLAPS

-----------------------------------------------------------------------------
(* The cluster of workers: the inductive invariant.                        *)

\* The part of TypeOK about the workers.
Registered ==
  /\ forked \in 0..MaxForks
  /\ workers \subseteq 1..forked
  /\ balancer \subseteq workers
  /\ status \in [Workers -> Statuses]
  /\ \A w \in workers : status[w] # "none"
  /\ restart \in [Workers -> {"idle", "drain", "ready", "stop"}]
  /\ replacement \in [Workers -> Workers \cup {Nobody}]
  /\ currentlyRestarting \subseteq workers
  /\ retry \subseteq workers
  /\ stopping \subseteq workers
  /\ disconnected \subseteq workers
  /\ killed \subseteq workers
  /\ terminated \subseteq workers
  /\ phase \in {"no", "draining", "stopping", "exited"}

\* The part about checks, timers and counters.
Timed ==
  /\ check \in [Workers -> {"none", "sent", "late"}]
  /\ \A w \in Workers : check[w] # "none" => w \in workers
  /\ forkTimers \in Nat
  /\ tickTimers \in Nat
  /\ troubles \in 0..MaxTroubles

\* currentlyRestarting holds the living workers whose restart is under way, and
\* ids that are still to come have none: so a restart that outlives its worker
\* is not taken for one of another worker.
RestartsOnRecord ==
  /\ \A w \in workers : restart[w] # "idle" <=> w \in currentlyRestarting
  /\ \A w \in Workers : w > forked => restart[w] = "idle"

RestartsCounted ==
  /\ IsFiniteSet(currentlyRestarting)
  /\ Cardinality(currentlyRestarting) <= MaxConcurrentRestarts

\* A worker that waits to be stopped will end, whatever settles the wait.
StopsFollow ==
  \A w \in workers : restart[w] = "stop" => w \in stopping \cup disconnected \cup killed \cup terminated

NobodyInShutdown == Shutdown => balancer = {}

Placed ==
  RestartsOnRecord /\ StopsFollow /\ NoWorkerForgotten /\ DrainedGetsNothing /\ NobodyInShutdown

Inv == Registered /\ Timed /\ RestartsCounted /\ Placed

LEMMA Numbers ==
  /\ MaxForks \in Nat /\ MaxTroubles \in Nat /\ MaxConcurrentRestarts \in Nat
  /\ MaxTimers \in Nat /\ getOptimalWorkerCount \in Nat /\ MinHealthyWorkers \in Nat
BY WorkerClusterAssumption, SMT DEF WorkerClusterAssumption, getOptimalWorkerCount, Lower, Greater

LEMMA SetsFinite ==
  ASSUME Registered
  PROVE  /\ IsFiniteSet(workers) /\ Cardinality(workers) \in Nat
         /\ IsFiniteSet(Healthy) /\ Cardinality(Healthy) \in Nat
<1>1. IsFiniteSet(Workers) /\ IsFiniteSet(1..forked)
  BY Numbers, FS_Interval DEF Workers, Registered
<1>2. workers \subseteq 1..forked /\ Healthy \subseteq Workers
  BY DEF Registered, Healthy
<1>3. QED
  BY <1>1, <1>2, FS_Subset, FS_CardinalityType

LEMMA InitHolds == ASSUME Init PROVE Inv
<1>1. Registered /\ Timed /\ Placed
  BY Numbers, SMT DEF Init, Registered, Timed, Placed, RestartsOnRecord, StopsFollow,
     NoWorkerForgotten, DrainedGetsNothing, NobodyInShutdown, Statuses, Shutdown
<1>2. RestartsCounted
  BY Numbers, FS_EmptySet DEF Init, RestartsCounted
<1>3. QED
  BY <1>1, <1>2 DEF Inv

-----------------------------------------------------------------------------
(* What several actions do.                                                *)

LEMMA SameCounted ==
  ASSUME RestartsCounted, currentlyRestarting' = currentlyRestarting
  PROVE  RestartsCounted'
BY DEF RestartsCounted

LEMMA FewerCounted ==
  ASSUME RestartsCounted, NEW w, currentlyRestarting' = currentlyRestarting \ {w}
  PROVE  RestartsCounted'
<1>1. IsFiniteSet(currentlyRestarting') /\ Cardinality(currentlyRestarting') <= Cardinality(currentlyRestarting)
  BY FS_Subset DEF RestartsCounted
<1>2. QED
  BY <1>1, FS_CardinalityType, Numbers, SMT DEF RestartsCounted

LEMMA MoreCounted ==
  ASSUME RestartsCounted, NEW w, Cardinality(currentlyRestarting) < MaxConcurrentRestarts,
         currentlyRestarting' = currentlyRestarting \cup {w}
  PROVE  RestartsCounted'
<1>1. /\ IsFiniteSet(currentlyRestarting')
      /\ Cardinality(currentlyRestarting') \in {Cardinality(currentlyRestarting),
                                                Cardinality(currentlyRestarting) + 1}
  BY FS_AddElement DEF RestartsCounted
<1>2. QED
  BY <1>1, FS_CardinalityType, Numbers, SMT DEF RestartsCounted

\* The checks do not depend on restarts.
LEMMA SameTimed ==
  ASSUME Timed, UNCHANGED <<check, timers>>, troubles' = troubles \/ Trouble,
         workers \subseteq workers'
  PROVE  Timed'
BY Numbers, SMT DEF Timed, timers, Trouble

\* restartWorkerGracefully of any worker, living or not.
LEMMA AskedRestart ==
  ASSUME Registered, RestartsCounted, Placed, NEW w \in Workers,
         NEW pending, pending \subseteq workers,
         NEW known, known \in [Workers -> Statuses], \A v \in workers : known[v] # "none",
         RestartWorkerGracefully(w, pending, known),
         UNCHANGED <<ends, phase>>
  PROVE  Registered' /\ RestartsCounted' /\ Placed'
<1> USE DEF RestartWorkerGracefully, ends
<1>1. CASE /\ UNCHANGED <<balancer, restart, currentlyRestarting>>
           /\ retry' \subseteq workers /\ status' = known
  <2>1. Registered'
    BY <1>1, SMT DEF Registered
  <2>2. Placed'
    BY <1>1, SMT DEF Placed, RestartsOnRecord, StopsFollow, NoWorkerForgotten,
       DrainedGetsNothing, NobodyInShutdown, Shutdown
  <2>3. QED
    BY <1>1, <2>1, <2>2, SameCounted
<1>2. CASE w \in workers \ currentlyRestarting /\ BeginsRestart(w, known) /\ retry' = pending
  <2> USE DEF BeginsRestart, drainWorker
  <2>1. Registered'
    BY <1>2, SMT DEF Registered, Statuses
  <2>2. Placed'
    BY <1>2, SMT DEF Registered, Placed, RestartsOnRecord, StopsFollow, NoWorkerForgotten,
       DrainedGetsNothing, NobodyInShutdown, Shutdown
  <2>3. QED
    BY <1>2, <2>1, <2>2, MoreCounted
<1>3. CASE w \in workers /\ retry' = Postponed(w, pending) /\ status' = known
           /\ UNCHANGED <<balancer, restart, currentlyRestarting>>
  BY <1>1, <1>3 DEF Postponed
<1>4. QED
  BY <1>1, <1>2, <1>3

\* The end of a restart of a worker that is about to end, or has ended.
LEMMA EndedRestart ==
  ASSUME Registered, RestartsCounted, Placed, NEW w \in Workers, EndsRestart(w),
         UNCHANGED <<registry, stopping, disconnected, terminated, phase>>,
         killed \subseteq killed', killed' \subseteq workers,
         w \in workers => w \in killed' \cup disconnected \cup terminated \/ Shutdown
  PROVE  Registered' /\ RestartsCounted' /\ Placed'
<1> USE DEF EndsRestart, registry
<1>1. Registered'
  <2>1. /\ restart' \in [Workers -> {"idle", "drain", "ready", "stop"}]
        /\ replacement' \in [Workers -> Workers \cup {Nobody}]
        /\ status' = status /\ workers' = workers /\ balancer' = balancer /\ forked' = forked
    BY DEF Registered
  <2>2. /\ currentlyRestarting' \subseteq workers /\ retry' = retry /\ stopping' = stopping
        /\ disconnected' = disconnected /\ terminated' = terminated /\ phase' = phase
    BY DEF Registered
  <2>3. QED
    BY <2>1, <2>2 DEF Registered
<1>2. Placed'
  BY SMT DEF Registered, Placed, RestartsOnRecord, StopsFollow, NoWorkerForgotten,
     DrainedGetsNothing, NobodyInShutdown, Shutdown
<1>3. QED
  BY <1>1, <1>2, FewerCounted

\* A new worker.
LEMMA Forked ==
  ASSUME Registered, Placed, Forks,
         \A v \in Workers : restart'[v] # restart[v] => 
            restart[v] = "drain" /\ restart'[v] = "ready",
         restart' \in [Workers -> {"idle", "drain", "ready", "stop"}],
         replacement' \in [Workers -> Workers \cup {Nobody}],
         UNCHANGED <<currentlyRestarting, retry, ends, phase>>
  PROVE  Registered' /\ Placed'
<1> USE DEF Forks, ends
<1>0. forked + 1 \in Workers /\ forked + 1 \notin workers /\ restart[forked + 1] = "idle"
  BY Numbers, SMT DEF Registered, Workers, Placed, RestartsOnRecord
<1>1. Registered'
  <2>1. /\ forked' \in 0..MaxForks /\ workers' \subseteq 1..forked'
        /\ balancer' \subseteq workers' /\ workers \subseteq workers'
    BY <1>0, Numbers, SMT DEF Registered
  <2>2. status' \in [Workers -> Statuses]
    BY <1>0 DEF Registered, Statuses
  <2>3. \A w \in workers' : status'[w] # "none"
    BY <1>0, Numbers, SMT DEF Registered, Workers
  <2>4. /\ currentlyRestarting' = currentlyRestarting /\ retry' = retry /\ stopping' = stopping
        /\ disconnected' = disconnected /\ killed' = killed /\ phase' = phase
        /\ terminated' = terminated
    OBVIOUS
  <2>5. QED
    BY <2>1, <2>2, <2>3, <2>4 DEF Registered
<1>2. RestartsOnRecord'
  BY <1>0, Numbers, SMT DEF Registered, Placed, RestartsOnRecord, Workers
<1>a. \A v \in workers' : v \in workers \/ v = forked + 1
  OBVIOUS
<1>b. \A v \in workers : v \in Workers
  BY Numbers, SMT DEF Registered, Workers
<1>c. restart'[forked + 1] = "idle" /\ forked + 1 \in balancer' /\ forked + 1 \notin stopping
  BY <1>0, SMT DEF Registered
<1>3. StopsFollow' /\ NoWorkerForgotten'
  <2>1. \A v \in workers : restart'[v] = "stop" => restart[v] = "stop"
    BY <1>b, SMT
  <2>2. \A v \in workers : restart[v] # "idle" => restart'[v] # "idle"
    BY <1>b, SMT
  <2>3. StopsFollow'
    BY <1>a, <1>c, <2>1, SMT DEF Placed, StopsFollow
  <2>4. NoWorkerForgotten'
    BY <1>a, <1>c, <2>2, SMT DEF Placed, NoWorkerForgotten
  <2>5. QED
    BY <2>3, <2>4
<1>4. DrainedGetsNothing' /\ NobodyInShutdown'
  <2>1. \A v \in balancer : restart'[v] = "idle"
    BY <1>b, SMT DEF Registered, Placed, DrainedGetsNothing
  <2>2. DrainedGetsNothing'
    BY <1>c, <2>1, SMT DEF Placed, DrainedGetsNothing
  <2>3. QED
    BY <2>2 DEF NobodyInShutdown, Shutdown
<1>5. QED
  BY <1>1, <1>2, <1>3, <1>4 DEF Placed

\* An exit, for whatever reason.
LEMMA Exited ==
  ASSUME Inv, NEW w \in Workers, HandleWorkerExit(w), troubles' = troubles \/ Trouble
  PROVE  Inv'
<1> USE DEF HandleWorkerExit, cleanupWorker
<1>1. Registered'
  <2>1. /\ workers' = workers \ {w} /\ balancer' = balancer \ {w} /\ forked' = forked
        /\ stopping' = stopping \ {w} /\ disconnected' = disconnected \ {w}
        /\ killed' = killed \ {w} /\ retry' = retry \ {w}
        /\ terminated' = terminated \ {w}
        /\ currentlyRestarting' = currentlyRestarting \ {w}
        /\ restart' = restart /\ replacement' = replacement /\ phase' = phase
    OBVIOUS
  <2>2. status' \in [Workers -> Statuses]
    BY DEF Inv, Registered, Statuses
  <2>3. \A v \in workers' : status'[v] # "none"
    BY SMT DEF Inv, Registered
  <2>4. QED
    BY <2>1, <2>2, <2>3 DEF Inv, Registered
<1>2. Timed'
  BY Numbers, SMT DEF Inv, Timed, Trouble
<1>3. RestartsOnRecord' /\ StopsFollow'
  BY SMT DEF Inv, Registered, Placed, RestartsOnRecord, StopsFollow
<1>4. NoWorkerForgotten' /\ DrainedGetsNothing' /\ NobodyInShutdown'
  BY SMT DEF Inv, Placed, NoWorkerForgotten, DrainedGetsNothing, NobodyInShutdown, Shutdown
<1>5. RestartsCounted'
  BY FewerCounted DEF Inv
<1>6. QED
  BY <1>1, <1>2, <1>3, <1>4, <1>5 DEF Inv, Placed

\* Only checks, timers and counters change.
LEMMA StillPlaced ==
  ASSUME Registered, RestartsCounted, Placed, UNCHANGED <<registry, restarts, ends, phase>>
  PROVE  Registered' /\ RestartsCounted' /\ Placed'
BY DEF registry, restarts, ends, Registered, RestartsCounted, Placed, RestartsOnRecord,
       StopsFollow, NoWorkerForgotten, DrainedGetsNothing, NobodyInShutdown, Shutdown

\* A status changes, to one that an entry can have.
LEMMA StatusChanged ==
  ASSUME Registered, RestartsCounted, Placed, NEW w \in Workers,
         NEW s \in Statuses \ {"none"}, status' = [status EXCEPT ![w] = s],
         retry' \subseteq workers,
         UNCHANGED <<forked, workers, balancer, restart, replacement, currentlyRestarting,
                     ends, phase>>
  PROVE  Registered' /\ RestartsCounted' /\ Placed'
<1> USE DEF ends
<1>1. status' \in [Workers -> Statuses]
  BY DEF Registered
<1>2. \A v \in workers : status'[v] # "none"
  BY SMT DEF Registered
<1>3. Registered'
  BY <1>1, <1>2 DEF Registered
<1>4. Placed'
  BY DEF Placed, RestartsOnRecord, StopsFollow, NoWorkerForgotten, DrainedGetsNothing,
         NobodyInShutdown, Shutdown
<1>5. QED
  BY <1>3, <1>4, SameCounted

-----------------------------------------------------------------------------
(* Every action.                                                           *)

LEMMA ForkTimerHolds == ASSUME Inv, ForkTimer PROVE Inv'
<1> USE DEF ForkTimer, restarts, ends
<1>1. CASE Forks
  <2>1. Registered' /\ Placed'
    BY <1>1, Forked DEF Inv, Registered
  <2>2. Timed'
    BY <1>1, Numbers, SMT DEF Forks, Inv, Timed
  <2>3. QED
    BY <2>1, <2>2, SameCounted DEF Inv
<1>2. CASE ForksNothing
  <2>1. Registered' /\ RestartsCounted' /\ Placed'
    BY <1>2, StillPlaced DEF ForksNothing, Inv
  <2>2. Timed'
    BY <1>2, Numbers, SMT DEF ForksNothing, Trouble, registry, Inv, Timed
  <2>3. QED
    BY <2>1, <2>2 DEF Inv
<1>3. QED
  BY <1>1, <1>2

LEMMA BecomesHealthyHolds ==
  ASSUME Inv, NEW w \in Workers, BecomesHealthy(w)
  PROVE  Inv'
<1>1. Registered' /\ RestartsCounted' /\ Placed'
  BY StatusChanged DEF BecomesHealthy, restarts, Inv, Registered, Statuses
<1>2. QED
  BY <1>1, SameTimed DEF BecomesHealthy, Inv

LEMMA RequestHolds ==
  ASSUME Inv, NEW w \in Workers, RestartRequest(w) \/ RetryTimer(w)
  PROVE  Inv'
<1>1. workers' = workers
  BY DEF RestartRequest, RetryTimer, RestartWorkerGracefully
<1>2. Registered' /\ RestartsCounted' /\ Placed'
  BY AskedRestart DEF RestartRequest, RetryTimer, Inv, Registered
<1>3. QED
  BY <1>1, <1>2, SameTimed DEF RestartRequest, RetryTimer, Inv

LEMMA ScaleDownHolds ==
  ASSUME Inv, NEW w \in Workers, ScaleDown(w)
  PROVE  Inv'
<1>1. workers' = workers
  BY DEF ScaleDown, RestartWorkerGracefully
<1>2. Registered' /\ RestartsCounted' /\ Placed'
  BY AskedRestart DEF ScaleDown, Inv, Registered
<1>3. QED
  BY <1>1, <1>2, SameTimed DEF ScaleDown, Inv

LEMMA BadReportHolds ==
  ASSUME Inv, NEW w \in Workers, BadReport(w)
  PROVE  Inv'
<1> DEFINE known == [status EXCEPT ![w] = "unhealthy"]
<1>1. known \in [Workers -> Statuses] /\ \A v \in workers : known[v] # "none"
  <2>1. known \in [Workers -> Statuses]
    BY DEF Inv, Registered, Statuses
  <2>2. \A v \in workers : known[v] # "none"
    BY SMT DEF Inv, Registered
  <2>3. QED
    BY <2>1, <2>2
<1>2. CASE RestartWorkerGracefully(w, retry, known)
  <2>1. workers' = workers
    BY <1>2 DEF RestartWorkerGracefully
  <2>2. Registered' /\ RestartsCounted' /\ Placed'
    BY <1>1, <1>2, AskedRestart DEF BadReport, Inv, Registered
  <2>3. QED
    BY <2>1, <2>2, SameTimed DEF BadReport, Inv
<1>3. CASE status' = known /\ UNCHANGED <<forked, workers, balancer, restarts>>
  <2>1. Registered' /\ RestartsCounted' /\ Placed'
    BY <1>3, StatusChanged DEF BadReport, restarts, Inv, Registered, Statuses
  <2>2. QED
    BY <1>3, <2>1, SameTimed DEF BadReport, Inv
<1>4. QED
  BY <1>2, <1>3 DEF BadReport

\* The check that timed out belongs to a living worker.
LEMMA HealthTimeoutHolds ==
  ASSUME Inv, NEW w \in Workers, HealthTimeout(w)
  PROVE  Inv'
<1>1. workers' = workers
  BY DEF HealthTimeout, RestartWorkerGracefully
<1>2. Registered' /\ RestartsCounted' /\ Placed'
  BY AskedRestart DEF HealthTimeout, Inv, Registered
<1>3. Timed'
  BY <1>1, SMT DEF HealthTimeout, timers, Inv, Timed
<1>4. QED
  BY <1>2, <1>3 DEF Inv

LEMMA CheckHolds ==
  ASSUME Inv, NEW w \in Workers, SendCheck(w) \/ HealthResponse(w)
  PROVE  Inv'
<1>1. Registered' /\ RestartsCounted' /\ Placed'
  BY StillPlaced DEF SendCheck, HealthResponse, Inv
<1>2. Timed'
  BY Numbers, SMT DEF SendCheck, HealthResponse, Trouble, registry, timers, Inv, Timed
<1>3. QED
  BY <1>1, <1>2 DEF Inv

LEMMA FailureHolds ==
  ASSUME Inv, NEW w \in Workers, WorkerFailure(w) \/ GhostReport(w)
  PROVE  Inv'
<1>1. retry' \subseteq workers
  BY DEF WorkerFailure, GhostReport, restarts, Inv, Registered
<1>2. Registered' /\ RestartsCounted' /\ Placed'
  BY <1>1, StatusChanged DEF WorkerFailure, GhostReport, restarts, Inv, Statuses
<1>3. QED
  BY <1>2, SameTimed DEF WorkerFailure, GhostReport, Inv

LEMMA DrainedHolds ==
  ASSUME Inv, NEW w \in Workers, RestartDrained(w)
  PROVE  Inv'
<1>1. CASE /\ Forks
           /\ restart' = [restart EXCEPT ![w] = "ready"]
           /\ replacement' = [replacement EXCEPT ![w] = forked + 1]
           /\ UNCHANGED <<currentlyRestarting, retry, killed>>
  <2>1. restart' \in [Workers -> {"idle", "drain", "ready", "stop"}]
    BY <1>1 DEF Inv, Registered
  <2>2. forked + 1 \in Workers
    BY <1>1, Numbers, SMT DEF Forks, Inv, Registered, Workers
  <2>3. replacement' \in [Workers -> Workers \cup {Nobody}]
    BY <1>1, <2>2 DEF Inv, Registered
  <2>4. \A v \in Workers : restart'[v] # restart[v] => restart[v] = "drain" /\ restart'[v] = "ready"
    BY <1>1, SMT DEF RestartDrained, Inv, Registered
  <2>5. Registered' /\ Placed'
    BY <1>1, <2>1, <2>3, <2>4, Forked DEF RestartDrained, ends, Inv
  <2>6. Timed'
    BY <1>1, SameTimed DEF RestartDrained, Forks, Inv
  <2>7. QED
    BY <1>1, <2>5, <2>6, SameCounted DEF Inv
<1>2. CASE ForksNothing /\ Kill(w) /\ EndsRestart(w)
  <2>1. Registered' /\ RestartsCounted' /\ Placed'
    BY <1>2, EndedRestart DEF RestartDrained, ForksNothing, Kill, Inv, Registered
  <2>2. QED
    BY <1>2, <2>1, SameTimed DEF RestartDrained, ForksNothing, registry, Inv
<1>3. QED
  BY <1>1, <1>2 DEF RestartDrained

\* Who is told to stop waits to be stopped or gets SIGTERM.
LEMMA ToldToStop ==
  ASSUME NEW ws, ws \subseteq workers, shutdownWorkers(ws),
         stopping \subseteq workers, terminated \subseteq workers
  PROVE  /\ ws \subseteq stopping' \cup terminated'
         /\ stopping \subseteq stopping' /\ terminated \subseteq terminated'
         /\ stopping' \subseteq stopping \cup ws
         /\ stopping' \subseteq workers /\ terminated' \subseteq workers
         /\ troubles' = troubles \/ Trouble
BY DEF shutdownWorkers

LEMMA ReadyHolds ==
  ASSUME Inv, NEW w \in Workers, RestartReady(w)
  PROVE  Inv'
<1>1. CASE /\ w \in workers
           /\ shutdownWorkers({w})
           /\ restart' = [restart EXCEPT ![w] = "stop"]
           /\ UNCHANGED <<replacement, currentlyRestarting, retry>>
  <2> USE <1>1 DEF RestartReady, registry
  <2>1. restart' \in [Workers -> {"idle", "drain", "ready", "stop"}]
    BY DEF Inv, Registered
  <2>2. /\ w \in stopping' \cup terminated' /\ stopping \subseteq stopping'
        /\ terminated \subseteq terminated' /\ stopping' \subseteq stopping \cup {w}
        /\ stopping' \subseteq workers /\ terminated' \subseteq workers
        /\ troubles' = troubles \/ Trouble
    BY ToldToStop DEF Inv, Registered
  <2>3. Registered'
    BY <2>1, <2>2 DEF Inv, Registered
  <2>4. RestartsOnRecord' /\ StopsFollow'
    BY <2>2, SMT DEF Inv, Registered, Placed, RestartsOnRecord, StopsFollow
  <2>5. NoWorkerForgotten' /\ DrainedGetsNothing' /\ NobodyInShutdown'
    BY <2>2, SMT DEF Inv, Registered, Placed, NoWorkerForgotten, DrainedGetsNothing,
       NobodyInShutdown, Shutdown
  <2>6. Timed'
    BY <2>2, SameTimed DEF Inv
  <2>7. QED
    BY <2>3, <2>4, <2>5, <2>6, SameCounted DEF Inv, Placed
<1>2. CASE /\ w \notin workers
           /\ EndsRestart(w)
           /\ UNCHANGED <<stopping, terminated, troubles>>
  <2>1. Registered' /\ RestartsCounted' /\ Placed'
    BY <1>2, EndedRestart DEF RestartReady, Inv, Registered
  <2>2. Timed'
    BY <1>2, SameTimed DEF RestartReady, registry, Inv
  <2>3. QED
    BY <2>1, <2>2 DEF Inv
<1>3. QED
  BY <1>1, <1>2 DEF RestartReady

LEMMA NotReadyHolds ==
  ASSUME Inv, NEW w \in Workers, RestartNotReady(w) \/ RestartStopped(w)
  PROVE  Inv'
<1>1. CASE RestartNotReady(w)
  <2>1. Registered' /\ RestartsCounted' /\ Placed'
    BY <1>1, EndedRestart DEF RestartNotReady, Kill, Inv, Registered
  <2>2. QED
    BY <1>1, <2>1, SameTimed DEF RestartNotReady, registry, Inv
<1>2. CASE RestartStopped(w)
  <2>1. w \in workers => w \in killed \cup disconnected \cup terminated
    BY <1>2 DEF RestartStopped, Inv, Placed, StopsFollow
  <2>2. Registered' /\ RestartsCounted' /\ Placed'
    BY <1>2, <2>1, EndedRestart DEF RestartStopped, ends, Inv, Registered
  <2>3. QED
    BY <1>2, <2>2, SameTimed DEF RestartStopped, registry, Inv
<1>3. QED
  BY <1>1, <1>2

\* A wait that is settled leaves a worker that will end.
LEMMA StoppedHolds ==
  ASSUME Inv, NEW w \in Workers, Disconnect(w) \/ StopTimeout(w)
  PROVE  Inv'
<1> USE DEF Disconnect, StopTimeout, registry, restarts
<1>1. Registered'
  BY DEF Inv, Registered
<1>2. Timed'
  BY SameTimed DEF Inv
<1>3. Placed'
  BY SMT DEF Inv, Placed, RestartsOnRecord, StopsFollow, NoWorkerForgotten,
     DrainedGetsNothing, NobodyInShutdown, Shutdown
<1>4. QED
  BY <1>1, <1>2, <1>3, SameCounted DEF Inv

LEMMA MonitorHolds ==
  ASSUME Inv, MonitorTick \/ ScaleUp \/ ScaleToMore
  PROVE  Inv'
<1>1. Registered' /\ RestartsCounted' /\ Placed'
  BY StillPlaced DEF MonitorTick, ScaleUp, ScaleToMore, Inv
<1>2. Needed \in Nat /\ EmergencyForks \in Nat
  BY SetsFinite, Numbers, SMT DEF Inv, Needed, EmergencyForks, Greater, HalfOptimal
<1>3. Timed'
  BY <1>2, Numbers, SMT DEF MonitorTick, ScaleUp, ScaleToMore, Trouble, registry, Inv, Timed
<1>4. QED
  BY <1>1, <1>3 DEF Inv

LEMMA ShutdownHolds ==
  ASSUME Inv, BeginShutdown \/ ShutdownStops \/ ShutdownExits
  PROVE  Inv'
<1>1. CASE BeginShutdown
  <2> USE <1>1 DEF BeginShutdown, restarts, ends, timers
  <2>1. balancer' = {}
    BY DEF Inv, Registered
  <2>2. status' \in [Workers -> Statuses] /\ \A w \in workers : status'[w] # "none"
    BY Numbers, SMT DEF Inv, Registered, Statuses, Workers
  <2>3. Registered'
    BY <2>1, <2>2 DEF Inv, Registered
  <2>4. Timed'
    BY SMT DEF Inv, Timed
  <2>5. Placed'
    BY <2>1, SMT DEF Inv, Placed, RestartsOnRecord, StopsFollow, NoWorkerForgotten,
       DrainedGetsNothing, NobodyInShutdown, Shutdown
  <2>6. QED
    BY <2>3, <2>4, <2>5, SameCounted DEF Inv
<1>2. CASE ShutdownStops \/ ShutdownExits
  <2> USE <1>2 DEF ShutdownStops, ShutdownExits, registry, restarts, ends
  <2>0. /\ stopping \subseteq stopping' /\ terminated \subseteq terminated'
        /\ stopping' \subseteq workers /\ terminated' \subseteq workers
        /\ troubles' = troubles \/ Trouble
    BY ToldToStop DEF Inv, Registered
  <2>1. Registered'
    BY <2>0 DEF Inv, Registered
  <2>2. Timed'
    BY <2>0, SameTimed DEF Inv
  <2>3. Placed'
    BY <2>0, SMT DEF Inv, Placed, RestartsOnRecord, StopsFollow, NoWorkerForgotten,
       DrainedGetsNothing, NobodyInShutdown, Shutdown
  <2>4. QED
    BY <2>1, <2>2, <2>3, SameCounted DEF Inv
<1>3. QED
  BY <1>1, <1>2

LEMMA StutterHolds == ASSUME Inv, UNCHANGED vars PROVE Inv'
<1>1. Registered' /\ RestartsCounted' /\ Placed'
  BY StillPlaced DEF vars, Inv
<1>2. QED
  BY <1>1, SameTimed DEF vars, registry, Inv

LEMMA StepHolds == ASSUME Inv, Next PROVE Inv'
<1>1. CASE ForkTimer \/ MonitorTick \/ ScaleUp \/ ScaleToMore
  BY <1>1, ForkTimerHolds, MonitorHolds
<1>2. CASE BeginShutdown \/ ShutdownStops \/ ShutdownExits
  BY <1>2, ShutdownHolds
<1>3. ASSUME NEW w \in Workers, handleWorkerMessage(w) \/ RetryTimer(w)
      PROVE  Inv'
  BY <1>3, BecomesHealthyHolds, CheckHolds, BadReportHolds, RequestHolds
     DEF handleWorkerMessage
<1>4. ASSUME NEW w \in Workers,
             \/ RestartDrained(w) \/ RestartReady(w) \/ RestartNotReady(w)
             \/ RestartStopped(w) \/ Disconnect(w) \/ StopTimeout(w)
      PROVE  Inv'
  BY <1>4, DrainedHolds, ReadyHolds, NotReadyHolds, StoppedHolds
<1>5. ASSUME NEW w \in Workers, Exit(w) \/ Crash(w)
      PROVE  Inv'
  BY <1>5, Exited DEF Exit, Crash
<1>6. ASSUME NEW w \in Workers,
             \/ SendCheck(w) \/ HealthTimeout(w)
             \/ WorkerFailure(w) \/ GhostReport(w) \/ ScaleDown(w)
      PROVE  Inv'
  BY <1>6, CheckHolds, HealthTimeoutHolds, FailureHolds, ScaleDownHolds
<1>7. QED
  BY <1>1, <1>2, <1>3, <1>4, <1>5, <1>6 DEF Next

LEMMA InvAlways == Spec => []Inv
<1>1. Init => Inv
  BY InitHolds
<1>2. Inv /\ [Next]_vars => Inv'
  BY StepHolds, StutterHolds
<1>3. QED
  BY <1>1, <1>2, PTL DEF Spec

-----------------------------------------------------------------------------
(* The theorems.                                                           *)

\* However many workers ask to be restarted, fail their checks, crash or are
\* killed, and in whatever order, no more than maxConcurrentRestarts living
\* ones are in a restart.
THEOREM RestartsBoundedAlways == Spec => []RestartsBounded
<1>1. Inv => RestartsBounded
  <2> SUFFICES ASSUME Inv PROVE RestartsBounded
    OBVIOUS
  <2>1. TypeOK
    BY DEF Inv, Registered, Timed, TypeOK
  <2>2. {w \in workers : restart[w] # "idle"} = currentlyRestarting
    BY DEF Inv, Registered, Placed, RestartsOnRecord
  <2>3. QED
    BY <2>1, <2>2 DEF Inv, RestartsCounted, RestartsBounded
<1>2. QED
  BY <1>1, InvAlways, PTL

\* No way through a restart, a scaling or a shutdown leaves a living worker that
\* gets no requests and that nothing will end, and none that is drained or
\* stopped gets any, for any number of workers, crashes and requests.
THEOREM BalancerRightAlways == Spec => []BalancerRight
<1>1. Inv => BalancerRight
  BY DEF Inv, Placed, BalancerRight
<1>2. QED
  BY <1>1, InvAlways, PTL

-----------------------------------------------------------------------------
(* A worker.                                                               *)

\* Whoever is busy is counted, so a count of zero says that nobody is.
BusyAreCounted == Cardinality(Busy) <= activeConnections

\* Once the server is closed the connections that had not sent anything are
\* unseen ones; once a count of zero was copied all that serve are.
OnlyUnseenLeft ==
  /\ ~listening => Unused \subseteq unseen
  /\ 0 \in drains \/ reported =>
       ~listening /\ \A c \in Connections : conn[c] \notin {"none", "lost"} => c \in unseen

WorkerInv == WorkerTypeOK /\ BusyAreCounted /\ OnlyUnseenLeft /\ GracefulExitCutsUncounted /\ EntryWhileWaiting

\* What the two halves of a worker leave alone.
Serving == <<conn, activeConnections, listening, unseen, drains, reported>>
Calling == <<promise, pendingMessages, armed, asked, answers>>

HttpTyped ==
  /\ conn \in [Connections -> {"none", "fresh", "idle", "arrived", "busy", "lost"}]
  /\ activeConnections \in Nat
  /\ listening \in BOOLEAN
  /\ drains \subseteq Nat
  /\ reported \in BOOLEAN
  /\ unseen \subseteq Connections
StatsTyped ==
  /\ promise \in [Calls -> {"none", "waiting", "resolved", "rejected"}]
  /\ pendingMessages \subseteq Calls
  /\ armed \subseteq pendingMessages
  /\ asked \subseteq Calls /\ answers \subseteq Calls
ExitTyped ==
  /\ graceful \in BOOLEAN /\ forced \in BOOLEAN
  /\ exit \in {"no", "graceful", "forced"}
  /\ cut \subseteq Connections
  /\ messages \in 0..MaxMessages

HttpInv == HttpTyped /\ BusyAreCounted /\ OnlyUnseenLeft
StatsInv == StatsTyped /\ EntryWhileWaiting
ExitInv == ExitTyped /\ GracefulExitCutsUncounted

LEMMA InvParts == WorkerInv <=> HttpInv /\ StatsInv /\ ExitInv
BY DEF WorkerInv, WorkerTypeOK, HttpInv, HttpTyped, StatsInv, StatsTyped, ExitInv, ExitTyped

-----------------------------------------------------------------------------
(* Counting.                                                               *)

LEMMA BusyFinite ==
  ASSUME IsFiniteSet(Connections)
  PROVE  /\ IsFiniteSet(Busy)
         /\ Cardinality(Busy) \in 0..Cardinality(Connections)
         /\ Cardinality(Connections) \in Nat
<1>1. Busy \subseteq Connections
  BY DEF Busy
<1>2. IsFiniteSet(Busy) /\ Cardinality(Busy) <= Cardinality(Connections)
  BY <1>1, FS_Subset
<1>3. Cardinality(Busy) \in Nat /\ Cardinality(Connections) \in Nat
  BY <1>2, FS_CardinalityType
<1>4. QED
  BY <1>2, <1>3, SMT

LEMMA NobodyBusy ==
  ASSUME IsFiniteSet(Connections), HttpInv, activeConnections <= 0
  PROVE  Busy = {}
<1>1. Cardinality(Busy) = 0
  BY BusyFinite, SMT DEF HttpInv, HttpTyped, BusyAreCounted
<1>2. QED
  BY <1>1, BusyFinite, FS_EmptySet

-----------------------------------------------------------------------------
(* Connections, the drain and its count.                                   *)

LEMMA WorkerInitHolds == ASSUME IsFiniteSet(Connections), MaxMessages \in Nat, WorkerInit PROVE WorkerInv
<1>1. Busy = {} /\ Unused = {}
  BY SMT DEF WorkerInit, Busy, Unused
<1>2. Cardinality(Busy) = 0
  BY <1>1, FS_EmptySet
<1>3. HttpInv
  <2>1. listening \in BOOLEAN /\ reported \in BOOLEAN /\ listening /\ ~reported
    BY DEF WorkerInit
  <2>2. conn \in [Connections -> {"none", "fresh", "idle", "arrived", "busy", "lost"}]
    BY DEF WorkerInit
  <2>3. activeConnections = 0 /\ drains = {} /\ unseen = {} /\ 0 <= 0
    BY SMT DEF WorkerInit
  <2>4. HttpTyped
    BY <2>1, <2>2, <2>3 DEF HttpTyped
  <2>5. BusyAreCounted /\ OnlyUnseenLeft
    BY <1>2, <2>1, <2>3 DEF BusyAreCounted, OnlyUnseenLeft
  <2>6. QED
    BY <2>4, <2>5 DEF HttpInv
<1>4. StatsInv
  BY SMT DEF WorkerInit, StatsInv, StatsTyped, EntryWhileWaiting
<1>5. ExitInv
  <2>1. messages \in 0..MaxMessages
    BY SMT DEF WorkerInit
  <2>2. QED
    BY <2>1 DEF WorkerInit, ExitInv, ExitTyped, GracefulExitCutsUncounted
<1>6. QED
  BY <1>3, <1>4, <1>5, InvParts

\* A connection that neither becomes nor stops being busy.
LEMMA QuietConnection ==
  ASSUME IsFiniteSet(Connections), HttpInv, NEW c \in Connections,
         NEW s \in {"none", "fresh", "idle", "arrived", "lost"}, conn[c] # "busy",
         conn' = [conn EXCEPT ![c] = s],
         s = "fresh" => listening,
         s \in {"idle", "arrived"} => conn[c] \notin {"none", "lost"},
         activeConnections' \in {activeConnections, activeConnections + 1},
         UNCHANGED <<listening, unseen, drains, reported>>
  PROVE  HttpInv'
<1>1. HttpTyped'
  BY SMT DEF HttpInv, HttpTyped
<1>2. Busy' = Busy
  BY SMT DEF HttpInv, HttpTyped, Busy
<1>3. OnlyUnseenLeft'
  BY SMT DEF HttpInv, HttpTyped, OnlyUnseenLeft, Unused
<1>4. BusyAreCounted'
  BY <1>2, BusyFinite, SMT DEF HttpInv, HttpTyped, BusyAreCounted
<1>5. QED
  BY <1>1, <1>3, <1>4 DEF HttpInv

LEMMA ConnectHttp ==
  ASSUME IsFiniteSet(Connections), HttpInv, NEW c \in Connections, Connect(c)
  PROVE  HttpInv'
<1>1. conn[c] # "busy" /\ conn' = [conn EXCEPT ![c] = "fresh"] /\ listening
  BY DEF Connect
<1>2. UNCHANGED <<activeConnections, listening, unseen, drains, reported>>
  BY DEF Connect, draining
<1>3. QED
  BY <1>1, <1>2, QuietConnection

LEMMA HangupHttp ==
  ASSUME IsFiniteSet(Connections), HttpInv, NEW c \in Connections, Hangup(c)
  PROVE  HttpInv'
<1>1. conn[c] # "busy" /\ conn' = [conn EXCEPT ![c] = "none"]
  BY DEF Hangup
<1>2. UNCHANGED <<activeConnections, listening, unseen, drains, reported>>
  BY DEF Hangup, draining
<1>3. QED
  BY <1>1, <1>2, QuietConnection

LEMMA RequestHttp ==
  ASSUME IsFiniteSet(Connections), HttpInv, NEW c \in Connections, Request(c)
  PROVE  HttpInv'
<1>1. conn[c] \notin {"busy", "none", "lost"} /\ conn' = [conn EXCEPT ![c] = "arrived"]
  BY DEF Request
<1>2. UNCHANGED <<activeConnections, listening, unseen, drains, reported>>
  BY DEF Request, draining
<1>3. QED
  BY <1>1, <1>2, QuietConnection

LEMMA FinishUncountedHttp ==
  ASSUME IsFiniteSet(Connections), HttpInv, NEW c \in Connections, FinishUncounted(c)
  PROVE  HttpInv'
<1>1. conn[c] \notin {"busy", "none", "lost"}
  BY DEF FinishUncounted
<1>2. PICK next \in {"idle", "none", "lost"} : conn' = [conn EXCEPT ![c] = next]
  BY DEF FinishUncounted
<1>3. UNCHANGED <<activeConnections, listening, unseen, drains, reported>>
  BY DEF FinishUncounted, draining
<1>4. QED
  BY <1>1, <1>2, <1>3, QuietConnection

\* Counting a lost request only makes the count too large.
LEMMA CountLostHttp ==
  ASSUME IsFiniteSet(Connections), HttpInv, NEW c \in Connections, CountLost(c)
  PROVE  HttpInv'
<1>1. conn[c] # "busy" /\ conn' = [conn EXCEPT ![c] = "none"]
  BY DEF CountLost
<1>2. /\ activeConnections' \in {activeConnections, activeConnections + 1}
      /\ UNCHANGED <<listening, unseen, drains, reported>>
  BY DEF CountLost, draining
<1>3. QED
  BY <1>1, <1>2, QuietConnection

LEMMA CountHttp ==
  ASSUME IsFiniteSet(Connections), HttpInv, NEW c \in Connections, Count(c)
  PROVE  HttpInv'
<1> USE DEF Count, draining
<1>1. Busy' = Busy \cup {c} /\ c \notin Busy
  BY SMT DEF HttpInv, HttpTyped, Busy
<1>2. Cardinality(Busy') = Cardinality(Busy) + 1
  BY <1>1, BusyFinite, FS_AddElement
<1>3. HttpTyped'
  BY SMT DEF HttpInv, HttpTyped
<1>4. BusyAreCounted'
  BY <1>2, BusyFinite, SMT DEF HttpInv, HttpTyped, BusyAreCounted
<1>5. OnlyUnseenLeft'
  BY SMT DEF HttpInv, HttpTyped, OnlyUnseenLeft, Unused
<1>6. QED
  BY <1>3, <1>4, <1>5 DEF HttpInv

LEMMA FinishHttp ==
  ASSUME IsFiniteSet(Connections), HttpInv, NEW c \in Connections, Finish(c)
  PROVE  HttpInv'
<1> USE DEF Finish, draining, onFinish
<1>1. PICK next \in {"idle", "none"} : conn' = [conn EXCEPT ![c] = next]
  OBVIOUS
<1>2. Busy' = Busy \ {c} /\ c \in Busy
  BY <1>1, SMT DEF HttpInv, HttpTyped, Busy
<1>3. Cardinality(Busy') = Cardinality(Busy) - 1
  BY <1>2, BusyFinite, FS_RemoveElement
<1>4. IsFiniteSet(Busy') /\ Cardinality(Busy') \in Nat
  BY <1>2, BusyFinite, FS_RemoveElement, FS_CardinalityType
<1>5. activeConnections' \in Nat /\ BusyAreCounted'
  BY <1>3, <1>4, BusyFinite, SMT DEF HttpInv, HttpTyped, BusyAreCounted
<1>6. HttpTyped'
  BY <1>1, <1>5, SMT DEF HttpInv, HttpTyped
<1>7. OnlyUnseenLeft'
  BY <1>1, SMT DEF HttpInv, HttpTyped, OnlyUnseenLeft, Unused
<1>8. QED
  BY <1>5, <1>6, <1>7 DEF HttpInv

\* A count of zero is copied only when nobody is busy, and closing the server
\* leaves the unseen connections.
LEMMA DrainHttp ==
  ASSUME IsFiniteSet(Connections), HttpInv, initiateDraining
  PROVE  HttpInv'
<1> USE DEF initiateDraining, closeServer
<1>1. HttpTyped'
  <2>1. conn' \in [Connections -> {"none", "fresh", "idle", "arrived", "busy", "lost"}]
    BY DEF HttpInv, HttpTyped
  <2>2. unseen' \subseteq Connections
    BY DEF HttpInv, HttpTyped, Unused, Uncounted
  <2>3. drains' \subseteq Nat
    BY DEF HttpInv, HttpTyped
  <2>4. listening' \in BOOLEAN /\ reported' \in BOOLEAN /\ activeConnections' = activeConnections
    BY DEF HttpInv, HttpTyped
  <2>5. QED
    BY <2>1, <2>2, <2>3, <2>4 DEF HttpInv, HttpTyped
<1>2. Busy' = Busy
  BY SMT DEF HttpInv, HttpTyped, Busy
<1>3. Unused' = Unused /\ Unused \subseteq unseen' /\ Uncounted \subseteq unseen'
  BY SMT DEF HttpInv, HttpTyped, Unused, Uncounted, OnlyUnseenLeft
<1>4. CASE activeConnections <= 0
  <2>1. Busy = {}
    BY <1>4, NobodyBusy
  <2>2. \A c \in Connections : conn'[c] \notin {"none", "lost"} => c \in Unused \cup Uncounted
    BY <2>1, SMT DEF HttpInv, HttpTyped, Unused, Uncounted, Busy
  <2>3. OnlyUnseenLeft'
    BY <1>3, <2>2, SMT DEF OnlyUnseenLeft
  <2>4. QED
    BY <1>1, <1>2, <2>3 DEF HttpInv, BusyAreCounted
<1>5. CASE ~(activeConnections <= 0)
  <2>1. 0 \in drains' \/ reported' => 0 \in drains \/ reported
    BY <1>5, SMT DEF HttpInv, HttpTyped
  <2>2. 0 \in drains \/ reported => unseen \subseteq unseen'
    BY SMT DEF HttpInv, OnlyUnseenLeft
  <2>3. \A c \in Connections : conn'[c] \notin {"none", "lost"} => conn[c] \notin {"none", "lost"}
    BY SMT DEF HttpInv, HttpTyped
  <2>4. OnlyUnseenLeft'
    BY <1>3, <2>1, <2>2, <2>3, SMT DEF HttpInv, OnlyUnseenLeft
  <2>5. QED
    BY <1>1, <1>2, <2>4 DEF HttpInv, BusyAreCounted
<1>6. QED
  BY <1>4, <1>5

LEMMA CheckHttp ==
  ASSUME IsFiniteSet(Connections), HttpInv, CheckDrained
  PROVE  HttpInv'
<1> USE DEF CheckDrained, http
<1>1. PICK n \in drains : n <= 0 /\ drains' = drains \ {n}
  OBVIOUS
<1>2. n = 0
  BY <1>1, SMT DEF HttpInv, HttpTyped
<1>3. QED
  BY <1>1, <1>2, SMT DEF HttpInv, HttpTyped, BusyAreCounted, OnlyUnseenLeft, Busy, Unused

LEMMA TimeoutHttp ==
  ASSUME IsFiniteSet(Connections), HttpInv, DrainTimeout
  PROVE  HttpInv'
BY SMT DEF DrainTimeout, http, HttpInv, HttpTyped, BusyAreCounted, OnlyUnseenLeft, Busy, Unused

LEMMA SameHttp ==
  ASSUME HttpInv, UNCHANGED Serving
  PROVE  HttpInv'
BY DEF Serving, HttpInv, HttpTyped, BusyAreCounted, OnlyUnseenLeft, Busy, Unused

-----------------------------------------------------------------------------
(* Calls of getStats.                                                      *)

LEMMA SameStats ==
  ASSUME StatsInv, UNCHANGED Calling, Alive' => Alive
  PROVE  StatsInv'
BY DEF Calling, StatsInv, StatsTyped, EntryWhileWaiting

LEMMA CleanupStats ==
  ASSUME StatsInv, Alive, cleanup
  PROVE  StatsInv'
<1> USE DEF cleanup, channel
<1>1. StatsTyped'
  BY SMT DEF StatsInv, StatsTyped
<1>2. \A i \in Calls : promise'[i] # "waiting"
  BY SMT DEF StatsInv, StatsTyped, EntryWhileWaiting
<1>3. EntryWhileWaiting'
  BY <1>2, SMT DEF EntryWhileWaiting
<1>4. QED
  BY <1>1, <1>3 DEF StatsInv

\* A promise and its entry change together.
LEMMA SettleStats ==
  ASSUME StatsInv, Alive, NEW i \in Calls,
         NEW p \in {"waiting", "resolved", "rejected"},
         promise' = [promise EXCEPT ![i] = p],
         p = "waiting" => /\ pendingMessages' = pendingMessages \cup {i}
                          /\ armed' = armed \cup {i},
         p # "waiting" => /\ pendingMessages' = pendingMessages \ {i}
                          /\ armed' = armed \ {i},
         asked' \subseteq Calls, answers' \subseteq Calls
  PROVE  StatsInv'
<1>1. StatsTyped'
  BY SMT DEF StatsInv, StatsTyped
<1>2. EntryWhileWaiting'
  BY SMT DEF StatsInv, StatsTyped, EntryWhileWaiting
<1>3. QED
  BY <1>1, <1>2 DEF StatsInv

LEMMA AskStats ==
  ASSUME StatsInv, NEW i \in Calls, requestStatsFromPrimary(i)
  PROVE  StatsInv'
<1>1. asked' \subseteq Calls /\ answers' \subseteq Calls
  BY DEF requestStatsFromPrimary, StatsInv, StatsTyped
<1>2. QED
  BY <1>1, SettleStats DEF requestStatsFromPrimary, pends

LEMMA AnswerStats ==
  ASSUME StatsInv, NEW i \in Calls, handleStatsRequest(i)
  PROVE  StatsInv'
BY SMT DEF handleStatsRequest, StatsInv, StatsTyped, EntryWhileWaiting, Alive, ended

LEMMA ResponseStats ==
  ASSUME StatsInv, NEW i \in Calls, StatsResponse(i)
  PROVE  StatsInv'
<1> USE DEF StatsResponse, handleStatsResponse
<1>1. asked' \subseteq Calls /\ answers' \subseteq Calls
  BY DEF StatsInv, StatsTyped
<1>2. CASE i \in pendingMessages
  BY <1>1, <1>2, SettleStats
<1>3. CASE i \notin pendingMessages
  BY <1>1, <1>3, SMT DEF StatsInv, StatsTyped, EntryWhileWaiting, Alive, ended
<1>4. QED
  BY <1>2, <1>3

LEMMA TimeoutStats ==
  ASSUME StatsInv, NEW i \in Calls, StatsTimeout(i)
  PROVE  StatsInv'
<1>1. asked' \subseteq Calls /\ answers' \subseteq Calls
  BY DEF StatsTimeout, channel, StatsInv, StatsTyped
<1>2. QED
  BY <1>1, SettleStats DEF StatsTimeout, rejectOnTimeout

-----------------------------------------------------------------------------
(* The end of the process.                                                 *)

LEMMA SameExit ==
  ASSUME ExitInv, UNCHANGED <<exiting, ended, messages>>, Alive \/ UNCHANGED conn
  PROVE  ExitInv'
<1>1. ExitTyped'
  BY DEF exiting, ended, ExitInv, ExitTyped
<1>2. GracefulExitCutsUncounted'
  BY DEF ended, ExitInv, GracefulExitCutsUncounted, Alive, Uncounted
<1>3. QED
  BY <1>1, <1>2 DEF ExitInv

LEMMA MessageExit ==
  ASSUME MaxMessages \in Nat, ExitInv, Alive, Message, UNCHANGED <<exiting, ended>>
  PROVE  ExitInv'
BY SMT DEF Message, exiting, ended, Alive, ExitInv, ExitTyped, GracefulExitCutsUncounted

\* It leaves of itself only when the counter is zero, so nobody is busy then.
LEMMA ShutdownExit ==
  ASSUME IsFiniteSet(Connections), MaxMessages \in Nat, WorkerInv, initiateWorkerShutdown
  PROVE  ExitInv'
<1> USE DEF initiateWorkerShutdown, Message, exiting, ended
<1>1. messages' \in 0..MaxMessages
  BY SMT DEF WorkerInv, WorkerTypeOK
<1>2. CASE activeConnections <= 0 /\ Exits("graceful") /\ UNCHANGED exiting
  <2>1. Busy = {}
    BY <1>2, InvParts, NobodyBusy
  <2>2. cut' = Uncounted /\ exit' = "graceful" /\ Uncounted' = Uncounted
    BY <1>2, <2>1 DEF Exits, Uncounted, http
  <2>3. cut' \subseteq Connections
    BY <2>2 DEF Uncounted
  <2>4. QED
    BY <1>1, <1>2, <2>2, <2>3 DEF WorkerInv, WorkerTypeOK, ExitInv, ExitTyped,
       GracefulExitCutsUncounted
<1>3. CASE graceful' = TRUE /\ forced' = TRUE /\ UNCHANGED ended
  <2>1. exit' = "no" /\ cut' = cut /\ graceful' = TRUE /\ forced' = TRUE
    BY <1>3 DEF Alive
  <2>2. ExitTyped'
    BY <1>1, <2>1 DEF WorkerInv, WorkerTypeOK, ExitTyped
  <2>3. GracefulExitCutsUncounted'
    BY <2>1 DEF GracefulExitCutsUncounted
  <2>4. QED
    BY <2>2, <2>3 DEF ExitInv
<1>4. QED
  BY <1>2, <1>3 DEF ExitsIfIdle

LEMMA ForcedExit ==
  ASSUME WorkerInv, ForceExit
  PROVE  ExitInv'
BY DEF WorkerInv, WorkerTypeOK, ForceExit, Exits, exiting, Busy, Uncounted, ExitInv, ExitTyped,
       GracefulExitCutsUncounted

LEMMA TerminateExit ==
  ASSUME MaxMessages \in Nat, WorkerInv, Terminate
  PROVE  ExitInv'
BY SMT DEF WorkerInv, WorkerTypeOK, Terminate, Message, ended, Alive, ExitInv, ExitTyped,
           GracefulExitCutsUncounted

-----------------------------------------------------------------------------
(* Every action, and the theorem.                                          *)

\* An action of the connections or of the drain.
LEMMA HttpStep ==
  ASSUME WorkerInv, Alive, HttpInv', UNCHANGED <<exiting, stats, ended>>,
         messages' = messages \/ Message, MaxMessages \in Nat
  PROVE  WorkerInv'
<1>1. StatsInv'
  BY InvParts, SameStats DEF stats, channel, Calling, ended, Alive
<1>2. ExitInv'
  BY InvParts, SameExit, MessageExit
<1>3. QED
  BY <1>1, <1>2, InvParts DEF WorkerInv, WorkerTypeOK, HttpInv, HttpTyped, StatsInv, StatsTyped,
     ExitInv, ExitTyped

\* An action of getStats.
LEMMA StatsStep ==
  ASSUME WorkerInv, StatsInv', UNCHANGED <<http, draining, exiting, ended, messages>>
  PROVE  WorkerInv'
<1>1. HttpInv'
  BY InvParts, SameHttp DEF http, draining, Serving
<1>2. ExitInv'
  BY InvParts, SameExit DEF http
<1>3. QED
  BY <1>1, <1>2, InvParts, PTL

\* An action that stops the process.
LEMMA StopStep ==
  ASSUME WorkerInv, StatsInv', ExitInv', UNCHANGED <<http, draining>>
  PROVE  WorkerInv'
<1>1. HttpInv'
  BY InvParts, SameHttp DEF http, draining, Serving
<1>2. QED
  BY <1>1, InvParts, PTL

LEMMA ConnectionHolds ==
  ASSUME IsFiniteSet(Connections), MaxMessages \in Nat, WorkerInv, NEW c \in Connections,
         \/ Connect(c) \/ Hangup(c) \/ Request(c) \/ Count(c) \/ Finish(c)
         \/ FinishUncounted(c) \/ CountLost(c)
  PROVE  WorkerInv'
<1>1. HttpInv'
  BY InvParts, ConnectHttp, HangupHttp, RequestHttp, CountHttp, FinishHttp,
     FinishUncountedHttp, CountLostHttp
<1>2. /\ Alive
      /\ UNCHANGED <<exiting, stats, ended>>
      /\ messages' = messages \/ Message
  BY DEF Connect, Hangup, Request, Count, Finish, FinishUncounted, CountLost
<1>3. QED
  BY <1>1, <1>2, HttpStep

LEMMA DrainHolds ==
  ASSUME IsFiniteSet(Connections), MaxMessages \in Nat, WorkerInv,
         initiateDraining \/ CheckDrained \/ DrainTimeout
  PROVE  WorkerInv'
<1>1. HttpInv'
  BY InvParts, DrainHttp, CheckHttp, TimeoutHttp
<1>2. /\ Alive
      /\ UNCHANGED <<exiting, stats, ended>>
      /\ messages' = messages \/ Message
  BY DEF initiateDraining, CheckDrained, DrainTimeout
<1>3. QED
  BY <1>1, <1>2, HttpStep

LEMMA CallHolds ==
  ASSUME WorkerInv, NEW i \in Calls,
         \/ requestStatsFromPrimary(i) \/ handleStatsRequest(i)
         \/ StatsResponse(i) \/ StatsTimeout(i)
  PROVE  WorkerInv'
<1>1. StatsInv'
  BY InvParts, AskStats, AnswerStats, ResponseStats, TimeoutStats
<1>2. UNCHANGED <<http, draining, exiting, ended, messages>>
  BY DEF requestStatsFromPrimary, handleStatsRequest, StatsResponse, StatsTimeout
<1>3. QED
  BY <1>1, <1>2, StatsStep

\* A process that has ended has no promise to settle.
LEMMA GracefulHolds ==
  ASSUME IsFiniteSet(Connections), MaxMessages \in Nat, WorkerInv, initiateWorkerShutdown
  PROVE  WorkerInv'
<1>1. StatsInv'
  BY InvParts, CleanupStats DEF initiateWorkerShutdown
<1>2. QED
  BY <1>1, ShutdownExit, StopStep DEF initiateWorkerShutdown

LEMMA ForceHolds == ASSUME WorkerInv, ForceExit PROVE WorkerInv'
<1>1. ~Alive'
  BY DEF ForceExit, Exits, Alive
<1>2. StatsInv'
  BY <1>1, InvParts, SameStats DEF ForceExit, stats, channel, Calling
<1>3. QED
  BY <1>2, ForcedExit, StopStep DEF ForceExit

LEMMA TerminateHolds ==
  ASSUME MaxMessages \in Nat, WorkerInv, Terminate
  PROVE  WorkerInv'
<1>1. CASE cleanup
  <2>1. StatsInv'
    BY <1>1, InvParts, CleanupStats DEF Terminate
  <2>2. QED
    BY <2>1, TerminateExit, StopStep DEF Terminate
<1>2. CASE UNCHANGED stats
  <2>1. StatsInv'
    BY <1>2, InvParts, SameStats DEF Terminate, stats, channel, Calling, ended, Alive
  <2>2. QED
    BY <2>1, TerminateExit, StopStep DEF Terminate
<1>3. QED
  BY <1>1, <1>2 DEF Terminate

LEMMA WorkerStutterHolds == ASSUME WorkerInv, UNCHANGED workerVars PROVE WorkerInv'
<1>1. HttpInv'
  BY InvParts, SameHttp DEF workerVars, http, draining, Serving
<1>2. StatsInv'
  BY InvParts, SameStats DEF workerVars, stats, channel, Calling, ended, Alive
<1>3. ExitInv'
  BY InvParts, SameExit DEF workerVars, http
<1>4. QED
  BY <1>1, <1>2, <1>3, InvParts, PTL

LEMMA WorkerStepHolds ==
  ASSUME IsFiniteSet(Connections), MaxMessages \in Nat, WorkerInv, WorkerNext
  PROVE  WorkerInv'
<1>1. CASE handlePrimaryMessage
  BY <1>1, DrainHolds, GracefulHolds, CallHolds DEF handlePrimaryMessage
<1>2. CASE CheckDrained \/ DrainTimeout \/ ForceExit \/ Terminate
  BY <1>2, DrainHolds, ForceHolds, TerminateHolds
<1>3. ASSUME NEW c \in Connections,
             \/ Connect(c) \/ Hangup(c) \/ Request(c) \/ Count(c) \/ Finish(c)
             \/ FinishUncounted(c) \/ CountLost(c)
      PROVE  WorkerInv'
  BY <1>3, ConnectionHolds
<1>4. ASSUME NEW i \in Calls,
             requestStatsFromPrimary(i) \/ handleStatsRequest(i) \/ StatsTimeout(i)
      PROVE  WorkerInv'
  BY <1>4, CallHolds
<1>5. QED
  BY <1>1, <1>2, <1>3, <1>4 DEF WorkerNext

LEMMA WorkerInvAlways == WorkerSpec => []WorkerInv
<1>1. WorkerInit => WorkerInv
  BY WorkerInitHolds, WorkerProcessAssumption
<1>2. WorkerInv /\ [WorkerNext]_workerVars => WorkerInv'
  BY WorkerStepHolds, WorkerStutterHolds, WorkerProcessAssumption
<1>3. QED
  BY <1>1, <1>2, PTL DEF WorkerSpec

\* What a worker reports when it has drained, cuts short when it leaves and
\* keeps of a call that waits is right at every moment, for any number of
\* connections, calls and messages, although the counts it looks at are copies.
THEOREM WorkerHoldsAlways == WorkerSpec => []WorkerHolds
<1>1. WorkerInv => WorkerHolds
  <2>1. OnlyUnseenLeft => DrainedServesUnseen
    BY DEF OnlyUnseenLeft, DrainedServesUnseen, Busy, Uncounted
  <2>2. QED
    BY <2>1 DEF WorkerInv, WorkerHolds
<1>2. QED
  BY <1>1, WorkerInvAlways, PTL

-----------------------------------------------------------------------------
(* The server process and its databases.                                   *)

\* What is left of the two orders of the hooks.
Orders == {<<>>, <<"db">>, <<"prisma", "db">>, <<"redis", "db">>,
           <<"prisma", "redis", "db">>, <<"redis", "prisma", "db">>}
PrismaDone(t) == t \in {<<>>, <<"db">>, <<"redis", "db">>}
RedisDone(t) == t \in {<<>>, <<"db">>, <<"prisma", "db">>}

Commands == {"none", "queued", "sent", "rejected"}
Steps == RedisSteps \cup Queries \cup {"idle", "scan", "end"}
RequestType == [pc : Steps, lost : SUBSET (RedisSteps \cup Queries), error : BOOLEAN]
MayFail == {"session", "throttle", "find", "handler"}
Excused(q) == q.error => q.lost \cap MayFail # {}

Shapes ==
  /\ todo \in Orders
  /\ signals \in Nat
  /\ cmd \in [Actors -> Commands]
  /\ req \in [Slots -> RequestType]
  /\ checking \subseteq Slots

\* A hook that is over has made its connection, and neither is given up while
\* the process lives; with the process everything it held is gone.
Links ==
  /\ proc = "starting" /\ PrismaDone(todo) => connected
  /\ proc = "up" => connected
  /\ proc = "starting" /\ RedisDone(todo) => client # "closed"

ServerInv ==
  /\ ServerTypeOK
  /\ Shapes
  /\ Links
  /\ \A r \in Slots : Excused(req[r])

\* Where the hooks go on.
LEMMA NextHook ==
  ASSUME NEW t \in Orders, t # <<>>
  PROVE  /\ Tail(t) \in Orders
         /\ Head(t) = "redis" => RedisDone(Tail(t)) /\ (PrismaDone(Tail(t)) => PrismaDone(t))
         /\ Head(t) = "prisma" => PrismaDone(Tail(t)) /\ (RedisDone(Tail(t)) => RedisDone(t))
         /\ Head(t) = "db" => PrismaDone(t) /\ RedisDone(t)
<1> USE DEF Orders, PrismaDone, RedisDone
<1>1. CASE t = <<"db">>
  BY <1>1, SMT
<1>2. CASE t = <<"prisma", "db">>
  BY <1>2, SMT
<1>3. CASE t = <<"redis", "db">>
  BY <1>3, SMT
<1>4. CASE t = <<"prisma", "redis", "db">>
  BY <1>4, SMT
<1>5. CASE t = <<"redis", "prisma", "db">>
  BY <1>5, SMT
<1>6. QED
  BY <1>1, <1>2, <1>3, <1>4, <1>5

LEMMA FirstHook ==
  ASSUME NEW t \in {<<"prisma", "redis", "db">>, <<"redis", "prisma", "db">>}
  PROVE  t \in Orders /\ ~PrismaDone(t) /\ ~RedisDone(t)
BY SMT DEF Orders, PrismaDone, RedisDone

\* The client always has a next attempt.
LEMMA AlwaysDelay == ASSUME NEW n \in Nat PROVE reconnectStrategy(n) # NoDelay
BY SMT DEF reconnectStrategy, NoDelay

LEMMA ServerInitHolds == ASSUME MaxRetries \in Nat, ServerInit PROVE ServerInv
<1>1. ServerTypeOK
  <2>0. pg \in BOOLEAN /\ redis \in BOOLEAN /\ connected \in BOOLEAN
    BY Zenon DEF ServerInit
  <2>4. retries \in 0..MaxRetries
    BY SMT DEF ServerInit
  <2>1. \A r \in Slots : req[r].pc # "idle" => proc = "up"
    BY SMT DEF ServerInit, NoRequest
  <2>2. \A a \in Actors :
         /\ cmd[a] = "queued" => client = "connecting"
         /\ cmd[a] = "sent" => client \in {"ready", "broken"}
    BY SMT DEF ServerInit
  <2>3. QED
    BY <2>1, <2>2, <2>0, <2>4 DEF ServerInit, ServerTypeOK
<1>2. Shapes
  BY SMT DEF ServerInit, Shapes, Orders, Commands, RequestType, Steps, NoRequest
<1>3. Links
  BY SMT DEF ServerInit, Links
<1>4. \A r \in Slots : Excused(req[r])
  BY SMT DEF ServerInit, Excused, NoRequest
<1>5. QED
  BY <1>1, <1>2, <1>3, <1>4 DEF ServerInv

\* The end of the process, whatever it was doing.
LEMMA EndHolds ==
  ASSUME MaxRetries \in Nat, ServerInv, ProcessEnds, signals' \in Nat
  PROVE  ServerInv'
<1> USE DEF ProcessEnds, servers
<1>1. ServerTypeOK'
  <2>0. pg' \in BOOLEAN /\ redis' \in BOOLEAN /\ connected' \in BOOLEAN
    BY Zenon DEF ServerInv, ServerTypeOK
  <2>4. retries' \in 0..MaxRetries
    BY SMT
  <2>1. \A r \in Slots : req'[r].pc = "idle"
    BY SMT DEF NoRequest
  <2>2. \A a \in Actors : cmd'[a] = "none"
    BY SMT
  <2>3. QED
    BY <2>0, <2>1, <2>2, <2>4 DEF ServerTypeOK
<1>2. Shapes'
  BY SMT DEF ServerInv, Shapes, Orders, Commands, RequestType, Steps, NoRequest
<1>3. Links'
  BY SMT DEF Links
<1>4. (\A r \in Slots : Excused(req[r]))'
  BY SMT DEF Excused, NoRequest
<1>5. QED
  BY <1>1, <1>2, <1>3, <1>4 DEF ServerInv

\* A step of one request, which other requests do not notice.
LEMMA SlotHolds ==
  ASSUME MaxRetries \in Nat, ServerInv, NEW r \in Slots, NEW q \in RequestType,
         Excused(q), q.pc # "idle" => proc = "up",
         req' = [req EXCEPT ![r] = q],
         \/ cmd' = cmd
         \/ cmd' = [cmd EXCEPT ![r] = "none"],
         UNCHANGED <<servers, process, link>>
  PROVE  ServerInv'
<1> USE DEF servers, process, link
<1>1. r \in Actors
  BY DEF Actors
<1>2. Shapes'
  BY <1>1, SMT DEF ServerInv, Shapes, Commands
<1>3. \A a \in Actors : cmd'[a] \in {cmd[a], "none"}
  BY <1>1, SMT DEF ServerInv, Shapes
<1>4. \A s \in Slots : req'[s] = IF s = r THEN q ELSE req[s]
  BY SMT DEF ServerInv, Shapes
<1>5. ServerTypeOK'
  BY <1>3, <1>4, SMT DEF ServerInv, ServerTypeOK
<1>6. Links'
  BY SMT DEF ServerInv, Links, PrismaDone, RedisDone
<1>7. (\A s \in Slots : Excused(req[s]))'
  <2> SUFFICES ASSUME NEW s \in Slots PROVE Excused(req'[s])
    BY DEF Excused
  <2>1. CASE s = r
    BY <2>1, <1>4
  <2>2. CASE s # r
    BY <2>2, <1>4 DEF ServerInv
  <2>3. QED
    BY <2>1, <2>2
<1>8. QED
  BY <1>2, <1>5, <1>6, <1>7 DEF ServerInv

LEMMA OutageHolds == ASSUME MaxRetries \in Nat, ServerInv, Outage PROVE ServerInv'
<1> USE DEF Outage, servers, process, link
<1>1. pg' \in BOOLEAN /\ redis' \in BOOLEAN /\ connected' \in BOOLEAN
  BY Zenon DEF ServerInv, ServerTypeOK
<1>2. Shapes'
  BY SMT DEF ServerInv, Shapes, Commands
<1>3. \A a \in Actors : /\ cmd'[a] = "queued" => client' = "connecting"
                        /\ cmd'[a] = "sent" => client' \in {"ready", "broken"}
  BY SMT DEF ServerInv, Shapes, ServerTypeOK
<1>4. ServerTypeOK'
  BY <1>1, <1>3, SMT DEF ServerInv, ServerTypeOK
<1>5. Links'
  BY SMT DEF ServerInv, Links
<1>6. (\A r \in Slots : Excused(req[r]))'
  BY Zenon DEF ServerInv, Excused
<1>7. QED
  BY <1>2, <1>4, <1>5, <1>6 DEF ServerInv

LEMMA PostgresBackHolds == ASSUME MaxRetries \in Nat, ServerInv, PostgresBack PROVE ServerInv'
<1> USE DEF PostgresBack, servers, process, link
<1>1. pg' \in BOOLEAN /\ redis' \in BOOLEAN /\ connected' \in BOOLEAN
  BY Zenon DEF ServerInv, ServerTypeOK
<1>2. Shapes'
  BY SMT DEF ServerInv, Shapes, Commands
<1>3. \A a \in Actors : /\ cmd'[a] = "queued" => client' = "connecting"
                        /\ cmd'[a] = "sent" => client' \in {"ready", "broken"}
  BY SMT DEF ServerInv, Shapes, ServerTypeOK
<1>4. ServerTypeOK'
  BY <1>1, <1>3, SMT DEF ServerInv, ServerTypeOK
<1>5. Links'
  BY SMT DEF ServerInv, Links
<1>6. (\A r \in Slots : Excused(req[r]))'
  BY Zenon DEF ServerInv, Excused
<1>7. QED
  BY <1>2, <1>4, <1>5, <1>6 DEF ServerInv

LEMMA RedisBackHolds == ASSUME MaxRetries \in Nat, ServerInv, RedisBack PROVE ServerInv'
<1> USE DEF RedisBack, servers, process, link
<1>1. pg' \in BOOLEAN /\ redis' \in BOOLEAN /\ connected' \in BOOLEAN
  BY Zenon DEF ServerInv, ServerTypeOK
<1>2. Shapes'
  BY SMT DEF ServerInv, Shapes, Commands
<1>3. \A a \in Actors : /\ cmd'[a] = "queued" => client' = "connecting"
                        /\ cmd'[a] = "sent" => client' \in {"ready", "broken"}
  BY SMT DEF ServerInv, Shapes, ServerTypeOK
<1>4. ServerTypeOK'
  BY <1>1, <1>3, SMT DEF ServerInv, ServerTypeOK
<1>5. Links'
  BY SMT DEF ServerInv, Links
<1>6. (\A r \in Slots : Excused(req[r]))'
  BY Zenon DEF ServerInv, Excused
<1>7. QED
  BY <1>2, <1>4, <1>5, <1>6 DEF ServerInv

LEMMA SocketErrorHolds == ASSUME MaxRetries \in Nat, ServerInv, SocketError PROVE ServerInv'
<1> USE DEF SocketError, servers, process, link, errorHeard
<1>1. pg' \in BOOLEAN /\ redis' \in BOOLEAN /\ connected' \in BOOLEAN
  BY Zenon DEF ServerInv, ServerTypeOK
<1>2. Shapes'
  BY SMT DEF ServerInv, Shapes, Commands
<1>3. \A a \in Actors : /\ cmd'[a] = "queued" => client' = "connecting"
                        /\ cmd'[a] = "sent" => client' \in {"ready", "broken"}
  BY SMT DEF ServerInv, Shapes, ServerTypeOK
<1>4. ServerTypeOK'
  BY <1>1, <1>3, SMT DEF ServerInv, ServerTypeOK
<1>5. Links'
  BY SMT DEF ServerInv, Links
<1>6. (\A r \in Slots : Excused(req[r]))'
  BY Zenon DEF ServerInv, Excused
<1>7. QED
  BY <1>2, <1>4, <1>5, <1>6 DEF ServerInv

LEMMA AttemptFailsHolds == ASSUME MaxRetries \in Nat, ServerInv, AttemptFails PROVE ServerInv'
<1> USE DEF AttemptFails, servers, process, link
<1>0. reconnectStrategy(retries) # NoDelay
  BY AlwaysDelay, SMT DEF ServerInv, ServerTypeOK
<1>1. pg' \in BOOLEAN /\ redis' \in BOOLEAN /\ connected' \in BOOLEAN
  BY <1>0, Zenon DEF ServerInv, ServerTypeOK
<1>2. Shapes'
  BY <1>0, SMT DEF ServerInv, Shapes, ServerTypeOK, Orders, Commands
<1>3. \A a \in Actors : /\ cmd'[a] = "queued" => client' = "connecting"
                        /\ cmd'[a] = "sent" => client' \in {"ready", "broken"}
  BY <1>0, SMT DEF ServerInv, Shapes, ServerTypeOK
<1>4. ServerTypeOK'
  BY <1>0, <1>1, <1>3, SMT DEF ServerInv, ServerTypeOK
<1>5. Links'
  BY <1>0, SMT DEF ServerInv, Links
<1>6. (\A r \in Slots : Excused(req[r]))'
  BY <1>0, Zenon DEF ServerInv, Excused
<1>7. QED
  BY <1>2, <1>4, <1>5, <1>6 DEF ServerInv

LEMMA RedisReadyHolds == ASSUME MaxRetries \in Nat, ServerInv, Ready PROVE ServerInv'
<1> USE DEF Ready, servers, process, link
<1>0. todo # <<>> =>
        /\ Tail(todo) \in Orders
        /\ Head(todo) = "redis" => RedisDone(Tail(todo)) /\ (PrismaDone(Tail(todo)) => PrismaDone(todo))
        /\ Head(todo) = "db" => PrismaDone(todo) /\ RedisDone(todo)
  BY NextHook DEF ServerInv, Shapes
<1>1. pg' \in BOOLEAN /\ redis' \in BOOLEAN /\ connected' \in BOOLEAN
  BY Zenon DEF ServerInv, ServerTypeOK
<1>2. Shapes'
  <2>1. todo' \in Orders
    BY <1>0, Zenon DEF ServerInv, Shapes
  <2>2. cmd' \in [Actors -> Commands]
    BY SMT DEF ServerInv, Shapes, Commands
  <2>3. QED
    BY <2>1, <2>2 DEF ServerInv, Shapes
<1>3. \A a \in Actors : /\ cmd'[a] = "queued" => client' = "connecting"
                        /\ cmd'[a] = "sent" => client' \in {"ready", "broken"}
  BY <1>0, SMT DEF ServerInv, Shapes, ServerTypeOK
<1>4. ServerTypeOK'
  BY <1>0, <1>1, <1>3, SMT DEF ServerInv, ServerTypeOK, Shapes
<1>5. Links'
  BY <1>0, Zenon DEF ServerInv, ServerTypeOK, Links
<1>6. (\A r \in Slots : Excused(req[r]))'
  BY Zenon DEF ServerInv, Excused
<1>7. QED
  BY <1>2, <1>4, <1>5, <1>6 DEF ServerInv

LEMMA BeginHolds == ASSUME MaxRetries \in Nat, ServerInv, Begin PROVE ServerInv'
<1> USE DEF Begin, servers, process, link
<1>0. todo' \in Orders /\ ~PrismaDone(todo') /\ ~RedisDone(todo')
  BY FirstHook
<1>1. pg' \in BOOLEAN /\ redis' \in BOOLEAN /\ connected' \in BOOLEAN
  BY Zenon DEF ServerInv, ServerTypeOK
<1>2. Shapes'
  BY <1>0, Zenon DEF ServerInv, Shapes
<1>3. \A a \in Actors : /\ cmd'[a] = "queued" => client' = "connecting"
                        /\ cmd'[a] = "sent" => client' \in {"ready", "broken"}
  BY SMT DEF ServerInv, Shapes, ServerTypeOK
<1>4. ServerTypeOK'
  BY <1>1, <1>3, SMT DEF ServerInv, ServerTypeOK, Shapes, Orders, Links, RedisDone
<1>5. Links'
  BY <1>0, Zenon DEF Links
<1>6. (\A r \in Slots : Excused(req[r]))'
  BY Zenon DEF ServerInv, Excused
<1>7. QED
  BY <1>2, <1>4, <1>5, <1>6 DEF ServerInv

LEMMA ConnectRedisHolds == ASSUME MaxRetries \in Nat, ServerInv, ConnectRedis PROVE ServerInv'
<1> USE DEF ConnectRedis, servers, process, link, Turn
<1>1. pg' \in BOOLEAN /\ redis' \in BOOLEAN /\ connected' \in BOOLEAN
  BY Zenon DEF ServerInv, ServerTypeOK
<1>2. Shapes'
  BY SMT DEF ServerInv, Shapes, Commands
<1>3. \A a \in Actors : /\ cmd'[a] = "queued" => client' = "connecting"
                        /\ cmd'[a] = "sent" => client' \in {"ready", "broken"}
  BY SMT DEF ServerInv, Shapes, ServerTypeOK
<1>4. ServerTypeOK'
  BY <1>1, <1>3, SMT DEF ServerInv, ServerTypeOK, Shapes, Orders, Links, RedisDone
<1>5. Links'
  BY SMT DEF ServerInv, ServerTypeOK, Links, PrismaDone, RedisDone, Shapes, Orders
<1>6. (\A r \in Slots : Excused(req[r]))'
  BY Zenon DEF ServerInv, Excused
<1>7. QED
  BY <1>2, <1>4, <1>5, <1>6 DEF ServerInv

LEMMA isHealthyHolds == ASSUME MaxRetries \in Nat, ServerInv, isHealthy PROVE ServerInv'
<1> USE DEF isHealthy, servers, process, link, Turn
<1>1. pg' \in BOOLEAN /\ redis' \in BOOLEAN /\ connected' \in BOOLEAN
  BY Zenon DEF ServerInv, ServerTypeOK
<1>2. Shapes'
  <2>1. Sent \in Commands
    BY SMT DEF ServerInv, ServerTypeOK, Sent, Commands
  <2>2. cmd' \in [Actors -> Commands]
    BY <2>1, Zenon DEF ServerInv, Shapes
  <2>3. QED
    BY <2>2 DEF ServerInv, Shapes
<1>3. \A a \in Actors : /\ cmd'[a] = "queued" => client' = "connecting"
                        /\ cmd'[a] = "sent" => client' \in {"ready", "broken"}
  BY SMT DEF ServerInv, Shapes, ServerTypeOK, Sent
<1>4. ServerTypeOK'
  BY <1>1, <1>3, SMT DEF ServerInv, ServerTypeOK
<1>5. Links'
  BY SMT DEF ServerInv, Links
<1>6. (\A r \in Slots : Excused(req[r]))'
  BY Zenon DEF ServerInv, Excused
<1>7. QED
  BY <1>2, <1>4, <1>5, <1>6 DEF ServerInv

LEMMA ConnectAllHolds == ASSUME MaxRetries \in Nat, ServerInv, ConnectAll PROVE ServerInv'
<1> USE DEF ConnectAll, servers, process, link, Turn
<1>0. todo # <<>> =>
        /\ Tail(todo) \in Orders
        /\ Head(todo) = "redis" => RedisDone(Tail(todo)) /\ (PrismaDone(Tail(todo)) => PrismaDone(todo))
        /\ Head(todo) = "db" => PrismaDone(todo) /\ RedisDone(todo)
  BY NextHook DEF ServerInv, Shapes
<1>1. pg' \in BOOLEAN /\ redis' \in BOOLEAN /\ connected' \in BOOLEAN
  BY Zenon DEF ServerInv, ServerTypeOK
<1>2. Shapes'
  <2>1. todo' \in Orders
    BY <1>0, Zenon DEF ServerInv, Shapes
  <2>2. cmd' \in [Actors -> Commands]
    BY Zenon DEF ServerInv, Shapes, Commands
  <2>3. QED
    BY <2>1, <2>2 DEF ServerInv, Shapes
<1>3. \A a \in Actors : /\ cmd'[a] = "queued" => client' = "connecting"
                        /\ cmd'[a] = "sent" => client' \in {"ready", "broken"}
  BY <1>0, SMT DEF ServerInv, Shapes, ServerTypeOK
<1>4. ServerTypeOK'
  BY <1>0, <1>1, <1>3, SMT DEF ServerInv, ServerTypeOK, Shapes
<1>5. Links'
  BY <1>0, Zenon DEF ServerInv, ServerTypeOK, Links
<1>6. (\A r \in Slots : Excused(req[r]))'
  BY Zenon DEF ServerInv, Excused
<1>7. QED
  BY <1>2, <1>4, <1>5, <1>6 DEF ServerInv

LEMMA ListenHolds == ASSUME MaxRetries \in Nat, ServerInv, Listen PROVE ServerInv'
<1> USE DEF Listen, servers, process, link
<1>1. pg' \in BOOLEAN /\ redis' \in BOOLEAN /\ connected' \in BOOLEAN
  BY Zenon DEF ServerInv, ServerTypeOK
<1>2. Shapes'
  BY SMT DEF ServerInv, Shapes, Commands
<1>3. \A a \in Actors : /\ cmd'[a] = "queued" => client' = "connecting"
                        /\ cmd'[a] = "sent" => client' \in {"ready", "broken"}
  BY SMT DEF ServerInv, Shapes, ServerTypeOK
<1>4. ServerTypeOK'
  BY <1>1, <1>3, SMT DEF ServerInv, ServerTypeOK, Shapes, Orders, Links, RedisDone
<1>5. Links'
  BY SMT DEF ServerInv, ServerTypeOK, Links, PrismaDone, RedisDone, Shapes, Orders
<1>6. (\A r \in Slots : Excused(req[r]))'
  BY Zenon DEF ServerInv, Excused
<1>7. QED
  BY <1>2, <1>4, <1>5, <1>6 DEF ServerInv

LEMMA ConnectPrismaHolds == ASSUME MaxRetries \in Nat, ServerInv, ConnectPrisma PROVE ServerInv'
<1> USE DEF ConnectPrisma, connect, servers, process, link, Turn
<1>1. CASE ~pg
  BY <1>1, EndHolds DEF ServerInv, Shapes
<1>2. CASE pg
  <2>1. /\ Tail(todo) \in Orders
        /\ PrismaDone(Tail(todo)) /\ (RedisDone(Tail(todo)) => RedisDone(todo))
    BY NextHook DEF ServerInv, Shapes
  <2>2. /\ connected' = TRUE /\ todo' = Tail(todo)
        /\ UNCHANGED <<servers, proc, checking, starts, signals, link, cmd, req>>
    BY <1>2
  <2> HIDE DEF ConnectPrisma, connect
  <2>3. pg' \in BOOLEAN /\ redis' \in BOOLEAN /\ connected' \in BOOLEAN
    BY <2>2, Zenon DEF ServerInv, ServerTypeOK
  <2>4. Shapes'
    BY <2>1, <2>2, Zenon DEF ServerInv, Shapes
  <2>5. proc = "starting"
    BY DEF ConnectPrisma
  <2>6. ServerTypeOK'
    BY <2>2, <2>3, <2>5, SMT DEF ServerInv, ServerTypeOK
  <2>7. Links'
    BY <2>1, <2>2, <2>5, Zenon DEF ServerInv, Links
  <2>8. (\A r \in Slots : Excused(req[r]))'
    BY <2>2, Zenon DEF ServerInv, Excused
  <2>9. QED
    BY <2>4, <2>6, <2>7, <2>8 DEF ServerInv
<1>3. QED
  BY <1>1, <1>2

LEMMA StopHolds == ASSUME MaxRetries \in Nat, ServerInv, Stop PROVE ServerInv'
<1>1. signals' \in Nat
  BY SMT DEF ServerInv, Shapes, Stop
<1>2. QED
  BY <1>1, EndHolds DEF Stop

-----------------------------------------------------------------------------
(* Requests.                                                               *)

LEMMA ArriveHolds == ASSUME MaxRetries \in Nat, ServerInv, NEW r \in Slots, Arrive(r) PROVE ServerInv'
<1> DEFINE q == [req[r] EXCEPT !.pc = "session"]
<1>1. req[r] \in RequestType /\ Excused(req[r])
  BY DEF ServerInv, Shapes
<1>2. q \in RequestType /\ Excused(q)
  BY <1>1, SMT DEF RequestType, Steps, RedisSteps, Excused
<1>3. req' = [req EXCEPT ![r] = q] /\ cmd' = cmd /\ proc = "up"
      /\ UNCHANGED <<servers, process, link>>
  BY DEF Arrive
<1> HIDE DEF q
<1>4. QED
  BY <1>2, <1>3, SlotHolds

LEMMA SendHolds == ASSUME MaxRetries \in Nat, ServerInv, NEW r \in Slots, Send(r) PROVE ServerInv'
<1> USE DEF Send, servers, process, link
<1>0. r \in Actors
  BY DEF Actors
<1>1. Sent \in Commands
  BY SMT DEF ServerInv, ServerTypeOK, Sent, Commands
<1>2. Shapes'
  BY <1>0, <1>1, Zenon DEF ServerInv, Shapes
<1>3. \A a \in Actors : /\ cmd'[a] = "queued" => client' = "connecting"
                        /\ cmd'[a] = "sent" => client' \in {"ready", "broken"}
  BY <1>0, SMT DEF ServerInv, Shapes, ServerTypeOK, Sent
<1>4. pg' \in BOOLEAN /\ redis' \in BOOLEAN /\ connected' \in BOOLEAN
  BY Zenon DEF ServerInv, ServerTypeOK
<1>5. ServerTypeOK'
  BY <1>3, <1>4, SMT DEF ServerInv, ServerTypeOK
<1>6. Links'
  BY Zenon DEF ServerInv, Links
<1>7. (\A s \in Slots : Excused(req[s]))'
  BY Zenon DEF ServerInv, Excused
<1>8. QED
  BY <1>2, <1>5, <1>6, <1>7 DEF ServerInv

\* What is lost is the step that failed; the ones the cache needs are no
\* reason for an error.
LEMMA FailsOK ==
  ASSUME NEW r \in Slots, req[r] \in RequestType, NEW next \in Steps,
         req[r].pc \in MayFail
  PROVE  Fails(r, next) \in RequestType /\ Excused(Fails(r, next))
<1>0. req[r].lost \cup {req[r].pc} \in SUBSET (RedisSteps \cup Queries)
  BY SMT DEF RequestType, MayFail, RedisSteps, Queries
<1>1. PICK l \in SUBSET (RedisSteps \cup Queries) :
        l = req[r].lost \cup {req[r].pc}
  BY <1>0, Zenon
<1>2. Fails(r, next) = [req[r] EXCEPT !.pc = next, !.error = TRUE, !.lost = l]
  BY <1>1, SMT DEF Fails
<1>3. Fails(r, next) \in RequestType
  BY <1>2, Zenon DEF RequestType
<1>4. Fails(r, next).lost = l
  BY <1>2, SMT DEF RequestType
<1>5. QED
  BY <1>1, <1>3, <1>4 DEF Excused

LEMMA GoesOnOK ==
  ASSUME NEW r \in Slots, req[r] \in RequestType, Excused(req[r]), NEW next \in Steps,
         req[r].pc \in RedisSteps
  PROVE  GoesOn(r, next) \in RequestType /\ Excused(GoesOn(r, next))
<1>0. req[r].lost \cup {req[r].pc} \in SUBSET (RedisSteps \cup Queries)
  BY SMT DEF RequestType, RedisSteps, Queries
<1>1. PICK l \in SUBSET (RedisSteps \cup Queries) :
        l = req[r].lost \cup {req[r].pc}
  BY <1>0, Zenon
<1>2. GoesOn(r, next) = [req[r] EXCEPT !.pc = next, !.lost = l]
  BY <1>1, SMT DEF GoesOn
<1>3. GoesOn(r, next) \in RequestType
  BY <1>2, Zenon DEF RequestType
<1>4. GoesOn(r, next).lost = l /\ GoesOn(r, next).error = req[r].error
  BY <1>2, SMT DEF RequestType
<1>5. QED
  BY <1>1, <1>3, <1>4, Zenon DEF Excused

LEMMA RejectedOK ==
  ASSUME NEW r \in Slots, req[r] \in RequestType, Excused(req[r]), req[r].pc \in RedisSteps,
         NEW next \in Handlers
  PROVE  Rejected(r, next) \in RequestType /\ Excused(Rejected(r, next))
<1> USE DEF Rejected, Steps, RedisSteps, Queries, Handlers
<1>1. CASE req[r].pc = "session"
  BY <1>1, FailsOK DEF MayFail
<1>2. CASE req[r].pc = "throttle"
  BY <1>2, FailsOK DEF MayFail
<1>3. CASE req[r].pc = "guard"
  BY <1>3, GoesOnOK
<1>4. CASE req[r].pc = "fill"
  BY <1>4, GoesOnOK
<1>5. CASE req[r].pc = "touch"
  BY <1>5, GoesOnOK
<1>6. QED
  BY <1>1, <1>2, <1>3, <1>4, <1>5

LEMMA AfterOK ==
  ASSUME NEW step \in RedisSteps \cup Queries, NEW next \in After(step)
  PROVE  next \in Steps
BY SMT DEF After, Steps, RedisSteps, Queries, Handlers

LEMMA MovesOK ==
  ASSUME NEW r \in Slots, req[r] \in RequestType, Excused(req[r]), NEW next \in Steps
  PROVE  [req[r] EXCEPT !.pc = next] \in RequestType /\ Excused([req[r] EXCEPT !.pc = next])
BY SMT DEF RequestType, Excused

LEMMA ReplyHolds == ASSUME MaxRetries \in Nat, ServerInv, NEW r \in Slots, Reply(r) PROVE ServerInv'
<1>1. req[r] \in RequestType /\ Excused(req[r])
  BY DEF ServerInv, Shapes
<1>2. req[r].pc \in RedisSteps /\ req[r].pc # "idle" /\ cmd' = [cmd EXCEPT ![r] = "none"]
      /\ UNCHANGED <<servers, process, link>>
  BY SMT DEF Reply, RedisSteps
<1>3. proc = "up"
  BY <1>2 DEF ServerInv, ServerTypeOK
<1>4. ASSUME NEW next \in After(req[r].pc), req' = [req EXCEPT ![r].pc = next]
      PROVE  ServerInv'
  <2> DEFINE q == [req[r] EXCEPT !.pc = next]
  <2>1. next \in Steps
    BY <1>2, <1>4, AfterOK
  <2>2. q \in RequestType /\ Excused(q)
    BY <1>1, <2>1, MovesOK
  <2>3. req' = [req EXCEPT ![r] = q]
    BY <1>4
  <2> HIDE DEF q
  <2>4. QED
    BY <1>2, <1>3, <2>2, <2>3, SlotHolds
<1>5. ASSUME NEW next \in Handlers, req' = [req EXCEPT ![r] = Rejected(r, next)]
      PROVE  ServerInv'
  <2>1. Rejected(r, next) \in RequestType /\ Excused(Rejected(r, next))
    BY <1>1, <1>2, RejectedOK
  <2>2. QED
    BY <1>2, <1>3, <1>5, <2>1, SlotHolds
<1>6. QED
  BY <1>4, <1>5 DEF Reply

LEMMA QueryHolds == ASSUME MaxRetries \in Nat, ServerInv, NEW r \in Slots, Query(r) PROVE ServerInv'
<1>1. req[r] \in RequestType /\ Excused(req[r])
  BY DEF ServerInv, Shapes
<1>2. req[r].pc \in Queries /\ req[r].pc # "idle" /\ cmd' = cmd
      /\ UNCHANGED <<servers, process, link>>
  BY SMT DEF Query, Queries
<1>3. proc = "up"
  BY <1>2 DEF ServerInv, ServerTypeOK
<1>4. ASSUME NEW next \in After(req[r].pc), req' = [req EXCEPT ![r].pc = next]
      PROVE  ServerInv'
  <2> DEFINE q == [req[r] EXCEPT !.pc = next]
  <2>1. next \in Steps
    BY <1>2, <1>4, AfterOK
  <2>2. q \in RequestType /\ Excused(q)
    BY <1>1, <2>1, MovesOK
  <2>3. req' = [req EXCEPT ![r] = q]
    BY <1>4
  <2> HIDE DEF q
  <2>4. QED
    BY <1>2, <1>3, <2>2, <2>3, SlotHolds
<1>5. CASE req' = [req EXCEPT ![r] = Fails(r, "touch")]
  <2>1. "touch" \in Steps /\ req[r].pc \in MayFail
    BY <1>2, SMT DEF Steps, RedisSteps, Queries, MayFail
  <2>2. Fails(r, "touch") \in RequestType /\ Excused(Fails(r, "touch"))
    BY <1>1, <2>1, FailsOK
  <2>3. QED
    BY <1>2, <1>3, <1>5, <2>2, SlotHolds
<1>6. QED
  BY <1>4, <1>5 DEF Query

LEMMA VerifyHolds == ASSUME MaxRetries \in Nat, ServerInv, NEW r \in Slots, Verify(r) PROVE ServerInv'
<1> DEFINE q == [req[r] EXCEPT !.pc = "handler"]
<1> USE DEF servers, process, link
<1>1. req[r] \in RequestType /\ Excused(req[r]) /\ req[r].pc = "scan"
  BY DEF ServerInv, Shapes, Verify
<1>2. q \in RequestType /\ Excused(q)
  <2>1. "handler" \in Steps
    BY SMT DEF Steps, Queries
  <2>2. QED
    BY <1>1, <2>1, MovesOK
<1>3. /\ req' = [req EXCEPT ![r] = q] /\ checking' = checking \cup {r}
      /\ UNCHANGED <<servers, proc, todo, connected, starts, signals, link, cmd>>
  BY DEF Verify
<1> HIDE DEF q
<1>4. Shapes'
  BY <1>2, <1>3, SMT DEF ServerInv, Shapes
<1>5. proc = "up"
  BY <1>1, SMT DEF ServerInv, ServerTypeOK
<1>6. \A s \in Slots : req'[s] = IF s = r THEN q ELSE req[s]
  BY <1>3, SMT DEF ServerInv, Shapes
<1>7. ServerTypeOK'
  BY <1>3, <1>5, SMT DEF ServerInv, ServerTypeOK
<1>8. Links'
  BY <1>3, Zenon DEF ServerInv, Links
<1>9. (\A s \in Slots : Excused(req[s]))'
  <2> SUFFICES ASSUME NEW s \in Slots PROVE Excused(req'[s])
    BY DEF Excused
  <2>1. CASE s = r
    BY <1>2, <1>6, <2>1
  <2>2. CASE s # r
    BY <1>6, <2>2 DEF ServerInv
  <2>3. QED
    BY <2>1, <2>2
<1>10. QED
  BY <1>4, <1>7, <1>8, <1>9 DEF ServerInv

LEMMA CheckEndsHolds ==
  ASSUME MaxRetries \in Nat, ServerInv, NEW r \in Slots, CheckEnds(r) PROVE ServerInv'
<1> USE DEF servers, process, link
<1>1. CASE ProcessEnds /\ UNCHANGED signals
  BY <1>1, EndHolds DEF ServerInv, Shapes
<1>2. CASE /\ checking' = checking \ {r}
           /\ UNCHANGED <<servers, proc, todo, connected, starts, signals, link, cmd, req>>
  <2>1. Shapes'
    BY <1>2, Zenon DEF ServerInv, Shapes
  <2>2. ServerTypeOK'
    BY <1>2, SMT DEF ServerInv, ServerTypeOK
  <2>3. Links'
    BY <1>2, Zenon DEF ServerInv, Links
  <2>4. (\A s \in Slots : Excused(req[s]))'
    BY <1>2, Zenon DEF ServerInv, Excused
  <2>5. QED
    BY <2>1, <2>2, <2>3, <2>4 DEF ServerInv
<1>3. QED
  BY <1>1, <1>2 DEF CheckEnds

LEMMA AnswerHolds == ASSUME MaxRetries \in Nat, ServerInv, NEW r \in Slots, Answer(r) PROVE ServerInv'
<1>1. NoRequest \in RequestType /\ Excused(NoRequest) /\ NoRequest.pc = "idle"
  BY SMT DEF NoRequest, RequestType, Steps, Excused
<1>2. QED
  BY <1>1, SlotHolds DEF Answer

-----------------------------------------------------------------------------
LEMMA ServerStepHolds == ASSUME MaxRetries \in Nat, ServerInv, ServerNext PROVE ServerInv'
<1>1. CASE Outage \/ PostgresBack \/ RedisBack
  BY <1>1, OutageHolds, PostgresBackHolds, RedisBackHolds
<1>2. CASE SocketError \/ AttemptFails \/ Ready
  BY <1>2, SocketErrorHolds, AttemptFailsHolds, RedisReadyHolds
<1>3. CASE Begin \/ Boots \/ Stop
  BY <1>3, BeginHolds, ConnectPrismaHolds, ConnectRedisHolds, isHealthyHolds,
     ConnectAllHolds, ListenHolds, StopHolds DEF Boots
<1>4. ASSUME NEW r \in Slots, Arrive(r) \/ Serve(r) \/ CheckEnds(r) PROVE ServerInv'
  BY <1>4, ArriveHolds, SendHolds, ReplyHolds, VerifyHolds, QueryHolds, AnswerHolds,
     CheckEndsHolds DEF Serve
<1>5. QED
  BY <1>1, <1>2, <1>3, <1>4 DEF ServerNext

LEMMA ServerStutterHolds == ASSUME ServerInv, UNCHANGED serverVars PROVE ServerInv'
BY DEF serverVars, ServerInv, ServerTypeOK, Shapes, Links, Excused

LEMMA ServerInvAlways == ServerSpec => []ServerInv
<1>1. ServerInit => ServerInv
  BY ServerInitHolds, ServerAssumption
<1>2. ServerInv /\ [ServerNext]_serverVars => ServerInv'
  BY ServerStepHolds, ServerStutterHolds, ServerAssumption
<1>3. QED
  BY <1>1, <1>2, PTL DEF ServerSpec

\* What listens is connected to both databases, and no error is the cache's
\* alone, for any number of requests, starts and outages.
THEOREM ServerHoldsAlways == ServerSpec => []ServerHolds
<1>1. ServerInv => ServerHolds
  BY DEF ServerInv, Links, Excused, MayFail, ServerHolds, ListensConnected, CacheIsOptional
<1>2. QED
  BY <1>1, ServerInvAlways, PTL

\* Only a signal, a start without Postgres, or the check of a device that no
\* handler awaits ends the process.
THEOREM ProcessSurvives == ServerSpec => OutagesSurvived
<1> DEFINE Ended == proc # "down" /\ proc' = "down" =>
                      \/ signals' > signals
                      \/ proc = "starting" /\ ~pg
                      \/ proc = "up" /\ checking # {}
<1>1. ASSUME ServerInv, ServerNext PROVE Ended
  <2> USE DEF servers, process, link
  <2>0. signals \in Nat /\ reconnectStrategy(retries) # NoDelay
    BY <1>1, AlwaysDelay, SMT DEF ServerInv, Shapes, ServerTypeOK
  <2>1. CASE Outage \/ PostgresBack \/ RedisBack
    BY <2>1, SMT DEF Outage, PostgresBack, RedisBack
  <2>2. CASE SocketError \/ AttemptFails \/ Ready
    BY <2>0, <2>2, SMT DEF SocketError, errorHeard, AttemptFails, Ready
  <2>3. CASE Begin \/ ConnectRedis \/ isHealthy \/ ConnectAll \/ Listen
    BY <2>3, SMT DEF Begin, ConnectRedis, isHealthy, ConnectAll, Listen
  <2>4. CASE ConnectPrisma
    BY <2>4, SMT DEF ConnectPrisma, connect, Turn
  <2>5. CASE Stop
    BY <2>0, <2>5, SMT DEF Stop
  <2>6. ASSUME NEW r \in Slots, Arrive(r) \/ Serve(r) PROVE Ended
    BY <2>6, SMT DEF Arrive, Serve, Send, Reply, Verify, Query, Answer
  <2>7. ASSUME NEW r \in Slots, CheckEnds(r) PROVE Ended
    <3>1. r \in checking /\ proc = "up"
      BY <1>1, <2>7 DEF CheckEnds, ServerInv, ServerTypeOK
    <3>2. QED
      BY <3>1
  <2>8. QED
    BY <1>1, <2>1, <2>2, <2>3, <2>4, <2>5, <2>6, <2>7 DEF ServerNext, Boots
<1>2. ASSUME UNCHANGED serverVars PROVE Ended
  BY <1>2 DEF serverVars
<1>3. ServerInv /\ [ServerNext]_serverVars => [Ended]_serverVars
  BY <1>1, <1>2
<1>4. QED
  BY <1>3, ServerInvAlways, PTL DEF ServerSpec, OutagesSurvived

-----------------------------------------------------------------------------
(* The round robin: after how many requests a worker has its turn.          *)

\* The requests that pass until the index, which is at c, comes to a, where
\* both are places from 0 to n - 1.
Turns(a, c, n) == IF a < c THEN c - a - 1 ELSE c - a - 1 + n

Members ==
  /\ added \in Nat
  /\ added <= MaxAdded
  /\ list \subseteq 1..added
  /\ currentIndex \in Nat
  /\ waited \in [Ids -> Nat]

\* An index beyond the n live workers may be read as any of their places: it
\* is there only if they have just changed, and nobody has waited yet.
Waits(w, c, n) ==
  waited[w] <= IF c < n THEN Turns(Place(w) - 1, c, n) ELSE 0

RoundRobin ==
  /\ Members
  /\ IndexInList
  /\ list = {} => currentIndex = 0
  /\ \A w \in healthyWorkers :
       Waits(w, currentIndex, Cardinality(healthyWorkers))

\* The other two leave the index at 0.
BalancerInv ==
  /\ algorithm = "round-robin" => RoundRobin
  /\ algorithm # "round-robin" => currentIndex = 0 /\ IsFiniteSet(list)

\* Arithmetic of the index.
LEMMA Multiple ==
  ASSUME NEW n \in Nat, NEW d \in Int, d >= 1
  PROVE  n * d >= n
<1>1. PICK e \in Nat : d = e + 1
  <2> WITNESS d - 1 \in Nat
  <2> QED OBVIOUS
<1>2. n * d = n * e + n
  BY <1>1
<1>3. n * e \in Nat
  BY <1>1
<1> QED BY <1>2, <1>3

\* A number has one quotient and one rest.
LEMMA OneRest ==
  ASSUME NEW n \in Nat, NEW p \in Int, NEW q \in Int,
         NEW r \in 0..(n - 1), NEW s \in 0..(n - 1),
         n * p + r = n * q + s
  PROVE  r = s
<1>1. n * (p - q) = s - r /\ n * (q - p) = r - s
  OBVIOUS
<1>2. ~ (p - q >= 1)
  BY <1>1, Multiple
<1>3. ~ (q - p >= 1)
  BY <1>1, Multiple
<1>4. p = q
  BY <1>2, <1>3
<1> QED BY <1>1, <1>4

LEMMA NextMod ==
  ASSUME NEW c \in Nat, NEW n \in Nat, n > 0
  PROVE  /\ c % n \in 0..(n - 1)
         /\ c < n => c % n = c
         /\ (c + 1) % n = IF (c % n) + 1 = n THEN 0 ELSE (c % n) + 1
<1>1. c % n \in 0..(n - 1) /\ (c + 1) % n \in 0..(n - 1)
  OBVIOUS
<1>2. c < n => c % n = c
  OBVIOUS
<1> DEFINE p == c \div n
           q == (c + 1) \div n
           next == IF (c % n) + 1 = n THEN 0 ELSE (c % n) + 1
<1>3. /\ p \in Int /\ q \in Int
      /\ c = n * p + (c % n)
      /\ c + 1 = n * q + ((c + 1) % n)
  OBVIOUS
<1>4. next \in 0..(n - 1)
  BY <1>1
<1>5. \E k \in Int : c + 1 = n * k + next
  <2>1. CASE (c % n) + 1 = n
    <3>1. c + 1 = n * p + n
      BY <1>1, <1>3, <2>1
    <3>2. n * p + n = n * (p + 1)
      BY <1>3
    <3>3. c + 1 = n * (p + 1) + next
      BY <3>1, <3>2, <2>1, <1>3
    <3>4. p + 1 \in Int
      BY <1>3
    <3> QED BY <3>3, <3>4
  <2>2. CASE (c % n) + 1 # n
    <3>1. c + 1 = n * p + next
      BY <1>1, <1>3, <2>2
    <3> QED BY <1>3, <3>1
  <2> QED BY <2>1, <2>2
<1>6. PICK k \in Int : c + 1 = n * k + next
  BY <1>5
<1>7. n * q + ((c + 1) % n) = n * k + next
  BY <1>3, <1>6
<1> HIDE DEF next, p, q
<1>8. (c + 1) % n = next
  BY <1>1, <1>3, <1>4, <1>7, OneRest
<1> QED BY <1>1, <1>2, <1>8 DEF next

-----------------------------------------------------------------------------
\* Live workers have a place each, and no two of them the same.
HasPlaces ==
  /\ IsFiniteSet(list)
  /\ IsFiniteSet(healthyWorkers)
  /\ Cardinality(healthyWorkers) \in Nat
  /\ Cardinality(healthyWorkers) <= Cardinality(list)
  /\ Cardinality(list) \in Nat
  /\ healthyWorkers \subseteq Ids
  /\ \A w \in healthyWorkers : Place(w) \in 1..Cardinality(healthyWorkers)
  /\ \A w, x \in healthyWorkers : Place(w) = Place(x) => w = x

LEMMA PlacesAre == Members => HasPlaces
<1> SUFFICES ASSUME Members PROVE HasPlaces
  OBVIOUS
<1> DEFINE H == healthyWorkers
           Up(w) == {x \in H : x <= w}
<1>1. IsFiniteSet(list)
  <2>1. IsFiniteSet(1..added)
    BY FS_Interval DEF Members
  <2> QED BY <2>1, FS_Subset DEF Members
<1>2. H \subseteq list
  BY DEF healthyWorkers
<1>3. /\ IsFiniteSet(H)
      /\ Cardinality(H) <= Cardinality(list)
  BY <1>1, <1>2, FS_Subset
<1>4. Cardinality(H) \in Nat /\ Cardinality(list) \in Nat
  BY <1>1, <1>3, FS_CardinalityType
<1>5. H \subseteq Ids /\ H \subseteq Int
  <2>1. 1..added \subseteq Ids /\ 1..added \subseteq Int
    BY LoadBalancerAssumption DEF Members, Ids
  <2> QED BY <1>2, <2>1 DEF Members
<1>10. \A w \in H : Place(w) = Cardinality(Up(w))
  BY DEF Place
<1> HIDE DEF H
<1>6. \A w \in H : IsFiniteSet(Up(w)) /\ Cardinality(Up(w)) \in Nat
                   /\ Cardinality(Up(w)) <= Cardinality(H)
  BY <1>3, FS_Subset, FS_CardinalityType
<1>7. \A w \in H : Cardinality(Up(w)) # 0
  <2> SUFFICES ASSUME NEW w \in H PROVE Cardinality(Up(w)) # 0
    OBVIOUS
  <2>1. w \in Up(w)
    BY <1>5
  <2>2. IsFiniteSet(Up(w))
    BY <1>6
  <2> QED BY <2>1, <2>2, FS_EmptySet
<1>8. ASSUME NEW w \in H, NEW x \in H, w < x
      PROVE  Cardinality(Up(w)) # Cardinality(Up(x))
  <2>1. Up(w) \subseteq Up(x) /\ Up(w) # Up(x)
    <3>1. w \in Int /\ x \in Int
      BY <1>5, <1>8
    <3>2. \A y \in H : y \in Int
      BY <1>5
    <3>3. x \in Up(x) /\ x \notin Up(w)
      BY <1>8, <3>1
    <3>4. \A y \in Up(w) : y \in H /\ y <= x
      BY <1>8, <3>1, <3>2
    <3>5. Up(w) \subseteq Up(x)
      BY <3>4
    <3> QED BY <3>3, <3>5
  <2>2. IsFiniteSet(Up(x))
    BY <1>6
  <2> HIDE DEF Up
  <2> QED BY <2>1, <2>2, FS_Subset
<1>9. \A w, x \in H : Cardinality(Up(w)) = Cardinality(Up(x)) => w = x
  BY <1>5, <1>8
<1>11. \A w \in H : Cardinality(Up(w)) \in 1..Cardinality(H)
  BY <1>4, <1>6, <1>7
<1> HIDE DEF Up
<1> QED BY <1>1, <1>3, <1>4, <1>5, <1>9, <1>10, <1>11 DEF H, HasPlaces

LEMMA PlacesNext == Members' => HasPlaces'
BY PlacesAre, PTL

\* A selection moves the index to the place behind the one it selects.
LEMMA TurnsPass ==
  ASSUME NEW n \in Nat, NEW c \in Nat, NEW a \in 0..(n - 1), a # c % n,
         NEW v \in Nat, v <= IF c < n THEN Turns(a, c, n) ELSE 0
  PROVE  v + 1 <= Turns(a, (c + 1) % n, n)
<1>1. n > 0
  OBVIOUS
<1> DEFINE k == c % n
<1>2. /\ k \in 0..(n - 1)
      /\ c < n => k = c
      /\ (c + 1) % n = IF k + 1 = n THEN 0 ELSE k + 1
  BY <1>1, NextMod
<1>3. a # k
  OBVIOUS
<1> HIDE DEF k
<1>4. Turns(a, IF k + 1 = n THEN 0 ELSE k + 1, n)
        = IF a < k THEN k - a ELSE k - a + n
  BY <1>2, <1>3 DEF Turns
<1>5. v + 1 <= IF a < k THEN k - a ELSE k - a + n
  <2>1. CASE c < n
    BY <1>2, <1>3, <2>1 DEF Turns
  <2>2. CASE ~ (c < n)
    BY <1>2, <1>3, <2>2
  <2> QED BY <2>1, <2>2
<1> QED BY <1>2, <1>4, <1>5

\* Nobody's number of turns is negative.
LEMMA TurnsAreTurns ==
  ASSUME NEW n \in Nat, NEW c \in Nat, NEW a \in 0..(n - 1)
  PROVE  /\ c < n => Turns(a, c, n) \in 0..(n - 1)
         /\ 0 <= IF c < n THEN Turns(a, c, n) ELSE 0
         /\ (IF c < n THEN Turns(a, c, n) ELSE 0) < n
BY DEF Turns

\* Each place has its worker.
LEMMA EveryPlaceIsTaken ==
  ASSUME Members, NEW k \in 1..Cardinality(healthyWorkers)
  PROVE  \E w \in healthyWorkers : Place(w) = k
<1> DEFINE n == Cardinality(healthyWorkers)
           f == [w \in healthyWorkers |-> Place(w)]
<1>1. n \in Nat /\ IsFiniteSet(healthyWorkers)
  BY PlacesAre DEF HasPlaces
<1>2. IsFiniteSet(1..n) /\ Cardinality(1..n) = n
  BY <1>1, FS_Interval
<1>3. f \in Injection(healthyWorkers, 1..n)
  BY PlacesAre DEF Injection, IsInjective, HasPlaces
<1>4. f \in Surjection(healthyWorkers, 1..n)
  BY <1>2, <1>3, FS_Injection
<1> QED BY <1>4 DEF Surjection

\* What a round robin selects is a live worker of the list, at the place of
\* the index.
LEMMA RoundRobinChoiceIs ==
  ASSUME Members, healthyWorkers # {}
  PROVE  /\ RoundRobinChoice \in healthyWorkers
         /\ Place(RoundRobinChoice) = (currentIndex % Cardinality(healthyWorkers)) + 1
<1> DEFINE n == Cardinality(healthyWorkers)
           k == (currentIndex % n) + 1
<1>1. n \in Nat /\ n # 0
  BY PlacesAre, FS_EmptySet DEF HasPlaces
<1>2. currentIndex \in Nat
  BY DEF Members
<1>3. k \in 1..n
  BY <1>1, <1>2, NextMod
<1>4. \E w \in healthyWorkers : Place(w) = k
  BY <1>3, EveryPlaceIsTaken
<1> HIDE DEF k, n
<1>5. RoundRobinChoice = CHOOSE w \in healthyWorkers : Place(w) = k
  BY DEF RoundRobinChoice, k, n
<1> QED BY <1>4, <1>5 DEF k, n

-----------------------------------------------------------------------------
LEMMA RoundRobinInit == BalancerInit /\ algorithm = "round-robin" => RoundRobin
BY LoadBalancerAssumption
   DEF BalancerInit, RoundRobin, Members, IndexInList, healthyWorkers

\* The selected worker goes behind all others, which have one turn less to
\* wait; an index beyond the live workers is read modulo their number.
LEMMA RoundRobinSelects ==
  ASSUME RoundRobin, algorithm = "round-robin", SelectWorker
  PROVE  RoundRobin'
<1> DEFINE n == Cardinality(healthyWorkers)
           c == currentIndex
<1>1. /\ Members
      /\ n \in Nat /\ n # 0 /\ n <= Cardinality(list) /\ Cardinality(list) \in Nat
      /\ healthyWorkers \subseteq Ids
      /\ c \in Nat
      /\ waited \in [Ids -> Nat]
  BY PlacesAre, FS_EmptySet DEF RoundRobin, Members, SelectWorker, HasPlaces
<1>2. /\ currentIndex' = (c + 1) % n
      /\ waited' = Passed(RoundRobinChoice)
      /\ UNCHANGED <<added, dead, list>>
      /\ UNCHANGED algorithm
  BY DEF SelectWorker, SelectRoundRobin, NextIndex, Choice, members
<1>3. (c + 1) % n \in 0..(n - 1)
  BY <1>1, NextMod
<1>4. healthyWorkers' = healthyWorkers /\ n' = n
  BY <1>2 DEF healthyWorkers
<1>5. \A w : Place(w)' = Place(w)
  BY <1>4 DEF Place
<1>6. waited' \in [Ids -> Nat]
  BY <1>1, <1>2 DEF Passed
<1>7. Members'
  BY <1>1, <1>2, <1>3, <1>6 DEF Members
<1>8. IndexInList'
  BY <1>1, <1>2, <1>3 DEF IndexInList
<1>9. ASSUME NEW w \in healthyWorkers
      PROVE  waited'[w] <= Turns(Place(w) - 1, (c + 1) % n, n)
  <2>1. Place(w) - 1 \in 0..(n - 1) /\ waited[w] \in Nat
    BY <1>1, PlacesAre DEF HasPlaces
  <2>2. waited[w] <= IF c < n THEN Turns(Place(w) - 1, c, n) ELSE 0
    BY DEF RoundRobin, Waits
  <2>3. CASE w = RoundRobinChoice
    <3>1. waited'[w] = 0
      BY <1>1, <1>2, <2>3 DEF Passed
    <3>2. Turns(Place(w) - 1, (c + 1) % n, n) >= 0
      BY <1>1, <1>3, <2>1, TurnsAreTurns
    <3> QED BY <3>1, <3>2
  <2>4. CASE w # RoundRobinChoice
    <3>1. waited'[w] = waited[w] + 1
      BY <1>1, <1>2, <2>4 DEF Passed
    <3>2. Place(w) - 1 # c % n
      BY <1>1, <2>1, <2>4, PlacesAre, RoundRobinChoiceIs, NextMod DEF HasPlaces
    <3> QED BY <1>1, <2>1, <2>2, <3>1, <3>2, TurnsPass
  <2> QED BY <2>3, <2>4
<1>10. ASSUME NEW w \in healthyWorkers'
       PROVE  Waits(w, currentIndex, Cardinality(healthyWorkers))'
  <2>1. waited'[w] <= Turns(Place(w) - 1, (c + 1) % n, n)
    BY <1>4, <1>9
  <2>2. (c + 1) % n < n
    BY <1>1, <1>3
  <2> HIDE DEF n, c
  <2>3. waited'[w] <= IF (c + 1) % n < n THEN Turns(Place(w) - 1, (c + 1) % n, n) ELSE 0
    BY <2>1, <2>2
  <2>4. Place(w)' = Place(w)
    BY <1>5
  <2>5. Cardinality(healthyWorkers)' = n
    BY <1>4 DEF n
  <2> QED BY <1>2, <2>3, <2>4, <2>5 DEF Waits
<1>11. list' # {}
  BY <1>2 DEF SelectWorker, healthyWorkers
<1> QED BY <1>7, <1>8, <1>10, <1>11 DEF RoundRobin

\* While every wait is new, any index and any list do.
LEMMA RoundRobinBegins ==
  ASSUME Members', IndexInList', (list = {} => currentIndex = 0)', waited' = Fresh
  PROVE  RoundRobin'
<1>1. SUFFICES ASSUME NEW w \in healthyWorkers'
               PROVE  Waits(w, currentIndex, Cardinality(healthyWorkers))'
  BY DEF RoundRobin
<1>2. /\ w \in Ids /\ currentIndex' \in Nat
      /\ Cardinality(healthyWorkers)' \in Nat
      /\ Place(w)' - 1 \in 0..(Cardinality(healthyWorkers)' - 1)
  <2>1. /\ healthyWorkers' \subseteq Ids
        /\ Cardinality(healthyWorkers)' \in Nat
        /\ \A x \in healthyWorkers' : Place(x)' \in 1..Cardinality(healthyWorkers)'
    BY PlacesNext DEF HasPlaces
  <2> QED BY <2>1 DEF Members
<1>3. waited'[w] = 0
  BY <1>2 DEF Fresh
<1> QED BY <1>2, <1>3, TurnsAreTurns DEF Waits

\* Each change of the live workers begins anew; the removal of a dead worker
\* changes neither them nor an index within their number.
LEMMA RoundRobinChanges ==
  ASSUME RoundRobin, algorithm = "round-robin",
         AddWorker \/ \E w \in Ids : RemoveWorker(w) \/ Die(w)
  PROVE  RoundRobin'
<1>1. /\ added \in Nat /\ added <= MaxAdded /\ MaxAdded \in Nat
      /\ list \subseteq 1..added
      /\ currentIndex \in Nat
      /\ waited \in [Ids -> Nat]
      /\ Fresh \in [Ids -> Nat]
  BY LoadBalancerAssumption DEF RoundRobin, Members, Fresh
<1>2. /\ IsFiniteSet(list) /\ Cardinality(list) \in Nat
      /\ Cardinality(healthyWorkers) \in Nat
      /\ healthyWorkers \subseteq Ids
  BY PlacesAre DEF RoundRobin, HasPlaces
<1>3. CASE AddWorker
  <2>1. /\ added' = added + 1 /\ added < MaxAdded
        /\ list' = list \cup {added + 1}
        /\ currentIndex' = currentIndex
        /\ waited' = Fresh
    BY <1>3 DEF AddWorker
  <2>2. Members'
    BY <1>1, <2>1 DEF Members
  <2>3. added + 1 \notin list
    BY <1>1
  <2>4. Cardinality(list') = Cardinality(list) + 1
    BY <1>2, <2>1, <2>3, FS_AddElement
  <2>5. list = {} => Cardinality(list) = 0 /\ currentIndex = 0
    BY FS_EmptySet DEF RoundRobin
  <2>6. IndexInList'
    BY <1>1, <1>2, <2>1, <2>4, <2>5 DEF IndexInList, RoundRobin
  <2>7. list' # {}
    BY <2>1
  <2> QED BY <2>1, <2>2, <2>6, <2>7, RoundRobinBegins
<1>4. ASSUME NEW w \in Ids, RemoveWorker(w)
      PROVE  RoundRobin'
  <2> DEFINE left == list \ {w}
  <2>1. /\ added' = added /\ dead' = dead
        /\ w \in list /\ list' = left
        /\ currentIndex' = IF currentIndex >= Cardinality(left) THEN 0 ELSE currentIndex
        /\ waited' = IF w \in dead THEN waited ELSE Fresh
    BY <1>4 DEF RemoveWorker, IndexWithin
  <2>2. IsFiniteSet(left) /\ Cardinality(left) \in Nat
    BY <1>2, FS_Subset, FS_CardinalityType
  <2>3. Members'
    BY <1>1, <2>1, <2>2 DEF Members
  <2>4. left # {} => Cardinality(left) # 0
    BY <2>2, FS_EmptySet
  <2> HIDE DEF left
  <2>5. IndexInList'
    BY <1>1, <2>1, <2>2, <2>4 DEF IndexInList
  <2>6. list' = {} => currentIndex' = 0
    <3>1. left = {} => Cardinality(left) = 0
      BY FS_EmptySet
    <3> QED BY <1>1, <2>1, <3>1
  <2>7. CASE w \notin dead
    BY <2>1, <2>3, <2>5, <2>7, <2>6, RoundRobinBegins
  <2>8. CASE w \in dead
    <3>1. healthyWorkers' = healthyWorkers
      BY <2>1, <2>8 DEF healthyWorkers, left
    <3>2. Cardinality(healthyWorkers) <= Cardinality(left)
      <4>1. healthyWorkers \subseteq left
        BY <2>8 DEF healthyWorkers, left
      <4> QED BY <2>2, <4>1, FS_Subset
    <3>3. ASSUME NEW x \in healthyWorkers'
          PROVE  Waits(x, currentIndex, Cardinality(healthyWorkers))'
      <4>1. Place(x)' = Place(x)
        BY <3>1 DEF Place
      <4>2. Waits(x, currentIndex, Cardinality(healthyWorkers))
        BY <3>1, <3>3 DEF RoundRobin
      <4>3. Cardinality(healthyWorkers)' = Cardinality(healthyWorkers)
        BY <3>1
      <4>4. waited'[x] = waited[x]
        BY <2>1, <2>8
      <4>5. Place(x) - 1 \in 0..(Cardinality(healthyWorkers) - 1)
        BY <1>2, <3>1, <3>3, PlacesAre DEF RoundRobin, HasPlaces
      <4>6. waited[x] \in Nat
        BY <1>1, <1>2, <3>1, <3>3
      <4>7. CASE currentIndex < Cardinality(healthyWorkers)
        <5>1. currentIndex' = currentIndex
          BY <1>1, <1>2, <2>1, <2>2, <3>2, <4>7
        <5> QED BY <4>1, <4>2, <4>3, <4>4, <5>1 DEF Waits
      <4>8. CASE ~ (currentIndex < Cardinality(healthyWorkers))
        <5>1. waited'[x] <= 0
          BY <4>2, <4>4, <4>8 DEF Waits
        <5>2. currentIndex' \in Nat
          BY <2>3 DEF Members
        <5>3. 0 <= IF currentIndex' < Cardinality(healthyWorkers)
                   THEN Turns(Place(x) - 1, currentIndex', Cardinality(healthyWorkers))
                   ELSE 0
          BY <1>2, <4>5, <5>2, TurnsAreTurns
        <5>4. waited'[x] = 0
          BY <4>4, <4>6, <5>1
        <5>5. waited'[x] <= IF currentIndex' < Cardinality(healthyWorkers)
                            THEN Turns(Place(x) - 1, currentIndex', Cardinality(healthyWorkers))
                            ELSE 0
          BY <5>3, <5>4
        <5> QED BY <4>1, <4>3, <5>5 DEF Waits
      <4> QED BY <4>7, <4>8
    <3> QED BY <2>3, <2>5, <2>6, <3>3 DEF RoundRobin
  <2> QED BY <2>7, <2>8
<1>5. ASSUME NEW w \in Ids, Die(w)
      PROVE  RoundRobin'
  <2>1. /\ added' = added /\ list' = list /\ currentIndex' = currentIndex
        /\ dead' = dead \cup {w}
        /\ waited' = IF w \in list THEN Fresh ELSE waited
    BY <1>5 DEF Die
  <2>2. Members'
    BY <1>1, <2>1 DEF Members
  <2>3. IndexInList'
    BY <2>1 DEF IndexInList, RoundRobin
  <2>4. CASE w \in list
    BY <2>1, <2>2, <2>3, <2>4, RoundRobinBegins DEF RoundRobin
  <2>5. CASE w \notin list
    <3>1. healthyWorkers' = healthyWorkers
      BY <2>1, <2>5 DEF healthyWorkers
    <3>2. ASSUME NEW x \in healthyWorkers'
          PROVE  Waits(x, currentIndex, Cardinality(healthyWorkers))'
      <4>1. Place(x)' = Place(x) /\ Cardinality(healthyWorkers)' = Cardinality(healthyWorkers)
        BY <3>1 DEF Place
      <4>2. Waits(x, currentIndex, Cardinality(healthyWorkers))
        BY <3>1, <3>2 DEF RoundRobin
      <4> QED BY <2>1, <2>5, <4>1, <4>2 DEF Waits
    <3> QED BY <2>1, <2>2, <2>3, <3>2 DEF RoundRobin
  <2> QED BY <2>4, <2>5
<1> QED BY <1>3, <1>4, <1>5

\* No other balancer has an index.
LEMMA IndexElsewhere ==
  ASSUME algorithm # "round-robin", currentIndex = 0, IsFiniteSet(list),
         BalancerNext
  PROVE  (currentIndex = 0 /\ IsFiniteSet(list))'
<1>1. CASE SelectWorker
  BY <1>1 DEF SelectWorker, SelectWeighted, SelectLeast, members
<1>2. CASE AddWorker
  BY <1>2, FS_AddElement DEF AddWorker
<1>3. ASSUME NEW w \in Ids, RemoveWorker(w)
      PROVE  (currentIndex = 0 /\ IsFiniteSet(list))'
  BY <1>3, FS_RemoveElement DEF RemoveWorker
<1>4. ASSUME NEW w \in Ids, Die(w)
      PROVE  (currentIndex = 0 /\ IsFiniteSet(list))'
  BY <1>4 DEF Die
<1>5. ASSUME NEW w \in 1..added, NEW load \in Loads, UpdateWorkerLoad(w, load)
      PROVE  (currentIndex = 0 /\ IsFiniteSet(list))'
  BY <1>5 DEF UpdateWorkerLoad, members
<1> QED BY <1>1, <1>2, <1>3, <1>4, <1>5 DEF BalancerNext

LEMMA AlgorithmStays == BalancerNext => algorithm' = algorithm
BY DEF BalancerNext, SelectWorker, AddWorker, RemoveWorker, Die, UpdateWorkerLoad

\* Turns are fewer than the live workers.
LEMMA RoundRobinFair == BalancerInv => RoundRobinIsFair /\ IndexInList
<1> SUFFICES ASSUME BalancerInv PROVE RoundRobinIsFair /\ IndexInList
  OBVIOUS
<1>1. CASE algorithm # "round-robin"
  <2>1. list # {} => Cardinality(list) \in Nat /\ Cardinality(list) # 0
    BY <1>1, FS_CardinalityType, FS_EmptySet DEF BalancerInv
  <2> QED BY <1>1, <2>1 DEF BalancerInv, RoundRobinIsFair, IndexInList
<1>2. CASE algorithm = "round-robin"
  <2>1. RoundRobin /\ Members
    BY <1>2 DEF BalancerInv, RoundRobin
  <2>2. ASSUME NEW w \in healthyWorkers
        PROVE  waited[w] < Cardinality(healthyWorkers)
    <3>1. /\ Place(w) - 1 \in 0..(Cardinality(healthyWorkers) - 1)
          /\ Cardinality(healthyWorkers) \in Nat
          /\ w \in Ids
      BY <2>1, PlacesAre DEF HasPlaces
    <3>2. currentIndex \in Nat /\ waited[w] \in Nat
      BY <2>1, <3>1 DEF Members
    <3>3. Waits(w, currentIndex, Cardinality(healthyWorkers))
      BY <2>1 DEF RoundRobin
    <3> QED BY <3>1, <3>2, <3>3, TurnsAreTurns DEF Waits, Turns
  <2> QED BY <2>1, <2>2 DEF RoundRobin, RoundRobinIsFair
<1> QED BY <1>1, <1>2

\* What is known of the index in every reachable state, whatever the algorithm.
LEMMA BalancerInvHolds == BalancerSpec => []BalancerInv
<1>1. BalancerInit => BalancerInv
  BY RoundRobinInit, FS_EmptySet DEF BalancerInit, BalancerInv
<1>2. BalancerInv /\ [BalancerNext]_balancerVars => BalancerInv'
  <2> SUFFICES ASSUME BalancerInv, [BalancerNext]_balancerVars
               PROVE  BalancerInv'
    OBVIOUS
  <2>1. CASE algorithm # "round-robin" /\ BalancerNext
    BY <2>1, IndexElsewhere, AlgorithmStays DEF BalancerInv
  <2>2. CASE algorithm = "round-robin" /\ BalancerNext
    <3>1. RoundRobin
      BY <2>2 DEF BalancerInv
    <3>2. SelectWorker => RoundRobin'
      BY <2>2, <3>1, RoundRobinSelects
    <3>3. (AddWorker \/ \E w \in Ids : RemoveWorker(w) \/ Die(w)) => RoundRobin'
      BY <2>2, <3>1, RoundRobinChanges
    <3>4. ~ \E w \in 1..added, load \in Loads : UpdateWorkerLoad(w, load)
      BY <2>2 DEF UpdateWorkerLoad
    <3>5. RoundRobin'
      BY <2>2, <3>2, <3>3, <3>4 DEF BalancerNext
    <3> QED BY <2>2, <3>5, AlgorithmStays DEF BalancerInv
  <2>3. CASE UNCHANGED balancerVars
    <3>1. /\ algorithm' = algorithm /\ added' = added /\ dead' = dead /\ list' = list
          /\ currentIndex' = currentIndex /\ waited' = waited
      BY <2>3 DEF balancerVars, members
    <3> QED BY <3>1 DEF BalancerInv, RoundRobin, Members, IndexInList, Waits,
                        Place, healthyWorkers
  <2> QED BY <2>1, <2>2, <2>3
<1> QED BY <1>1, <1>2, PTL DEF BalancerSpec

\* Between two changes of its live workers a round robin selects each of them
\* once in as many requests as there are of them, and its index is one of the
\* list, for any number of workers and wherever additions, removals and deaths
\* have left the index that selectWorker writes modulo one number and reads
\* modulo another.
THEOREM RoundRobinHolds == BalancerSpec => [](RoundRobinIsFair /\ IndexInList)
BY BalancerInvHolds, RoundRobinFair, PTL

-----------------------------------------------------------------------------
(* The weighted round robin: sums of weights.  Induction is on a set of    *)
(* numbers, which has a least one, and from there on the subsets of a      *)
(* finite set; the fold that adds up the weights then has a value for each  *)
(* set of workers, in whatever order it takes them.                         *)

\* The order of the natural numbers.
Below == {p \in Nat \X Nat : p[1] < p[2]}

\* A set of numbers has a least one.
LEMMA LeastNumber ==
  ASSUME NEW T, T \subseteq Nat, T # {}
  PROVE  \E m \in T : \A n \in T : m <= n
<1>1. OpToRel(<, Nat) = Below
  BY DEF OpToRel, Below
<1>2. IsWellFoundedOn(Below, Nat)
  BY <1>1, NatLessThanWellFounded
<1>3. PICK x \in T : \A y \in T : ~ (<<y, x>> \in Below)
  BY <1>2, WFMin
<1>4. ASSUME NEW y \in T PROVE x <= y
  <2>1. <<y, x>> \in Nat \X Nat /\ <<y, x>>[1] = y /\ <<y, x>>[2] = x
    OBVIOUS
  <2>2. ~(y < x)
    BY <1>3, <2>1 DEF Below
  <2>3. QED
    BY <2>2
<1>5. QED
  BY <1>4

\* Induction, on a set of numbers.
LEMMA Inductive ==
  ASSUME NEW P, 0 \in P, \A n \in Nat : n \in P => n + 1 \in P
  PROVE  \A n \in Nat : n \in P
<1> SUFFICES ASSUME NEW k \in Nat, k \notin P PROVE FALSE
  OBVIOUS
<1>1. PICK m \in Nat \ P : \A n \in Nat \ P : m <= n
  BY LeastNumber
<1>2. m # 0 /\ m - 1 \in Nat
  BY <1>1
<1>3. m - 1 \in P
  BY <1>1, <1>2
<1> QED BY <1>1, <1>2, <1>3

\* What TotalWeight is an instance of.
Sum(f, J) == MapThenSumSet(LAMBDA w : f[w], J)

\* The element that the fold takes next.
Pick(J) == CHOOSE x \in J : TRUE

\* The fold, with its definition expanded.
LEMMA SumUnfolds ==
  ASSUME NEW f, NEW S
  PROVE  Sum(f, S) =
           (CHOOSE g : g = [J \in SUBSET S |->
               IF J = {} THEN 0 ELSE f[Pick(J)] + g[J \ {Pick(J)}]])[S]
BY DEF Sum, MapThenSumSet, MapThenFoldSet, Pick

LEMMA TotalIs == TotalWeight = Sum(weight, healthyWorkers)
BY DEF TotalWeight, Sum

\* Induction on the subsets of a finite set, one element at a time.
LEMMA SubsetInduction ==
  ASSUME NEW S, IsFiniteSet(S), NEW Q, {} \in Q,
         \A J \in SUBSET S : (J # {} /\ \A x \in J : J \ {x} \in Q) => J \in Q
  PROVE  \A J \in SUBSET S : J \in Q
<1> DEFINE P == {k \in Nat : \A J \in SUBSET S : Cardinality(J) = k => J \in Q}
<1>1. \A J \in SUBSET S : IsFiniteSet(J) /\ Cardinality(J) \in Nat
  BY FS_Subset, FS_CardinalityType
<1>2. 0 \in P
  BY <1>1, FS_EmptySet
<1>3. ASSUME NEW k \in Nat, k \in P PROVE k + 1 \in P
  <2>1. SUFFICES ASSUME NEW J \in SUBSET S, Cardinality(J) = k + 1 PROVE J \in Q
    OBVIOUS
  <2>2. J # {}
    <3>1. Cardinality({}) = 0
      BY FS_EmptySet
    <3> QED BY <1>3, <2>1, <3>1
  <2>3. ASSUME NEW x \in J PROVE J \ {x} \in Q
    <3>1. Cardinality(J \ {x}) = Cardinality(J) - 1
      BY <1>1, FS_RemoveElement
    <3> QED BY <1>3, <2>1, <3>1
  <2> QED BY <2>2, <2>3
<1> HIDE DEF P
<1>4. \A k \in Nat : k \in P
  BY <1>2, <1>3, Inductive
<1> QED BY <1>1, <1>4 DEF P

\* F is the sum over each subset of S.
AddsUp(f, F, S) ==
  /\ F \in [SUBSET S -> Int]
  /\ F[{}] = 0
  /\ \A T \in SUBSET S : \A x \in T : F[T] = f[x] + F[T \ {x}]

\* Such an F exists: the last element is added to what there is without it.
LEMMA SumExists ==
  ASSUME NEW m \in Nat, NEW f \in [1..m -> Int]
  PROVE  \E F : AddsUp(f, F, 1..m)
<1> DEFINE P == {k \in Nat : k <= m => \E F : AddsUp(f, F, 1..k)}
<1>1. 0 \in P
  <2> DEFINE F == [T \in SUBSET (1..0) |-> 0]
  <2>1. AddsUp(f, F, 1..0)
    BY DEF AddsUp
  <2> QED BY <2>1
<1>2. ASSUME NEW k \in Nat, k \in P PROVE k + 1 \in P
  <2>1. SUFFICES ASSUME k + 1 <= m PROVE \E F : AddsUp(f, F, 1..(k + 1))
    OBVIOUS
  <2>2. PICK F : AddsUp(f, F, 1..k)
    BY <1>2, <2>1
  <2> DEFINE G == [T \in SUBSET (1..(k + 1)) |->
                     F[T \ {k + 1}] + (IF k + 1 \in T THEN f[k + 1] ELSE 0)]
  <2>3. \A T \in SUBSET (1..(k + 1)) : T \ {k + 1} \in SUBSET (1..k)
    OBVIOUS
  <2>4. f[k + 1] \in Int
    BY <2>1
  <2>5. \A T \in SUBSET (1..(k + 1)) : F[T \ {k + 1}] \in Int
    BY <2>2, <2>3 DEF AddsUp
  <2>6. G \in [SUBSET (1..(k + 1)) -> Int]
    <3>1. \A T \in SUBSET (1..(k + 1)) :
            F[T \ {k + 1}] + (IF k + 1 \in T THEN f[k + 1] ELSE 0) \in Int
      <4> SUFFICES ASSUME NEW T \in SUBSET (1..(k + 1))
                   PROVE  F[T \ {k + 1}] + (IF k + 1 \in T THEN f[k + 1] ELSE 0) \in Int
        OBVIOUS
      <4>1. F[T \ {k + 1}] \in Int
        BY <2>5
      <4>2. CASE k + 1 \in T
        BY <2>4, <4>1, <4>2
      <4>3. CASE k + 1 \notin T
        BY <4>1, <4>3
      <4> QED BY <4>2, <4>3
    <3> QED BY <3>1
  <2>7. G[{}] = 0
    <3>1. {} \ {k + 1} = {} /\ {} \in SUBSET (1..(k + 1))
      OBVIOUS
    <3> QED BY <2>2, <3>1 DEF AddsUp
  <2>8. ASSUME NEW T \in SUBSET (1..(k + 1)), NEW x \in T
        PROVE  G[T] = f[x] + G[T \ {x}]
    <3>1. T \ {x} \in SUBSET (1..(k + 1))
      OBVIOUS
    <3>2. CASE x = k + 1
      <4>1. (T \ {x}) \ {k + 1} = T \ {k + 1} /\ k + 1 \in T /\ k + 1 \notin T \ {x}
        BY <3>2
      <4>2. G[T] = F[T \ {k + 1}] + f[k + 1] /\ G[T \ {x}] = F[T \ {k + 1}] + 0
        BY <3>1, <4>1
      <4>3. F[T \ {k + 1}] \in Int
        BY <2>5
      <4> QED BY <2>4, <3>2, <4>2, <4>3
    <3>3. CASE x # k + 1
      <4> DEFINE U == T \ {k + 1}
                 e == IF k + 1 \in T THEN f[k + 1] ELSE 0
      <4>1. (T \ {x}) \ {k + 1} = U \ {x} /\ x \in U /\ U \in SUBSET (1..k)
        BY <2>3, <3>3
      <4>2. k + 1 \in T <=> k + 1 \in T \ {x}
        BY <3>3
      <4>3. G[T] = F[U] + e /\ G[T \ {x}] = F[U \ {x}] + e
        BY <3>1, <4>1, <4>2
      <4>4. F[U] = f[x] + F[U \ {x}]
        BY <2>2, <4>1 DEF AddsUp
      <4>5. F[U \ {x}] \in Int /\ e \in Int /\ f[x] \in Int
        <5>1. U \ {x} \in SUBSET (1..k)
          BY <4>1
        <5>2. F[U \ {x}] \in Int
          BY <2>2, <5>1 DEF AddsUp
        <5>3. x \in 1..m
          BY <2>1
        <5> QED BY <2>4, <5>2, <5>3
      <4> HIDE DEF U, e, G
      <4> QED BY <4>3, <4>4, <4>5
    <3> QED BY <3>2, <3>3
  <2> HIDE DEF G
  <2>9. AddsUp(f, G, 1..(k + 1))
    BY <2>6, <2>7, <2>8 DEF AddsUp
  <2> QED BY <2>9
<1> HIDE DEF P
<1>3. m \in P
  BY <1>1, <1>2, Inductive
<1> QED BY <1>3 DEF P

\* The fold takes the elements in some order; it comes to the same.
LEMMA SumIs ==
  ASSUME NEW m \in Nat, NEW f \in [1..m -> Int], NEW F, AddsUp(f, F, 1..m),
         NEW S \in SUBSET (1..m)
  PROVE  Sum(f, S) = F[S]
<1> DEFINE Step(g) == [J \in SUBSET S |->
                         IF J = {} THEN 0 ELSE f[Pick(J)] + g[J \ {Pick(J)}]]
           h == CHOOSE g : g = Step(g)
           E == [J \in SUBSET S |-> F[J]]
<1>1. \A J \in SUBSET S : J # {} => Pick(J) \in J
  BY DEF Pick
<1>2. \A J \in SUBSET S : J \in SUBSET (1..m)
  OBVIOUS
<1>3. \A J \in SUBSET S : J # {} => F[J] = f[Pick(J)] + F[J \ {Pick(J)}]
  BY <1>1, <1>2 DEF AddsUp
<1>4. E = Step(E)
  <2>1. ASSUME NEW J \in SUBSET S
        PROVE  E[J] = IF J = {} THEN 0 ELSE f[Pick(J)] + E[J \ {Pick(J)}]
    <3>1. CASE J = {}
      BY <3>1 DEF AddsUp
    <3>2. CASE J # {}
      <4>1. E[J] = f[Pick(J)] + F[J \ {Pick(J)}]
        BY <1>3, <3>2
      <4>2. J \ {Pick(J)} \in SUBSET S
        OBVIOUS
      <4> QED BY <3>2, <4>1, <4>2
    <3> QED BY <3>1, <3>2
  <2> QED BY <2>1
<1> HIDE DEF E
<1>5. h = Step(h)
  <2>1. \E g : g = Step(g)
    BY <1>4
  <2> HIDE DEF Step
  <2> QED BY <2>1
<1>6. Sum(f, S) = h[S]
  BY SumUnfolds
<1> DEFINE Q == {J \in SUBSET S : h[J] = F[J]}
<1> HIDE DEF h
<1>7. {} \in Q
  <2>1. h[{}] = 0
    BY <1>5
  <2> QED BY <2>1 DEF AddsUp
<1>8. ASSUME NEW J \in SUBSET S, J # {}, \A x \in J : J \ {x} \in Q
      PROVE  J \in Q
  <2>1. h[J] = f[Pick(J)] + h[J \ {Pick(J)}]
    BY <1>5, <1>8
  <2>2. J \ {Pick(J)} \in Q
    BY <1>1, <1>8
  <2> QED BY <1>3, <1>8, <2>1, <2>2
<1>9. IsFiniteSet(S)
  <2>1. IsFiniteSet(1..m)
    BY FS_Interval
  <2> QED BY <2>1, FS_Subset
<1> HIDE DEF Q
<1>10. S \in Q
  BY <1>7, <1>8, <1>9, SubsetInduction
<1> QED BY <1>6, <1>10 DEF Q

-----------------------------------------------------------------------------
\* Sums over workers.
LEMMA IdsFinite == IsFiniteSet(Ids)
BY LoadBalancerAssumption, FS_Interval DEF Ids

LEMMA SumFacts ==
  ASSUME NEW f \in [Ids -> Int]
  PROVE  /\ Sum(f, {}) = 0
         /\ \A J \in SUBSET Ids : Sum(f, J) \in Int
         /\ \A J \in SUBSET Ids : \A x \in J : Sum(f, J) = f[x] + Sum(f, J \ {x})
<1>1. PICK F : AddsUp(f, F, Ids)
  BY SumExists, LoadBalancerAssumption DEF Ids
<1>2. \A J \in SUBSET Ids : Sum(f, J) = F[J]
  BY <1>1, SumIs, LoadBalancerAssumption DEF Ids
<1>3. \A J \in SUBSET Ids : \A x \in J : J \ {x} \in SUBSET Ids
  OBVIOUS
<1> QED BY <1>1, <1>2, <1>3 DEF AddsUp

LEMMA SumAdds ==
  ASSUME NEW f \in [Ids -> Int], NEW g \in [Ids -> Int], NEW h \in [Ids -> Int],
         NEW S \in SUBSET Ids, \A x \in S : h[x] = f[x] + g[x]
  PROVE  Sum(h, S) = Sum(f, S) + Sum(g, S)
<1> DEFINE Q == {J \in SUBSET S : Sum(h, J) = Sum(f, J) + Sum(g, J)}
<1>1. IsFiniteSet(S)
  BY IdsFinite, FS_Subset
<1>2. {} \in Q
  BY SumFacts
<1>3. ASSUME NEW J \in SUBSET S, J # {}, \A x \in J : J \ {x} \in Q
      PROVE  J \in Q
  <2>1. PICK x \in J : TRUE
    BY <1>3
  <2> DEFINE K == J \ {x}
  <2>2. Sum(h, K) = Sum(f, K) + Sum(g, K)
    BY <1>3
  <2>3. J \in SUBSET Ids /\ K \in SUBSET Ids
    OBVIOUS
  <2>4. /\ Sum(f, J) = f[x] + Sum(f, K)
        /\ Sum(g, J) = g[x] + Sum(g, K)
        /\ Sum(h, J) = h[x] + Sum(h, K)
    BY <2>3, SumFacts
  <2>5. Sum(f, K) \in Int /\ Sum(g, K) \in Int /\ f[x] \in Int /\ g[x] \in Int
    BY <2>3, SumFacts
  <2>6. h[x] = f[x] + g[x]
    OBVIOUS
  <2> HIDE DEF K
  <2>7. Sum(h, J) = Sum(f, J) + Sum(g, J)
    BY <2>2, <2>4, <2>5, <2>6
  <2> QED BY <2>7
<1> HIDE DEF Q
<1>4. S \in Q
  BY <1>1, <1>2, <1>3, SubsetInduction
<1> QED BY <1>4 DEF Q

LEMMA TimesNext ==
  ASSUME NEW k \in Int, NEW n \in Int
  PROVE  k * (n + 1) = k * n + k
OBVIOUS

\* A bound on each is a bound on all.
LEMMA SumAtMost ==
  ASSUME NEW f \in [Ids -> Int], NEW k \in Int,
         NEW S \in SUBSET Ids, \A x \in S : f[x] <= k
  PROVE  Sum(f, S) <= k * Cardinality(S)
<1> DEFINE Q == {J \in SUBSET S : Sum(f, J) <= k * Cardinality(J)}
<1>1. IsFiniteSet(S)
  BY IdsFinite, FS_Subset
<1>2. {} \in Q
  BY SumFacts, FS_EmptySet
<1>3. ASSUME NEW J \in SUBSET S, J # {}, \A x \in J : J \ {x} \in Q
      PROVE  J \in Q
  <2>1. PICK x \in J : TRUE
    BY <1>3
  <2> DEFINE K == J \ {x}
             n == Cardinality(K)
  <2>2. Sum(f, K) <= k * n
    BY <1>3
  <2>3. Sum(f, J) = f[x] + Sum(f, K) /\ Sum(f, K) \in Int
    BY SumFacts
  <2>4. IsFiniteSet(J) /\ IsFiniteSet(K)
    BY <1>1, FS_Subset
  <2>5. n \in Nat /\ Cardinality(J) \in Nat /\ n = Cardinality(J) - 1
    BY <2>4, FS_RemoveElement, FS_CardinalityType
  <2>6. Cardinality(J) = n + 1
    BY <2>5
  <2>7. k * (n + 1) = k * n + k /\ k * n \in Int
    BY <2>5, TimesNext
  <2>8. f[x] <= k /\ f[x] \in Int
    OBVIOUS
  <2> HIDE DEF K, n
  <2>9. Sum(f, J) <= k * n + k
    BY <2>2, <2>3, <2>7, <2>8
  <2> QED BY <2>6, <2>7, <2>9
<1> HIDE DEF Q
<1>4. S \in Q
  BY <1>1, <1>2, <1>3, SubsetInduction
<1> QED BY <1>4 DEF Q

LEMMA SumAtLeast ==
  ASSUME NEW f \in [Ids -> Int], NEW S \in SUBSET Ids, \A x \in S : f[x] >= 0
  PROVE  Sum(f, S) >= 0
<1> DEFINE Q == {J \in SUBSET S : Sum(f, J) >= 0}
<1>1. IsFiniteSet(S)
  BY IdsFinite, FS_Subset
<1>2. {} \in Q
  BY SumFacts
<1>3. ASSUME NEW J \in SUBSET S, J # {}, \A x \in J : J \ {x} \in Q
      PROVE  J \in Q
  <2>1. PICK x \in J : TRUE
    BY <1>3
  <2>2. Sum(f, J) = f[x] + Sum(f, J \ {x}) /\ Sum(f, J \ {x}) \in Int
    BY SumFacts
  <2>3. f[x] \in Int /\ f[x] >= 0 /\ Sum(f, J \ {x}) >= 0
    BY <1>3
  <2> QED BY <2>2, <2>3
<1> HIDE DEF Q
<1>4. S \in Q
  BY <1>1, <1>2, <1>3, SubsetInduction
<1> QED BY <1>4 DEF Q

\* A set and the rest.
LEMMA SumSplits ==
  ASSUME NEW f \in [Ids -> Int], NEW S \in SUBSET Ids, NEW T \in SUBSET S
  PROVE  Sum(f, S) = Sum(f, T) + Sum(f, S \ T)
<1> DEFINE Q == {J \in SUBSET S : Sum(f, S) = Sum(f, J) + Sum(f, S \ J)}
<1>1. IsFiniteSet(S)
  BY IdsFinite, FS_Subset
<1>2. {} \in Q
  <2>1. S \ {} = S
    OBVIOUS
  <2>2. Sum(f, S) \in Int /\ Sum(f, {}) = 0
    BY SumFacts
  <2> QED BY <2>1, <2>2
<1>3. ASSUME NEW J \in SUBSET S, J # {}, \A x \in J : J \ {x} \in Q
      PROVE  J \in Q
  <2>1. PICK x \in J : TRUE
    BY <1>3
  <2> DEFINE K == J \ {x}
             R == S \ K
  <2>2. Sum(f, S) = Sum(f, K) + Sum(f, R)
    BY <1>3
  <2>3. R \ {x} = S \ J /\ x \in R /\ R \in SUBSET Ids
    OBVIOUS
  <2>4. Sum(f, R) = f[x] + Sum(f, S \ J)
    BY <2>3, SumFacts
  <2>5. Sum(f, J) = f[x] + Sum(f, K)
    BY SumFacts
  <2>6. Sum(f, K) \in Int /\ f[x] \in Int /\ Sum(f, S \ J) \in Int
    BY SumFacts
  <2> HIDE DEF K, R
  <2>7. Sum(f, S) = Sum(f, J) + Sum(f, S \ J)
    BY <2>2, <2>4, <2>5, <2>6
  <2> QED BY <2>7
<1> HIDE DEF Q
<1>4. T \in Q
  BY <1>1, <1>2, <1>3, SubsetInduction
<1> QED BY <1>4 DEF Q

\* Some worker's rank is the highest.
LEMMA BestExists ==
  ASSUME NEW f \in [Ids -> Int], NEW S \in SUBSET Ids, S # {}
  PROVE  \E m \in S : \A x \in S : f[x] <= f[m]
<1> DEFINE Q == {J \in SUBSET S : J # {} => \E m \in J : \A x \in J : f[x] <= f[m]}
<1>1. IsFiniteSet(S)
  BY IdsFinite, FS_Subset
<1>2. {} \in Q
  OBVIOUS
<1>3. ASSUME NEW J \in SUBSET S, J # {}, \A x \in J : J \ {x} \in Q
      PROVE  J \in Q
  <2>1. PICK y \in J : TRUE
    BY <1>3
  <2>2. \A x \in J : f[x] \in Int
    OBVIOUS
  <2>3. CASE J \ {y} = {}
    <3>1. \A x \in J : x = y
      BY <2>3
    <3>2. \A x \in J : f[x] <= f[y]
      BY <2>2, <3>1
    <3> QED BY <3>2
  <2>4. CASE J \ {y} # {}
    <3>1. PICK m \in J \ {y} : \A x \in J \ {y} : f[x] <= f[m]
      BY <1>3, <2>4
    <3>2. CASE f[y] <= f[m]
      <4>1. \A x \in J : f[x] <= f[m]
        BY <3>1, <3>2
      <4> QED BY <4>1
    <3>3. CASE ~ (f[y] <= f[m])
      <4>1. \A x \in J : f[x] <= f[y]
        BY <2>2, <3>1, <3>3
      <4> QED BY <4>1
    <3> QED BY <3>2, <3>3
  <2> QED BY <2>3, <2>4
<1> HIDE DEF Q
<1>4. S \in Q
  BY <1>1, <1>2, <1>3, SubsetInduction
<1> QED BY <1>4 DEF Q

\* The worker that is chosen is a live one, and nobody's rank exceeds its.
LEMMA FirstBestIs ==
  ASSUME NEW rank \in [Ids -> Int], healthyWorkers \subseteq Ids, healthyWorkers # {}
  PROVE  /\ FirstBest(rank) \in healthyWorkers
         /\ \A x \in healthyWorkers : rank[x] <= rank[FirstBest(rank)]
<1> DEFINE B == {w \in healthyWorkers : \A x \in healthyWorkers : rank[x] <= rank[w]}
<1>1. B # {}
  BY BestExists
<1>2. B \subseteq Nat
  <2>1. Ids \subseteq Nat
    BY LoadBalancerAssumption DEF Ids
  <2>2. B \subseteq healthyWorkers
    OBVIOUS
  <2> QED BY <2>1, <2>2
<1> HIDE DEF B
<1>3. \E m \in B : \A n \in B : m <= n
  BY <1>1, <1>2, LeastNumber
<1>4. Min(B) \in B
  BY <1>3 DEF Min
<1>5. FirstBest(rank) = Min(B)
  BY DEF FirstBest, B
<1> QED BY <1>4, <1>5 DEF B

-----------------------------------------------------------------------------
(* The weighted round robin: how far the current weights may drift.        *)

\* How far the current weights of j of the n live workers may be from where
\* they began, taken together.
Room(j, n) == Heaviest * (j * (2 * n - 1 - j))

LEMMA RoomIsInt == ASSUME NEW j \in Int, NEW n \in Int PROVE Room(j, n) \in Int
BY LoadBalancerAssumption DEF Room

LEMMA RoomOfNone == ASSUME NEW n \in Int PROVE Room(0, n) = 0 /\ Room(1, n) = Heaviest * (2 * n - 2)
<1>1. /\ 0 * (2 * n - 1 - 0) = 0 /\ 1 * (2 * n - 1 - 1) = 2 * n - 2
      /\ Heaviest \in Int
  BY LoadBalancerAssumption
<1> QED BY <1>1 DEF Room

\* One worker more, and more room, up to n of them.
LEMMA RoomGrows ==
  ASSUME NEW n \in Int, NEW j \in Int, 1 <= j, j <= n
  PROVE  Room(j - 1, n) <= Room(j, n)
<1> DEFINE a == (j - 1) * (2 * n - 1 - (j - 1))
           b == j * (2 * n - 1 - j)
<1>1. b - a = 2 * (n - j)
  OBVIOUS
<1>2. a \in Int /\ b \in Int /\ Heaviest \in Nat
  BY LoadBalancerAssumption
<1>3. \E d \in Nat : b = a + d
  <2>1. b - a \in Nat
    BY <1>1
  <2> WITNESS b - a \in Nat
  <2> QED BY <1>2
<1> HIDE DEF a, b
<1>4. PICK d \in Nat : b = a + d
  BY <1>3
<1>5. Heaviest * b = Heaviest * a + Heaviest * d /\ Heaviest * d \in Nat /\ Heaviest * a \in Int
  BY <1>2, <1>4
<1> QED BY <1>5 DEF Room, a, b

\* It grows by less and less.
LEMMA RoomBends ==
  ASSUME NEW n \in Int, NEW j \in Int, NEW k \in Int
  PROVE  k * Room(j - 1, n) + Room(j + k, n) + Heaviest * (k * (k + 1)) = (k + 1) * Room(j, n)
<1> DEFINE a == (j - 1) * (2 * n - 1 - (j - 1))
           b == (j + k) * (2 * n - 1 - (j + k))
           c == j * (2 * n - 1 - j)
<1>1. k * a + b + k * (k + 1) = (k + 1) * c
  OBVIOUS
<1>2. a \in Int /\ b \in Int /\ c \in Int /\ Heaviest \in Int
  BY LoadBalancerAssumption
<1> HIDE DEF a, b, c
<1>3. Heaviest * (k * a + b + k * (k + 1)) = Heaviest * ((k + 1) * c)
  BY <1>1
<1>4. Heaviest * (k * a + b + k * (k + 1))
        = k * (Heaviest * a) + Heaviest * b + Heaviest * (k * (k + 1))
  BY <1>2
<1>5. Heaviest * ((k + 1) * c) = (k + 1) * (Heaviest * c)
  BY <1>2
<1> QED BY <1>3, <1>4, <1>5 DEF Room, a, b, c

LEMMA ProductSign ==
  ASSUME NEW p \in Int, p > 0, NEW v \in Int, p * v >= 0
  PROVE  v >= 0
OBVIOUS

LEMMA ProductMonotone ==
  ASSUME NEW p \in Nat, NEW u \in Int, NEW v \in Int, u <= v
  PROVE  p * u <= p * v
OBVIOUS

\* Each has its share of the room of one more.
LEMMA RoomShared ==
  ASSUME NEW n \in Int, NEW j \in Int
  PROVE  j * Room(j + 1, n) + Heaviest * (j * (j + 1)) = (j + 1) * Room(j, n)
<1> DEFINE b == (j + 1) * (2 * n - 1 - (j + 1))
           c == j * (2 * n - 1 - j)
<1>1. j * b + j * (j + 1) = (j + 1) * c
  OBVIOUS
<1>2. b \in Int /\ c \in Int /\ Heaviest \in Int
  BY LoadBalancerAssumption
<1> HIDE DEF b, c
<1>3. Heaviest * (j * b + j * (j + 1)) = Heaviest * ((j + 1) * c)
  BY <1>1
<1>4. Heaviest * (j * b + j * (j + 1)) = j * (Heaviest * b) + Heaviest * (j * (j + 1))
  BY <1>2
<1>5. Heaviest * ((j + 1) * c) = (j + 1) * (Heaviest * c)
  BY <1>2
<1> QED BY <1>3, <1>4, <1>5 DEF Room, b, c

\* The charge of the chosen worker, of current weight d, leaves a set of j
\* workers that holds it within its room: the j - 1 others sum up to y, and
\* the k that are not in the set to e, none of them above d.
LEMMA ChargeFits ==
  ASSUME NEW n \in Int, NEW j \in Nat, NEW k \in Nat,
         NEW y \in Int, NEW d \in Int, NEW e \in Int,
         y + Room(j - 1, n) >= 0, y + d + e + Room(j + k, n) >= 0, e <= k * d
  PROVE  y + d - Heaviest * k + Room(j, n) >= 0
<1> DEFINE a == Room(j - 1, n)
           b == Room(j + k, n)
           c == Room(j, n)
           q == Heaviest * (k * (k + 1))
           h == Heaviest * k
           v == y + d - h + c
<1>1. /\ a \in Int /\ b \in Int /\ c \in Int /\ Heaviest \in Int
      /\ h \in Int /\ q \in Int
  BY RoomIsInt, LoadBalancerAssumption
<1>2. k * a + b + q = (k + 1) * c
  BY RoomBends
<1>3. (k + 1) * h = q
  BY <1>1
<1>4. k * (y + a) >= 0
  BY <1>1, ProductMonotone
<1> HIDE DEF a, b, c, q, h
<1>5. (k + 1) * v = k * y + y + k * d + d - (k + 1) * h + (k + 1) * c
  BY <1>1
<1>6. k * (y + a) = k * y + k * a
  BY <1>1
<1>7. y + d + k * d + b >= 0
  BY <1>1 DEF b
<1>8. (k + 1) * v = k * (y + a) + (y + d + k * d + b)
  BY <1>1, <1>2, <1>3, <1>5, <1>6
<1>9. (k + 1) * v >= 0
  BY <1>1, <1>4, <1>7, <1>8
<1>10. v \in Int
  BY <1>1
<1> HIDE DEF v
<1>11. v >= 0
  BY <1>9, <1>10, ProductSign
<1> QED BY <1>11 DEF v, h, c

\* What j workers that are not chosen gain stays within their room: they sum
\* up to z, and none of them is above the chosen one.
LEMMA GainFits ==
  ASSUME NEW n \in Int, NEW j \in Nat, NEW z \in Int, NEW d \in Int,
         z + d <= Room(j + 1, n), z <= j * d
  PROVE  z + Heaviest * j <= Room(j, n)
<1> DEFINE b == Room(j + 1, n)
           c == Room(j, n)
           q == Heaviest * (j * (j + 1))
           h == Heaviest * j
           v == c - z - h
<1>1. /\ b \in Int /\ c \in Int /\ Heaviest \in Int
      /\ h \in Int /\ q \in Int
  BY RoomIsInt, LoadBalancerAssumption
<1>2. j * b + q = (j + 1) * c
  BY RoomShared
<1>3. (j + 1) * h = q
  BY <1>1
<1>4. j * (z + d) <= j * b
  BY <1>1, ProductMonotone
<1> HIDE DEF b, c, q, h
<1>5. (j + 1) * v = (j + 1) * c - (j * z + z) - (j + 1) * h
  BY <1>1
<1>6. j * (z + d) = j * z + j * d
  OBVIOUS
<1>7. (j + 1) * v = j * b - j * z - z
  BY <1>1, <1>2, <1>3, <1>5
<1>8. (j + 1) * v >= 0
  BY <1>1, <1>4, <1>6, <1>7
<1>9. v \in Int
  BY <1>1
<1> HIDE DEF v
<1>10. v >= 0
  BY <1>8, <1>9, ProductSign
<1> QED BY <1>1, <1>10 DEF v, h, c

-----------------------------------------------------------------------------
\* How far each current weight is from the one workers begin with.
Gap == [w \in Ids |-> currentWeight[w] - 5]

WithinRoom(g, J, n) ==
  /\ Sum(g, J) <= Room(Cardinality(J), n)
  /\ Sum(g, J) + Room(Cardinality(J), n) >= 0

\* Whatever set of live workers one takes.
Level(n) == \A J \in SUBSET healthyWorkers : WithinRoom(Gap, J, n)

\* Each request that goes to another worker adds at least the lowest weight to
\* the current weight of this one, which was not below the least possible.
Patient(n) ==
  \A w \in healthyWorkers : Lightest * waited[w] <= Gap[w] + Room(1, n)

\* The types but for the index, whose bound is the round robin's.
BalancerTyped ==
  /\ algorithm \in Algorithms
  /\ added \in 0..MaxAdded
  /\ dead \subseteq 1..added
  /\ list \subseteq 1..added
  /\ weight \in [Ids -> Lightest..Heaviest]
  /\ currentWeight \in [Ids -> Int]
  /\ connections \in [Ids -> Nat \cup {Absent}]
  /\ waited \in [Ids -> Nat]

\* Nothing has touched the current weight of a worker to come.
NewOnesBegin == \A w \in Ids : w > added => currentWeight[w] = 5

\* What the lemmas about sums ask for.
LEMMA TypedFacts ==
  ASSUME BalancerTyped
  PROVE  /\ healthyWorkers \subseteq Ids
         /\ IsFiniteSet(healthyWorkers)
         /\ weight \in [Ids -> Int]
         /\ Gap \in [Ids -> Int]
         /\ \A J \in SUBSET healthyWorkers :
              J \in SUBSET Ids /\ IsFiniteSet(J) /\ Cardinality(J) \in Nat
<1>1. healthyWorkers \subseteq Ids
  BY LoadBalancerAssumption DEF BalancerTyped, healthyWorkers, Ids
<1>2. \A J \in SUBSET healthyWorkers : J \in SUBSET Ids /\ IsFiniteSet(J) /\ Cardinality(J) \in Nat
  BY <1>1, IdsFinite, FS_Subset, FS_CardinalityType
<1>3. weight \in [Ids -> Int]
  <2>1. Lightest..Heaviest \subseteq Int
    OBVIOUS
  <2> QED BY <2>1 DEF BalancerTyped
<1>4. Gap \in [Ids -> Int]
  BY DEF BalancerTyped, Gap
<1> QED BY <1>1, <1>2, <1>3, <1>4

\* A selection among the workers H, of current weights g before and h after
\* it: s has the highest, all get their weights wt and s pays for them all.
\* A set without s may only gain, and has room for it, as s would not fit in
\* otherwise; a set with s pays the weights of the rest, and has the room for
\* that, as none of the rest is above s.
LEMMA SelectionKeepsRoom ==
  ASSUME NEW H \in SUBSET Ids, NEW g \in [Ids -> Int], NEW h \in [Ids -> Int],
         NEW wt \in [Ids -> Int], \A x \in Ids : 0 <= wt[x] /\ wt[x] <= Heaviest,
         NEW s \in H, \A x \in H : g[x] <= g[s],
         \A x \in H \ {s} : h[x] = g[x] + wt[x],
         h[s] = g[s] + wt[s] - Sum(wt, H),
         NEW n \in Int, \A J \in SUBSET H : WithinRoom(g, J, n),
         NEW J \in SUBSET H
  PROVE  WithinRoom(h, J, n)
<1> DEFINE R == H \ J
           j == Cardinality(J)
           k == Cardinality(R)
<1>1. /\ J \in SUBSET Ids /\ R \in SUBSET Ids /\ R \in SUBSET H /\ s \in Ids
      /\ IsFiniteSet(J) /\ IsFiniteSet(R)
      /\ j \in Nat /\ k \in Nat
  BY IdsFinite, FS_Subset, FS_CardinalityType
<1>2. Heaviest \in Nat /\ Heaviest * j \in Int /\ Heaviest * k \in Int
  BY <1>1, LoadBalancerAssumption
<1>3. /\ Sum(g, J) \in Int /\ Sum(g, R) \in Int /\ Sum(wt, J) \in Int /\ Sum(wt, R) \in Int
      /\ Sum(wt, H) \in Int
      /\ g[s] \in Int /\ wt[s] \in Int
  BY <1>1, SumFacts
<1>4. /\ 0 <= Sum(wt, J) /\ Sum(wt, J) <= Heaviest * j
      /\ 0 <= Sum(wt, R) /\ Sum(wt, R) <= Heaviest * k
  BY <1>1, <1>2, SumAtMost, SumAtLeast
<1>5. Room(j, n) \in Int
  BY <1>1, RoomIsInt
<1>6. Sum(g, J) <= Room(j, n) /\ Sum(g, J) + Room(j, n) >= 0
  BY DEF WithinRoom
<1>7. CASE s \notin J
  <2>1. Sum(h, J) = Sum(g, J) + Sum(wt, J)
    BY <1>1, <1>7, SumAdds
  <2>2. Sum(g, J) <= g[s] * j
    BY <1>1, <1>3, SumAtMost
  <2>3. Sum(g, J) + g[s] <= Room(j + 1, n)
    <3> DEFINE K == J \cup {s}
    <3>1. K \in SUBSET H /\ K \in SUBSET Ids /\ K \ {s} = J /\ s \in K
      BY <1>7
    <3>2. Cardinality(K) = j + 1
      BY <1>1, <1>7, FS_AddElement
    <3>3. Sum(g, K) = g[s] + Sum(g, J)
      BY <3>1, SumFacts
    <3>4. Sum(g, K) <= Room(Cardinality(K), n)
      BY <3>1 DEF WithinRoom
    <3> HIDE DEF K
    <3> QED BY <1>3, <3>2, <3>3, <3>4
  <2>4. g[s] * j = j * g[s]
    BY <1>1, <1>3
  <2> HIDE DEF j, k, R
  <2>5. Sum(g, J) + Heaviest * j <= Room(j, n)
    BY <1>1, <1>3, <2>2, <2>3, <2>4, GainFits
  <2>6. Sum(h, J) <= Room(j, n) /\ Sum(h, J) + Room(j, n) >= 0
    BY <1>2, <1>3, <1>4, <1>5, <1>6, <2>1, <2>5
  <2> QED BY <2>6 DEF WithinRoom, j
<1>8. CASE s \in J
  <2> DEFINE L == J \ {s}
             y == Sum(g, L)
  <2>1. L \in SUBSET Ids /\ L \in SUBSET H /\ Cardinality(L) = j - 1
    BY <1>1, <1>8, FS_RemoveElement
  <2>2. y \in Int /\ Sum(g, J) = g[s] + y
    BY <1>1, <1>8, <2>1, SumFacts
  <2>3. Sum(wt, L) \in Int /\ Sum(wt, J) = wt[s] + Sum(wt, L)
    BY <1>1, <1>8, <2>1, SumFacts
  <2>4. Sum(h, J) = h[s] + Sum(h, L)
    BY <1>1, <1>8, SumFacts
  <2>5. Sum(h, L) = y + Sum(wt, L)
    BY <2>1, SumAdds
  <2>6. Sum(wt, H) = Sum(wt, J) + Sum(wt, R)
    BY SumSplits
  <2>7. Sum(g, H) = Sum(g, J) + Sum(g, R)
    BY SumSplits
  <2>8. Sum(g, R) <= g[s] * k
    BY <1>1, <1>3, SumAtMost
  <2>9. g[s] * k = k * g[s]
    BY <1>1, <1>3
  <2>10. Cardinality(H) = j + k
    <3>1. IsFiniteSet(H) /\ J \cup R = H /\ J \cap R = {}
      BY IdsFinite, FS_Subset
    <3>2. Cardinality(J \cup R) = j + k - Cardinality(J \cap R)
      BY <1>1, FS_Union
    <3>3. Cardinality(J \cap R) = 0
      BY <3>1, FS_EmptySet
    <3>4. Cardinality(J \cup R) = j + k
      BY <1>1, <3>2, <3>3
    <3>5. J \cup R = H
      BY <3>1
    <3> HIDE DEF j, k, R
    <3> QED BY <3>4, <3>5
  <2>11. Sum(g, H) + Room(j + k, n) >= 0
    BY <2>10 DEF WithinRoom
  <2>12. y + Room(j - 1, n) >= 0
    BY <2>1 DEF WithinRoom
  <2> HIDE DEF L, y, j, k, R
  <2>13. y + g[s] + Sum(g, R) + Room(j + k, n) >= 0
    BY <1>3, <2>2, <2>7, <2>11
  <2>14. y + g[s] - Heaviest * k + Room(j, n) >= 0
    BY <1>1, <1>3, <2>2, <2>8, <2>9, <2>12, <2>13, ChargeFits
  <2>15. Sum(h, J) = y + g[s] - Sum(wt, R)
    BY <1>3, <2>2, <2>3, <2>4, <2>5, <2>6
  <2>16. Sum(h, J) <= Room(j, n) /\ Sum(h, J) + Room(j, n) >= 0
    BY <1>2, <1>3, <1>4, <1>5, <1>6, <2>2, <2>14, <2>15
  <2> QED BY <2>16 DEF WithinRoom, j
<1> QED BY <1>7, <1>8

-----------------------------------------------------------------------------
(* The weighted round robin: the invariant and the theorems.               *)

WeightedFair(n) == algorithm = "weighted-round-robin" => Level(n) /\ Patient(n)

LEMMA WeightBounds ==
  ASSUME BalancerTyped
  PROVE  /\ \A x \in Ids : 0 <= weight[x] /\ weight[x] <= Heaviest
         /\ \A x \in Ids : Lightest <= weight[x]
         /\ Lightest \in Nat /\ Heaviest \in Nat
BY LoadBalancerAssumption DEF BalancerTyped

\* What a selection does to the current weights.
LEMMA SelectionLevels ==
  ASSUME BalancerTyped, healthyWorkers # {}, SelectWeighted, NEW n \in Int, Level(n),
         UNCHANGED members
  PROVE  /\ Level(n)'
         /\ WeightedChoice \in healthyWorkers
         /\ \A x \in healthyWorkers \ {WeightedChoice} : Gap'[x] = Gap[x] + weight[x]
<1> DEFINE H == healthyWorkers
           s == WeightedChoice
<1>1. /\ H \in SUBSET Ids
      /\ weight \in [Ids -> Int] /\ Gap \in [Ids -> Int]
      /\ currentWeight \in [Ids -> Int]
  BY TypedFacts DEF BalancerTyped
<1>2. s \in H /\ \A x \in H : currentWeight[x] <= currentWeight[s]
  BY <1>1, FirstBestIs DEF WeightedChoice
<1>3. \A x \in H : Gap[x] <= Gap[s]
  <2>1. \A x \in H : Gap[x] = currentWeight[x] - 5 /\ currentWeight[x] \in Int
    BY <1>1 DEF Gap
  <2> QED BY <1>2, <2>1
<1>4. TotalWeight = Sum(weight, H) /\ TotalWeight \in Int
  <2>1. TotalWeight = Sum(weight, H)
    BY TotalIs
  <2> QED BY <1>1, <2>1, SumFacts
<1>5. /\ currentWeight' \in [Ids -> Int]
      /\ \A x \in H \ {s} : currentWeight'[x] = currentWeight[x] + weight[x]
      /\ currentWeight'[s] = currentWeight[s] + weight[s] - TotalWeight
  <2> DEFINE new == [w \in Ids |->
       IF w \in healthyWorkers THEN currentWeight[w] + weight[w] - Charge(w)
                                 ELSE currentWeight[w]]
  <2>1. currentWeight' = new
    BY DEF SelectWeighted
  <2>2. \A w \in Ids : Charge(w) = IF w = s THEN TotalWeight ELSE 0
    BY DEF Charge
  <2>3. \A w \in Ids : weight[w] \in Int /\ currentWeight[w] \in Int /\ Charge(w) \in Int
    BY <1>1, <1>4, <2>2
  <2> HIDE DEF s, H
  <2>4. ASSUME NEW w \in Ids PROVE new[w] \in Int
    BY <2>3
  <2>5. new \in [Ids -> Int]
    BY <2>4
  <2>6. ASSUME NEW x \in H \ {s} PROVE new[x] = currentWeight[x] + weight[x]
    <3>1. x \in Ids /\ x \in healthyWorkers /\ Charge(x) = 0
      BY <1>1, <2>2 DEF H
    <3> QED BY <2>3, <3>1
  <2>7. new[s] = currentWeight[s] + weight[s] - TotalWeight
    <3>1. s \in Ids /\ s \in healthyWorkers /\ Charge(s) = TotalWeight
      BY <1>1, <1>2, <2>2 DEF H
    <3> QED BY <2>3, <3>1
  <2> QED BY <2>1, <2>5, <2>6, <2>7
<1>6. H' = H
  BY DEF healthyWorkers, members
<1>7. /\ Gap' \in [Ids -> Int]
      /\ \A x \in H \ {s} : Gap'[x] = Gap[x] + weight[x]
      /\ Gap'[s] = Gap[s] + weight[s] - Sum(weight, H)
  <2>1. /\ Gap' = [w \in Ids |-> currentWeight'[w] - 5]
        /\ Gap = [w \in Ids |-> currentWeight[w] - 5]
    BY DEF Gap
  <2>2. Gap' \in [Ids -> Int]
    BY <1>5, <2>1
  <2>3. \A x \in H : /\ x \in Ids /\ currentWeight[x] \in Int /\ weight[x] \in Int
                     /\ Gap'[x] = currentWeight'[x] - 5
                     /\ Gap[x] = currentWeight[x] - 5
    BY <1>1, <2>1
  <2> HIDE DEF s, H
  <2>4. \A x \in H \ {s} : Gap'[x] = Gap[x] + weight[x]
    BY <1>5, <2>3
  <2>5. Gap'[s] = Gap[s] + weight[s] - Sum(weight, H)
    BY <1>2, <1>4, <1>5, <2>3
  <2> QED BY <2>2, <2>4, <2>5
<1>8. \A J \in SUBSET H : WithinRoom(Gap, J, n)
  BY DEF Level
<1>9. ASSUME NEW J \in SUBSET H PROVE WithinRoom(Gap', J, n)
  <2> HIDE DEF H, s
  <2> QED BY <1>1, <1>2, <1>3, <1>7, <1>8, WeightBounds, SelectionKeepsRoom
<1>10. Level(n)'
  BY <1>6, <1>9 DEF Level
<1> QED BY <1>2, <1>7, <1>10

\* Nobody's current weight is further from the middle than this.
OnesLevel(n) ==
  \A w \in healthyWorkers :
    Gap[w] \in Int /\ Gap[w] <= Room(1, n) /\ Gap[w] + Room(1, n) >= 0

\* The sets of one worker.
LEMMA LevelOfOne ==
  ASSUME NEW n \in Int
  PROVE  BalancerTyped /\ Level(n) => OnesLevel(n)
<1> SUFFICES ASSUME BalancerTyped, Level(n), NEW w \in healthyWorkers
             PROVE  Gap[w] \in Int /\ Gap[w] <= Room(1, n) /\ Gap[w] + Room(1, n) >= 0
  BY DEF OnesLevel
<1>1. /\ w \in Ids /\ Gap \in [Ids -> Int]
      /\ {w} \in SUBSET healthyWorkers /\ {w} \in SUBSET Ids
      /\ Cardinality({w}) = 1 /\ {w} \ {w} = {}
  BY TypedFacts, FS_Singleton
<1>2. Sum(Gap, {w}) = Gap[w]
  <2>1. Sum(Gap, {w}) = Gap[w] + Sum(Gap, {w} \ {w})
    BY <1>1, SumFacts
  <2>2. Sum(Gap, {w} \ {w}) = 0 /\ Gap[w] \in Int
    BY <1>1, SumFacts
  <2> QED BY <2>1, <2>2
<1>3. WithinRoom(Gap, {w}, n)
  BY <1>1 DEF Level
<1> QED BY <1>1, <1>2, <1>3 DEF WithinRoom

LEMMA LevelOfOneNext ==
  ASSUME NEW n \in Int
  PROVE  BalancerTyped' /\ Level(n)' => OnesLevel(n)'
BY LevelOfOne, PTL

LEMMA TotalIsInt == BalancerTyped => TotalWeight \in Int
<1> SUFFICES ASSUME BalancerTyped PROVE TotalWeight \in Int
  OBVIOUS
<1>1. TotalWeight = Sum(weight, healthyWorkers)
  BY TotalIs
<1> QED BY <1>1, TypedFacts, SumFacts

\* Every action keeps the types, whatever the algorithm.
LEMMA BalancerTypedStays == BalancerTyped /\ [BalancerNext]_balancerVars => BalancerTyped'
<1> SUFFICES ASSUME BalancerTyped, [BalancerNext]_balancerVars PROVE BalancerTyped'
  OBVIOUS
<1>1. /\ weight \in [Ids -> Lightest..Heaviest] /\ currentWeight \in [Ids -> Int]
      /\ connections \in [Ids -> Nat \cup {Absent}] /\ waited \in [Ids -> Nat]
      /\ algorithm \in Algorithms /\ added \in 0..MaxAdded
      /\ dead \subseteq 1..added /\ list \subseteq 1..added
  BY DEF BalancerTyped
<1>2. CASE SelectWorker
  <2>1. currentWeight' \in [Ids -> Int]
    <3>1. CASE SelectWeighted
      <4>1. \A w \in Ids : weight[w] \in Int /\ currentWeight[w] \in Int /\ Charge(w) \in Int
        BY <1>1, TotalIsInt, TypedFacts DEF Charge
      <4> DEFINE new == [w \in Ids |->
             IF w \in healthyWorkers THEN currentWeight[w] + weight[w] - Charge(w)
                                       ELSE currentWeight[w]]
      <4>2. \A w \in Ids : new[w] \in Int
        BY <4>1
      <4>3. currentWeight' = new
        BY <3>1 DEF SelectWeighted
      <4>4. new \in [Ids -> Int]
        BY <4>2
      <4> HIDE DEF new
      <4> QED BY <4>3, <4>4
    <3>2. CASE SelectRoundRobin \/ SelectLeast
      BY <1>1, <3>2 DEF SelectRoundRobin, SelectLeast
    <3> QED BY <1>2, <3>1, <3>2 DEF SelectWorker
  <2>2. waited' \in [Ids -> Nat]
    <3>1. \A w \in Ids : waited[w] \in Nat
      BY <1>1
    <3>2. waited' = Passed(Choice)
      BY <1>2 DEF SelectWorker
    <3>3. \A c : Passed(c) \in [Ids -> Nat]
      BY <3>1 DEF Passed
    <3> QED BY <3>2, <3>3
  <2>3. weight' = weight /\ connections' = connections
    BY <1>2 DEF SelectWorker, SelectWeighted, SelectRoundRobin, SelectLeast
  <2>4. algorithm' = algorithm /\ added' = added /\ dead' = dead /\ list' = list
    BY <1>2 DEF SelectWorker, members
  <2> QED BY <1>1, <2>1, <2>2, <2>3, <2>4 DEF BalancerTyped
<1>3. Fresh \in [Ids -> Nat]
  BY DEF Fresh
<1>4. CASE AddWorker
  <2>1. added + 1 \in 0..MaxAdded /\ 1..added \subseteq 1..(added + 1)
        /\ added + 1 \in 1..(added + 1)
    BY <1>1, <1>4, LoadBalancerAssumption DEF AddWorker
  <2> QED BY <1>1, <1>3, <1>4, <2>1 DEF AddWorker, BalancerTyped
<1>5. ASSUME NEW w \in Ids, RemoveWorker(w) PROVE BalancerTyped'
  BY <1>1, <1>3, <1>5 DEF RemoveWorker, BalancerTyped
<1>6. ASSUME NEW w \in Ids, Die(w) PROVE BalancerTyped'
  BY <1>1, <1>3, <1>6 DEF Die, BalancerTyped
<1>7. ASSUME NEW w \in 1..added, NEW load \in Loads, UpdateWorkerLoad(w, load)
      PROVE  BalancerTyped'
  <2>1. WeightOf(load) \in Lightest..Heaviest /\ 10 * load \in Nat
    BY LoadBalancerAssumption
  <2>2. weight' \in [Ids -> Lightest..Heaviest]
    BY <1>1, <1>7, <2>1 DEF UpdateWorkerLoad
  <2>3. connections' \in [Ids -> Nat \cup {Absent}]
    BY <1>1, <1>7, <2>1 DEF UpdateWorkerLoad
  <2> QED BY <1>1, <1>7, <2>2, <2>3 DEF UpdateWorkerLoad, members, BalancerTyped
<1>8. CASE UNCHANGED balancerVars
  BY <1>1, <1>8 DEF balancerVars, members, BalancerTyped
<1> QED BY <1>2, <1>4, <1>5, <1>6, <1>7, <1>8 DEF BalancerNext

\* A selection touches the live workers only.
LEMMA NewOnesStillBegin ==
  BalancerTyped /\ NewOnesBegin /\ [BalancerNext]_balancerVars => NewOnesBegin'
<1> SUFFICES ASSUME BalancerTyped, NewOnesBegin, [BalancerNext]_balancerVars
             PROVE  NewOnesBegin'
  OBVIOUS
<1>1. added \in Nat /\ Ids \subseteq Nat
  BY LoadBalancerAssumption DEF BalancerTyped, Ids
<1>2. CASE SelectWorker
  <2>1. added' = added
    BY <1>2 DEF SelectWorker, members
  <2>2. CASE SelectWeighted
    <3>1. \A w \in healthyWorkers : w <= added
      BY <1>1 DEF healthyWorkers, BalancerTyped
    <3>2. \A w \in Ids : w > added => w \notin healthyWorkers
      BY <1>1, <3>1
    <3>3. \A w \in Ids : w \notin healthyWorkers => currentWeight'[w] = currentWeight[w]
      BY <2>2 DEF SelectWeighted
    <3> QED BY <2>1, <3>2, <3>3 DEF NewOnesBegin
  <2>3. CASE SelectRoundRobin \/ SelectLeast
    BY <2>1, <2>3 DEF SelectRoundRobin, SelectLeast, NewOnesBegin
  <2> QED BY <1>2, <2>2, <2>3 DEF SelectWorker
<1>3. CASE AddWorker
  <2>1. added' = added + 1 /\ currentWeight' = currentWeight
    BY <1>3 DEF AddWorker
  <2>2. \A w \in Ids : w > added + 1 => w > added
    BY <1>1
  <2> QED BY <2>1, <2>2 DEF NewOnesBegin
<1>4. ASSUME NEW w \in Ids, RemoveWorker(w) \/ Die(w) PROVE NewOnesBegin'
  BY <1>4 DEF RemoveWorker, Die, NewOnesBegin
<1>5. ASSUME NEW w \in 1..added, NEW load \in Loads, UpdateWorkerLoad(w, load)
      PROVE  NewOnesBegin'
  BY <1>5 DEF UpdateWorkerLoad, members, NewOnesBegin
<1>6. CASE UNCHANGED balancerVars
  BY <1>6 DEF balancerVars, members, NewOnesBegin
<1> QED BY <1>2, <1>3, <1>4, <1>5, <1>6 DEF BalancerNext

\* A change of the live workers starts the count of the requests again.
LEMMA PatientAgain ==
  ASSUME NEW n \in Int, OnesLevel(n)', \A w \in healthyWorkers' : waited'[w] = 0
  PROVE  Patient(n)'
<1>1. ASSUME NEW w \in healthyWorkers'
      PROVE  Lightest * waited'[w] <= Gap'[w] + Room(1, n)
  <2>1. waited'[w] = 0 /\ Lightest * 0 = 0
    BY LoadBalancerAssumption
  <2>2. Gap'[w] + Room(1, n) >= 0
    BY DEF OnesLevel
  <2> QED BY <2>1, <2>2
<1> QED BY <1>1 DEF Patient

\* A request adds at least the lowest weight to all but the worker it goes to.
LEMMA SelectionPatient ==
  ASSUME NEW n \in Int, BalancerTyped, BalancerTyped', Level(n), Patient(n),
         algorithm = "weighted-round-robin", SelectWorker
  PROVE  Level(n)' /\ Patient(n)'
<1>1. /\ healthyWorkers # {} /\ SelectWeighted /\ UNCHANGED members
      /\ waited' = Passed(WeightedChoice)
  BY DEF SelectWorker, Choice
<1>2. /\ Level(n)'
      /\ WeightedChoice \in healthyWorkers
      /\ \A x \in healthyWorkers \ {WeightedChoice} : Gap'[x] = Gap[x] + weight[x]
  BY <1>1, SelectionLevels
<1>3. OnesLevel(n)'
  BY <1>2, LevelOfOneNext
<1>4. healthyWorkers' = healthyWorkers /\ healthyWorkers \subseteq Ids
  BY <1>1, TypedFacts DEF healthyWorkers, members
<1>5. ASSUME NEW w \in healthyWorkers'
      PROVE  Lightest * waited'[w] <= Gap'[w] + Room(1, n)
  <2>1. w \in Ids /\ w \in healthyWorkers
    BY <1>4
  <2>2. Gap'[w] + Room(1, n) >= 0
    BY <1>3 DEF OnesLevel
  <2>3. Lightest \in Nat /\ Room(1, n) \in Int
    BY WeightBounds, RoomIsInt
  <2>4. CASE w = WeightedChoice
    <3>1. waited'[w] = 0
      BY <1>1, <2>1, <2>4 DEF Passed
    <3>2. Lightest * 0 = 0
      BY <2>3
    <3> QED BY <2>2, <3>1, <3>2
  <2>5. CASE w # WeightedChoice
    <3>1. waited'[w] = waited[w] + 1
      BY <1>1, <2>1, <2>5 DEF Passed
    <3>2. Gap'[w] = Gap[w] + weight[w]
      BY <1>2, <2>1, <2>5
    <3>3. Lightest * waited[w] <= Gap[w] + Room(1, n)
      BY <2>1 DEF Patient
    <3>4. /\ weight[w] \in Int /\ Lightest <= weight[w] /\ Gap[w] \in Int
          /\ waited[w] \in Nat
      BY <2>1, TypedFacts, WeightBounds DEF BalancerTyped
    <3>5. Lightest * (waited[w] + 1) = Lightest * waited[w] + Lightest
          /\ Lightest * waited[w] \in Int
      BY <2>3, <3>4
    <3> QED BY <2>3, <3>1, <3>2, <3>3, <3>4, <3>5
  <2> QED BY <2>4, <2>5
<1> QED BY <1>2, <1>5 DEF Patient

\* Fewer live workers: fewer sets of them.
LEMMA LevelOfFewer ==
  ASSUME NEW n \in Int, Level(n), currentWeight' = currentWeight,
         healthyWorkers' \subseteq healthyWorkers
  PROVE  Level(n)'
<1>1. Gap' = Gap
  BY DEF Gap
<1>2. \A J \in SUBSET healthyWorkers' : J \in SUBSET healthyWorkers
  OBVIOUS
<1> QED BY <1>1, <1>2 DEF Level

\* A new worker begins at the middle, and the sets that it joins have more
\* room than without it as long as there are no more than n live workers.
LEMMA AdditionLevels ==
  ASSUME NEW n \in Int, BalancerTyped, BalancerTyped', NewOnesBegin, Level(n),
         AddWorker, Cardinality(healthyWorkers)' <= n
  PROVE  Level(n)'
<1> DEFINE a == added + 1
           H == healthyWorkers
<1>1. /\ added \in Nat /\ a \in Ids /\ a > added /\ a \notin H
      /\ currentWeight' = currentWeight
  BY LoadBalancerAssumption DEF BalancerTyped, AddWorker, Ids, healthyWorkers
<1>2. healthyWorkers' = H \cup {a}
  <2>1. a \notin dead
    BY <1>1 DEF BalancerTyped
  <2> QED BY <2>1 DEF AddWorker, healthyWorkers
<1>3. Gap' = Gap /\ Gap \in [Ids -> Int] /\ Gap[a] = 0
  BY <1>1, TypedFacts DEF Gap, NewOnesBegin
<1>4. H \subseteq Ids /\ IsFiniteSet(H \cup {a})
  BY <1>2, TypedFacts, FS_AddElement
<1>5. \A J \in SUBSET H : WithinRoom(Gap, J, n)
  BY DEF Level
<1>6. Cardinality(H \cup {a}) <= n
  BY <1>2
<1> HIDE DEF a, H
<1>7. ASSUME NEW J \in SUBSET (H \cup {a}) PROVE WithinRoom(Gap, J, n)
  <2>1. CASE a \notin J
    <3>1. J \in SUBSET H
      BY <2>1
    <3> QED BY <1>5, <3>1
  <2>2. CASE a \in J
    <3> DEFINE L == J \ {a}
               j == Cardinality(J)
    <3>1. L \in SUBSET H /\ J \in SUBSET Ids /\ L \in SUBSET Ids
      BY <1>1, <1>4
    <3>2. IsFiniteSet(J) /\ j <= Cardinality(H \cup {a})
      BY <1>4, FS_Subset
    <3>3. j \in Nat /\ Cardinality(L) \in Nat /\ Cardinality(L) = j - 1
          /\ Cardinality(H \cup {a}) \in Nat
      BY <1>4, <2>2, <3>2, FS_RemoveElement, FS_CardinalityType, FS_Subset
    <3>4. 1 <= j /\ j <= n
      BY <1>6, <3>2, <3>3
    <3>5. Sum(Gap, J) = Sum(Gap, L) /\ Sum(Gap, L) \in Int
      <4>1. Sum(Gap, J) = Gap[a] + Sum(Gap, L) /\ Sum(Gap, L) \in Int
        BY <1>3, <2>2, <3>1, SumFacts
      <4> HIDE DEF L
      <4> QED BY <1>3, <4>1
    <3>6. WithinRoom(Gap, L, n)
      BY <1>5, <3>1
    <3>7. Room(j - 1, n) <= Room(j, n) /\ Room(j - 1, n) \in Int /\ Room(j, n) \in Int
      BY <3>3, <3>4, RoomGrows, RoomIsInt
    <3>8. Sum(Gap, L) <= Room(j - 1, n) /\ Sum(Gap, L) + Room(j - 1, n) >= 0
      BY <3>3, <3>6 DEF WithinRoom
    <3> HIDE DEF L, j
    <3>9. Sum(Gap, J) <= Room(j, n) /\ Sum(Gap, J) + Room(j, n) >= 0
      BY <3>5, <3>7, <3>8
    <3> QED BY <3>9 DEF WithinRoom, j
  <2> QED BY <2>1, <2>2
<1> QED BY <1>2, <1>3, <1>7 DEF Level

\* What holds of a weighted round robin while at most n of its workers live.
BalancedFor(n) == BalancerTyped /\ NewOnesBegin /\ WeightedFair(n)

\* There is no worker at first.
LEMMA BalancedBegins ==
  ASSUME NEW n \in Int PROVE BalancerInit => BalancedFor(n)
<1> SUFFICES ASSUME BalancerInit PROVE BalancedFor(n)
  OBVIOUS
<1>1. BalancerTyped
  <2>1. 5 \in Lightest..Heaviest /\ 0 \in 0..MaxAdded
    BY LoadBalancerAssumption
  <2> QED BY <2>1 DEF BalancerInit, BalancerTyped
<1>2. NewOnesBegin
  BY DEF BalancerInit, NewOnesBegin
<1>3. healthyWorkers = {}
  BY DEF BalancerInit, healthyWorkers
<1>4. Patient(n)
  BY <1>3 DEF Patient
<1>5. Level(n)
  <2>1. WithinRoom(Gap, {}, n)
    <3>1. Sum(Gap, {}) = 0 /\ Cardinality({}) = 0 /\ Room(0, n) = 0
      BY <1>1, TypedFacts, SumFacts, FS_EmptySet, RoomOfNone
    <3> QED BY <3>1 DEF WithinRoom
  <2> QED BY <1>3, <2>1 DEF Level
<1> QED BY <1>1, <1>2, <1>4, <1>5 DEF BalancedFor, WeightedFair

LEMMA BalancedStays ==
  ASSUME NEW n \in Int
  PROVE  BalancedFor(n) /\ (Cardinality(healthyWorkers) <= n)'
           /\ [BalancerNext]_balancerVars => BalancedFor(n)'
<1> SUFFICES ASSUME BalancedFor(n), (Cardinality(healthyWorkers) <= n)',
                    [BalancerNext]_balancerVars
             PROVE  BalancedFor(n)'
  OBVIOUS
<1>1. BalancerTyped /\ NewOnesBegin /\ BalancerTyped' /\ NewOnesBegin'
  BY BalancerTypedStays, NewOnesStillBegin DEF BalancedFor
<1>2. algorithm' = algorithm
  BY AlgorithmStays DEF balancerVars
<1>3. SUFFICES ASSUME algorithm = "weighted-round-robin"
               PROVE  Level(n)' /\ Patient(n)'
  BY <1>1, <1>2 DEF BalancedFor, WeightedFair
<1>4. Level(n) /\ Patient(n) /\ healthyWorkers \subseteq Ids
  BY <1>1, <1>3, TypedFacts DEF BalancedFor, WeightedFair
<1>5. CASE SelectWorker
  BY <1>1, <1>3, <1>4, <1>5, SelectionPatient
\* The live workers change, and nobody's current weight.
<1>6. ASSUME Level(n)', waited' = Fresh
      PROVE  Level(n)' /\ Patient(n)'
  <2>1. \A w \in healthyWorkers' : waited'[w] = 0
    <3>1. healthyWorkers' \subseteq Ids
      <4>1. healthyWorkers' \subseteq 1..added'
        BY <1>1 DEF BalancerTyped, healthyWorkers
      <4>2. added' \in 0..MaxAdded
        BY <1>1 DEF BalancerTyped
      <4> QED BY <4>1, <4>2, LoadBalancerAssumption DEF Ids
    <3> QED BY <1>6, <3>1 DEF Fresh
  <2> QED BY <1>1, <1>6, <2>1, LevelOfOneNext, PatientAgain
\* Neither changes.
<1>7. ASSUME healthyWorkers' = healthyWorkers, currentWeight' = currentWeight,
             waited' = waited
      PROVE  Level(n)' /\ Patient(n)'
  <2>1. Level(n)'
    BY <1>4, <1>7, LevelOfFewer
  <2>2. Gap' = Gap
    BY <1>7 DEF Gap
  <2> QED BY <1>4, <1>7, <2>1, <2>2 DEF Patient
<1>8. CASE AddWorker
  <2>1. Level(n)'
    BY <1>1, <1>4, <1>8, AdditionLevels
  <2> QED BY <1>6, <1>8, <2>1 DEF AddWorker
<1>9. ASSUME NEW w \in Ids, RemoveWorker(w) PROVE Level(n)' /\ Patient(n)'
  <2>1. CASE w \in dead
    <3>1. healthyWorkers' = healthyWorkers
      BY <1>9, <2>1 DEF RemoveWorker, healthyWorkers
    <3> QED BY <1>7, <1>9, <2>1, <3>1 DEF RemoveWorker
  <2>2. CASE w \notin dead
    <3>1. healthyWorkers' \subseteq healthyWorkers
      BY <1>9 DEF RemoveWorker, healthyWorkers
    <3>2. Level(n)'
      BY <1>4, <1>9, <3>1, LevelOfFewer DEF RemoveWorker
    <3> QED BY <1>6, <1>9, <2>2, <3>2 DEF RemoveWorker
  <2> QED BY <2>1, <2>2
<1>10. ASSUME NEW w \in Ids, Die(w) PROVE Level(n)' /\ Patient(n)'
  <2>1. CASE w \notin list
    <3>1. healthyWorkers' = healthyWorkers
      BY <1>10, <2>1 DEF Die, healthyWorkers
    <3> QED BY <1>7, <1>10, <2>1, <3>1 DEF Die
  <2>2. CASE w \in list
    <3>1. healthyWorkers' \subseteq healthyWorkers
      BY <1>10 DEF Die, healthyWorkers
    <3>2. Level(n)'
      BY <1>4, <1>10, <3>1, LevelOfFewer DEF Die
    <3> QED BY <1>6, <1>10, <2>2, <3>2 DEF Die
  <2> QED BY <2>1, <2>2
<1>11. ASSUME NEW w \in 1..added, NEW load \in Loads, UpdateWorkerLoad(w, load)
       PROVE  Level(n)' /\ Patient(n)'
  <2>1. healthyWorkers' = healthyWorkers
    BY <1>11 DEF UpdateWorkerLoad, members, healthyWorkers
  <2> QED BY <1>7, <1>11, <2>1 DEF UpdateWorkerLoad
<1>12. CASE UNCHANGED balancerVars
  <2>1. healthyWorkers' = healthyWorkers
    BY <1>12 DEF balancerVars, members, healthyWorkers
  <2> QED BY <1>7, <1>12, <2>1 DEF balancerVars
<1> QED BY <1>5, <1>8, <1>9, <1>10, <1>11, <1>12 DEF BalancerNext

\* From the lowest current weight that is possible to the highest.
LEMMA BalancedWaits ==
  ASSUME NEW n \in Int
  PROVE  BalancedFor(n) => WaitsBounded(n)
<1> SUFFICES ASSUME BalancedFor(n), algorithm = "weighted-round-robin",
                    NEW w \in healthyWorkers
             PROVE  Lightest * waited[w] <= 4 * Heaviest * (n - 1)
  BY DEF WaitsBounded
<1>1. BalancerTyped /\ Level(n) /\ Patient(n)
  BY DEF BalancedFor, WeightedFair
<1>2. /\ Gap[w] \in Int /\ Gap[w] <= Room(1, n)
      /\ Lightest * waited[w] <= Gap[w] + Room(1, n)
  BY <1>1, LevelOfOne DEF OnesLevel, Patient
<1>3. /\ Room(1, n) = Heaviest * (2 * n - 2) /\ Heaviest \in Int /\ Lightest \in Int
      /\ waited[w] \in Int
  BY <1>1, RoomOfNone, TypedFacts, LoadBalancerAssumption DEF BalancerTyped
<1>4. 2 * (Heaviest * (2 * n - 2)) = 4 * Heaviest * (n - 1)
  BY <1>3
<1>5. Room(1, n) \in Int /\ Lightest * waited[w] \in Int
  BY <1>3
<1>6. 2 * Room(1, n) = 4 * Heaviest * (n - 1)
  BY <1>3, <1>4
<1>7. Lightest * waited[w] <= 2 * Room(1, n)
  BY <1>2, <1>5
<1> QED BY <1>6, <1>7

\* A weighted round robin starves nobody.  While no more than n of the workers
\* of its list live at a time, however many are forked, die and are removed,
\* and while worker-stats and analyzePerformance change the weights between any
\* two requests, no live worker is passed over by selectWorker for more than
\* 4 * (n - 1) * Heaviest / Lightest requests between two changes of the live
\* workers.
THEOREM WeightedStarvesNobody ==
  ASSUME NEW n \in Nat
  PROVE  BalancerSpec /\ [](Cardinality(healthyWorkers) <= n) => []WaitsBounded(n)
<1>1. BalancerInit => BalancedFor(n)
  BY BalancedBegins
<1>2. BalancedFor(n) /\ (Cardinality(healthyWorkers) <= n)'
        /\ [BalancerNext]_balancerVars => BalancedFor(n)'
  BY BalancedStays
<1>3. BalancedFor(n) => WaitsBounded(n)
  BY BalancedWaits
<1> QED BY <1>1, <1>2, <1>3, PTL DEF BalancerSpec

LEMMA NoMoreThanAdded == BalancerTyped => Cardinality(healthyWorkers) <= MaxAdded
<1> SUFFICES ASSUME BalancerTyped PROVE Cardinality(healthyWorkers) <= MaxAdded
  OBVIOUS
<1>1. healthyWorkers \subseteq Ids
  BY TypedFacts
<1>2. Cardinality(Ids) = MaxAdded
  BY FS_Interval, LoadBalancerAssumption DEF Ids
<1> QED BY <1>1, <1>2, IdsFinite, FS_Subset

\* The index of a round robin is one of a list of workers that were added.
LEMMA TypeFollows == BalancerTyped /\ BalancerInv => BalancerTypeOK
<1> SUFFICES ASSUME BalancerTyped, BalancerInv PROVE BalancerTypeOK
  OBVIOUS
<1>1. IndexInList
  BY RoundRobinFair
<1>2. weight \in [Ids -> 1..10]
  <2>1. Lightest..Heaviest \subseteq 1..10
    BY LoadBalancerAssumption
  <2> QED BY <2>1 DEF BalancerTyped
<1>3. currentIndex \in 0..MaxAdded
  <2>1. CASE algorithm # "round-robin" \/ list = {}
    BY <2>1, LoadBalancerAssumption DEF BalancerInv, RoundRobin
  <2>2. CASE algorithm = "round-robin" /\ list # {}
    <3>1. currentIndex \in Nat /\ currentIndex < Cardinality(list)
      BY <1>1, <2>2 DEF BalancerInv, RoundRobin, Members, IndexInList
    <3>2. added \in 0..MaxAdded /\ list \subseteq 1..added
      BY DEF BalancerTyped
    <3>3. Cardinality(list) \in Nat /\ Cardinality(list) <= added
      <4>1. IsFiniteSet(1..added) /\ Cardinality(1..added) = added
        BY <3>2, FS_Interval, LoadBalancerAssumption
      <4> QED BY <3>2, <4>1, FS_Subset, FS_CardinalityType
    <3> QED BY <3>1, <3>2, <3>3, LoadBalancerAssumption
  <2> QED BY <2>1, <2>2
<1> QED BY <1>1, <1>2, <1>3 DEF BalancerTyped, BalancerTypeOK

\* What the run checks on its instance, for any number of workers and any
\* weights: the state has its types and the index its place in the list, a
\* round robin gives each live worker its turn, and a weighted one starves none.
THEOREM SelectionIsFairAlways == BalancerSpec => []SelectionIsFair
<1> DEFINE I == BalancerInv /\ BalancedFor(MaxAdded)
<1>1. MaxAdded \in Int
  BY LoadBalancerAssumption
<1>2. BalancerInit => BalancedFor(MaxAdded)
  BY <1>1, BalancedBegins
<1>3. BalancedFor(MaxAdded) /\ [BalancerNext]_balancerVars
        => (Cardinality(healthyWorkers) <= MaxAdded)'
  <2>1. (BalancerTyped => Cardinality(healthyWorkers) <= MaxAdded)'
    BY NoMoreThanAdded, PTL
  <2> QED BY <2>1, BalancerTypedStays DEF BalancedFor
<1>4. BalancedFor(MaxAdded) /\ [BalancerNext]_balancerVars => BalancedFor(MaxAdded)'
  BY <1>1, <1>3, BalancedStays
<1>5. BalancerInv /\ BalancedFor(MaxAdded) => SelectionIsFair
  BY <1>1, TypeFollows, RoundRobinFair, BalancedWaits
     DEF BalancedFor, SelectionIsFair, NobodyStarves
<1> QED BY <1>2, <1>4, <1>5, BalancerInvHolds, PTL DEF BalancerSpec
=============================================================================
