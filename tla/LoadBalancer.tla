---------------------------- MODULE LoadBalancer ----------------------------
(***************************************************************************)
(* The three balancers of src/common/services/cluster.service.ts.  The     *)
(* configuration picks one of them; all three get the same four calls from *)
(* the cluster.  A worker is in the list from addWorker to removeWorker,   *)
(* which comes when it starts to drain or after it died, whichever is      *)
(* first, so the list may hold dead workers.  Workers are added in the     *)
(* order of their ids and the rest keep theirs when one is removed: so the *)
(* list is a set, in that order.  What a balancer only reports (request    *)
(* counts, the loads a round robin keeps) is left out.                     *)
(***************************************************************************)
EXTENDS Integers, FiniteSets, FiniteSetsExt

CONSTANTS
  MaxAdded,        \* bound: workers forked and added; ids are never used again
  Loads,           \* loads reported, in tenths
  Absent,          \* no entry in workerConnections
  Lightest,        \* the weights of a weighted round robin that the loads
  Heaviest         \* give and the one that workers begin with lie between

Ids == 1..MaxAdded

\* Math.round(10 - load * 9), the load in tenths.
WeightOf(load) == Max({1, (100 - 9 * load + 5) \div 10})

ASSUME LoadBalancerAssumption ==
  /\ MaxAdded \in Nat
  /\ Loads \subseteq 0..10
  /\ Absent \notin Int
  /\ Lightest \in 1..5 /\ Heaviest \in 5..10
  /\ \A load \in Loads : WeightOf(load) \in Lightest..Heaviest

VARIABLES
  algorithm,       \* LOAD_BALANCE_ALGORITHM
  added,           \* workers added so far are 1..added
  dead,            \* isDead()
  list,            \* workers of the balancer
  currentIndex,    \* round robin
  weight,          \* weighted round robin
  currentWeight,
  connections,     \* least connections: workerConnections
  waited           \* requests given to others since the worker was last
                   \* selected or the live workers of the list last changed

members == <<added, dead, list>>
balancerVars == <<algorithm, members, currentIndex, weight, currentWeight,
                  connections, waited>>

Algorithms == {"round-robin", "weighted-round-robin", "least-connections"}

BalancerInit ==
  /\ algorithm \in Algorithms
  /\ added = 0
  /\ dead = {}
  /\ list = {}
  /\ currentIndex = 0
  /\ weight = [w \in Ids |-> 5]
  /\ currentWeight = [w \in Ids |-> 5]
  /\ connections = [w \in Ids |-> Absent]
  /\ waited = [w \in Ids |-> 0]

healthyWorkers == list \ dead

\* Places start at 1.
Place(w) == Cardinality({x \in healthyWorkers : x <= w})

-----------------------------------------------------------------------------
(* Selection.                                                              *)

\* The earliest of the workers whose rank nobody exceeds.
FirstBest(rank) ==
  Min({w \in healthyWorkers : \A x \in healthyWorkers : rank[x] <= rank[w]})

\* Dead workers counted.
NextInList == (currentIndex + 1) % Cardinality(list)
NextIndex == (currentIndex + 1) % Cardinality(healthyWorkers)

SelectRoundRobin ==
  /\ currentIndex' = NextIndex
  /\ UNCHANGED <<weight, currentWeight, connections>>

RoundRobinChoice ==
  CHOOSE w \in healthyWorkers :
    Place(w) = (currentIndex % Cardinality(healthyWorkers)) + 1

TotalWeight == MapThenSumSet(LAMBDA w : weight[w], healthyWorkers)
WeightedChoice == FirstBest(currentWeight)

Charge(w) == IF w = WeightedChoice THEN TotalWeight ELSE 0

SelectWeighted ==
  /\ currentWeight' = [w \in Ids |->
       IF w \in healthyWorkers THEN currentWeight[w] + weight[w] - Charge(w)
                                ELSE currentWeight[w]]
  /\ UNCHANGED <<currentIndex, weight, connections>>

\* get(id) || 0
KnownConnections(w) == IF connections[w] = Absent THEN 0 ELSE connections[w]
LeastChoice == FirstBest([w \in Ids |-> -KnownConnections(w)])

SelectLeast == UNCHANGED <<currentIndex, weight, currentWeight, connections>>

Choice ==
  CASE algorithm = "round-robin" -> RoundRobinChoice
    [] algorithm = "weighted-round-robin" -> WeightedChoice
    [] algorithm = "least-connections" -> LeastChoice

Passed(chosen) ==
  [w \in Ids |-> IF w \in healthyWorkers \ {chosen} /\ algorithm # "least-connections"
                 THEN waited[w] + 1 ELSE 0]

SelectWorker ==
  /\ healthyWorkers # {}
  /\ \/ algorithm = "round-robin" /\ SelectRoundRobin
     \/ algorithm = "weighted-round-robin" /\ SelectWeighted
     \/ algorithm = "least-connections" /\ SelectLeast
  /\ waited' = Passed(Choice)
  /\ UNCHANGED <<algorithm, members>>

-----------------------------------------------------------------------------
(* Reports and membership.                                                 *)

\* From worker-stats, also of a worker that is no longer in the list, and from
\* analyzePerformance.
UpdateWorkerLoad(w, load) ==
  /\ \/ /\ algorithm = "weighted-round-robin" /\ w \in list
        /\ weight' = [weight EXCEPT ![w] = WeightOf(load)]
        /\ UNCHANGED connections
     \/ /\ algorithm = "least-connections"
        /\ connections' = [connections EXCEPT ![w] = 10 * load]
        /\ UNCHANGED weight
  /\ UNCHANGED <<algorithm, members, currentIndex, currentWeight, waited>>

Fresh == [w \in Ids |-> 0]

\* createWorker forks a process and adds it.
AddWorker ==
  /\ added < MaxAdded
  /\ added' = added + 1
  /\ list' = list \cup {added + 1}
  /\ connections' = [connections EXCEPT ![added + 1] = 0]
  /\ waited' = Fresh
  /\ UNCHANGED <<algorithm, dead, currentIndex, weight, currentWeight>>

\* The index starts over when it is beyond the end.
IndexWithin(left) == IF currentIndex >= Cardinality(left) THEN 0 ELSE currentIndex

RemoveWorker(w) ==
  /\ w \in list
  /\ list' = list \ {w}
  /\ currentIndex' = IF algorithm = "round-robin"
                     THEN IndexWithin(list \ {w}) ELSE currentIndex
  /\ connections' = [connections EXCEPT ![w] = Absent]
  /\ waited' = IF w \in dead THEN waited ELSE Fresh
  /\ UNCHANGED <<algorithm, added, dead, weight, currentWeight>>

\* The process of a worker ends; the list hears of it later, in cleanupWorker.
Die(w) ==
  /\ w \in (1..added) \ dead
  /\ dead' = dead \cup {w}
  /\ waited' = IF w \in list THEN Fresh ELSE waited
  /\ UNCHANGED <<algorithm, added, list, currentIndex, weight, currentWeight,
                 connections>>

BalancerNext ==
  \/ SelectWorker
  \/ AddWorker
  \/ \E w \in Ids : RemoveWorker(w) \/ Die(w)
  \/ \E w \in 1..added, load \in Loads : UpdateWorkerLoad(w, load)

BalancerSpec == BalancerInit /\ [][BalancerNext]_balancerVars

-----------------------------------------------------------------------------
(* Properties.                                                             *)

\* The index of a round robin stays a place of the list, dead workers counted.
IndexInList == list # {} => currentIndex < Cardinality(list)

\* Ids are those of workers that were added, and weights stay in 1..10
\* whatever load is reported.
BalancerTypeOK ==
  /\ algorithm \in Algorithms
  /\ added \in 0..MaxAdded
  /\ dead \subseteq 1..added
  /\ list \subseteq 1..added
  /\ currentIndex \in 0..MaxAdded
  /\ IndexInList
  /\ weight \in [Ids -> 1..10]
  /\ currentWeight \in [Ids -> Int]
  /\ connections \in [Ids -> Nat \cup {Absent}]
  /\ waited \in [Ids -> Nat]

\* As long as the live workers of the list stay the same, a round robin
\* passes none of them over: each is selected once in as many requests as
\* there are live workers, wherever the deaths, removals and additions before
\* have left the index, which is written against one list and read against
\* another.
RoundRobinIsFair ==
  algorithm = "round-robin" =>
    \A w \in healthyWorkers : waited[w] < Cardinality(healthyWorkers)

\* A weighted round robin starves nobody: even while the reports change the
\* weights, and whatever weights the workers that left have taken with them,
\* the lowest weight is selected within a number of requests that grows with
\* the number of workers and with how far apart the weights are.
WaitsBounded(n) ==
  algorithm = "weighted-round-robin" =>
    \A w \in healthyWorkers : Lightest * waited[w] <= 4 * Heaviest * (n - 1)

NobodyStarves == WaitsBounded(MaxAdded)

\* The index stays within the list and both selections reach every live worker.
SelectionIsFair == BalancerTypeOK /\ RoundRobinIsFair /\ NobodyStarves
=============================================================================
