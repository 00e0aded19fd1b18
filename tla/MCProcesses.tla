---------------------------- MODULE MCProcesses ----------------------------
(* Three parts for TLC that share no state: a behaviour is one of a balancer *)
(* in the primary, with workers of weight 5 or 2, or one of a worker with    *)
(* its connections, or one of the server process with its databases; the     *)
(* other parts stay as they began.                                           *)
EXTENDS LoadBalancer, WorkerProcess, Server

CONSTANTS c1, c2, i1, r1

VARIABLE part

Heavy == {9}
TwoConnections == {c1, c2}
OneCall == {i1}
OneSlot == {r1}

PartsInit ==
  /\ BalancerInit
  /\ WorkerInit
  /\ ServerInit
  /\ part \in {"balancer", "worker", "server"}

PartsNext ==
  \/ part = "balancer" /\ BalancerNext /\ UNCHANGED <<part, workerVars, serverVars>>
  \/ part = "worker" /\ WorkerNext /\ UNCHANGED <<part, balancerVars, serverVars>>
  \/ part = "server" /\ ServerNext /\ UNCHANGED <<part, balancerVars, workerVars>>

PartsSpec ==
  /\ PartsInit
  /\ [][PartsNext]_<<part, balancerVars, workerVars, serverVars>>
  /\ WorkerFairness
  /\ ServerFairness
=============================================================================
