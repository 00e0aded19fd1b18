-------------------------- MODULE MCWorkerCluster --------------------------
(* Instances of WorkerCluster for TLC.                                      *)
EXTENDS WorkerCluster
=============================================================================
