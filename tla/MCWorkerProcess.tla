-------------------------- MODULE MCWorkerProcess --------------------------
(* Small instances of a worker process for TLC.                            *)
EXTENDS WorkerProcess

CONSTANTS a, b, g1, g2
=============================================================================
