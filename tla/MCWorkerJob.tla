---------------------------- MODULE MCWorkerJob ----------------------------
(* Instances of WorkerJob for TLC. *)
EXTENDS WorkerJob
=============================================================================
