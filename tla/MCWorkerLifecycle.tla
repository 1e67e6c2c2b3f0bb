------------------------- MODULE MCWorkerLifecycle -------------------------
(* Instances of WorkerLifecycle. *)
EXTENDS WorkerLifecycle
=============================================================================
