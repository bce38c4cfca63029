---------------------------- MODULE MCWorkerPool ----------------------------
(* Instances of WorkerPool for TLC: the constants are given in the configs. *)
EXTENDS WorkerPool

OkOnly == {"ok"}
OkErr == {"ok", "err"}
OkBig == {"ok", "big"}
=============================================================================
