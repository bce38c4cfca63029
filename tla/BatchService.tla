---------------------------- MODULE BatchService ----------------------------
(***************************************************************************)
(* What a caller of the ND broadcast is promised: it submits a batch of    *)
(* seeds and gets back one answer, the results of its own seeds in the     *)
(* order of the seeds, or the error of one of its tasks.  It cannot tell   *)
(* whether the native pool or the thread path produced it.                 *)
(***************************************************************************)
EXTENDS Naturals, Sequences

CONSTANTS MaxBatches, MaxSeeds,
          MayFail      \* a task may fail

VARIABLES
    batch,   \* number of the last batch submitted
    size,    \* its number of seeds
    busy,    \* the caller is waiting for the answer
    answer,  \* the last answer: a sequence of the tasks whose results it holds
    failed   \* it was an error

vars == <<batch, size, busy, answer, failed>>

Own(b, n) == [i \in 1..n |-> <<b, i>>]

Init == batch = 0 /\ size = 0 /\ busy = FALSE /\ answer = <<>> /\ failed = FALSE

Submit(n) ==
    /\ ~busy
    /\ batch < MaxBatches
    /\ batch' = batch + 1
    /\ size' = n
    /\ busy' = TRUE
    /\ answer' = <<>> /\ failed' = FALSE

Answer ==
    /\ busy
    /\ busy' = FALSE
    /\ \/ answer' = Own(batch, size) /\ failed' = FALSE
       \/ MayFail /\ answer' = <<>> /\ failed' = TRUE
    /\ UNCHANGED <<batch, size>>

Next == (\E n \in 0..MaxSeeds : Submit(n)) \/ Answer

Spec == Init /\ [][Next]_vars /\ WF_vars(Answer)
=============================================================================
