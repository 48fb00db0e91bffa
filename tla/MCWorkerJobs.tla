----------------------------- MODULE MCWorkerJobs -----------------------------
(* TLC instance of WorkerJobs: a schedule run.                              *)
EXTENDS WorkerJobs

CONSTANTS r1

OneRun == {r1}

=============================================================================
