---------------------------- MODULE MCWorkerRollout -----------------------------
(* Two deployments of a worker, told apart by nothing but their identity.    *)
EXTENDS WorkerRollout

CONSTANTS v1, v2

MCVersions == {v1, v2}

=============================================================================
