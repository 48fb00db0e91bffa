----------------------------- MODULE MCReadiness ------------------------------
(* TLC instance of Readiness: every kind of wait.                           *)
EXTENDS Readiness

AllKinds == {"candidate", "live", "undone", "worker", "replica", "restored",
             "database", "restarted"}

===============================================================================
