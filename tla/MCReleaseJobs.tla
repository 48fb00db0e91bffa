---------------------------- MODULE MCReleaseJobs ----------------------------
(* TLC instances of ReleaseJobs: two deployments of one service.            *)
EXTENDS ReleaseJobs

CONSTANTS d1, d2

TwoDeployments == {d1, d2}
OneDeployment == {d1}
PreActivationOnly == [d \in Deployments |-> {PreActivation}]
BothPhases == [d \in Deployments |-> Phase]

=============================================================================
