----------------------------- MODULE MCAgentWork -----------------------------
(* TLC instance of AgentWork: deploys a and b, and an update u.         *)
EXTENDS AgentWork

CONSTANTS a, b, u

MCItems == {a, b, u}
TheUpdate == {u}

=============================================================================
