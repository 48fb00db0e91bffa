------------------------------ MODULE MCAppRollout ------------------------------
(* Three deployments of an app, told apart by nothing but their identity.    *)
EXTENDS AppRollout, TLC

CONSTANTS v1, v2, v3, none

MCVersions == {v1, v2, v3}
MCSymmetry == Permutations(MCVersions)

=============================================================================
