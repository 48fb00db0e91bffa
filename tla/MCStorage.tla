------------------------------- MODULE MCStorage -------------------------------
(* Two volumes: the service's own and one to restore into.                   *)
EXTENDS Storage, TLC

CONSTANTS v1, v2, none

MCVolumes == {v1, v2}
MCSymmetry == Permutations(MCVolumes)
AllEngines == {"postgres", "redis", "mysql"}

=============================================================================
