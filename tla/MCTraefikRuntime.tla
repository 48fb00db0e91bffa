--------------------------- MODULE MCTraefikRuntime ---------------------------
(* Two projects of one server.                                               *)
EXTENDS TraefikRuntime

CONSTANTS p1, p2
TwoProjects == {p1, p2}
=============================================================================
