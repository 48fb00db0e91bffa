--------------------------- MODULE MCDatabaseHealth ---------------------------
(* Databases that share two workers, one of an unknown engine.               *)
EXTENDS DatabaseHealth, TLC

CONSTANTS a, b, u
Three == {a, b, u}
OneUnresolved == {u}
Interchangeable == Permutations({a, b})
===============================================================================
