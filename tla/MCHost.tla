--------------------------------- MODULE MCHost ---------------------------------
(* A small instance of Host for TLC. *)
EXTENDS Host, TLC

CONSTANTS a, b, c, p1, p2, unitA, unitB, i1, i2

UnitPath == "unit"

MCPaths == Contents \cup {UnitPath}

Symmetry ==
    Permutations(Contents) \cup Permutations(Units) \cup Permutations(Installers)
================================================================================
