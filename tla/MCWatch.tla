-------------------------------- MODULE MCWatch --------------------------------
(* A small instance of Watch for TLC: the clock may be set back or ahead.   *)
EXTENDS Watch

MCJumps == {-2, 2}
================================================================================
