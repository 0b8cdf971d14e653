--------------------------------- MODULE MCTexts ---------------------------------
(* Small instances of Texts for TLC. *)
EXTENDS Texts

CONSTANTS p, q, spaced, blank

(* A formatter that takes away what distinguishes two lines.                *)
MCPretty == [l \in Lines |-> IF l = spaced THEN p ELSE l]

MCNumbers == {0, 1, 2, 7, 8, 15, 16, 63}
================================================================================
