------------------------------- MODULE MCMonitor -------------------------------
(* Small instances of Monitor for TLC. *)
EXTENDS Monitor, TLC

CONSTANTS w1, w2, i1, i2, a, b, u, v, ok, d1

MCKey == [n \in Names |-> IF n = 3 THEN "other" ELSE "page"]

(* Every process has a destination; only the first one has.                 *)
AllConfigured == [w \in Workers |-> {d1}]

OneConfigured == [w \in Workers |-> IF w = w1 THEN {d1} ELSE {}]

DataSymmetry == Permutations(Ids) \cup Permutations(Contents) \cup Permutations(Urls)

Symmetry == Permutations(Workers) \cup DataSymmetry
================================================================================
