------------------------------- MODULE MCReaders -------------------------------
(* A small instance of Readers for TLC.                                     *)
EXTENDS Readers, TLC

CONSTANTS w1, w2, i1, i2, a, b, u, ok, d1

(* The two names differ only by case.                                       *)
MCKey == [n \in Names |-> "page"]

AllConfigured == [w \in Workers |-> {d1}]

Symmetry == Permutations(Workers) \cup Permutations(Ids) \cup Permutations(Contents)
================================================================================
