------------------------------- MODULE MCDispatch ------------------------------
(* Small instances of Dispatch for TLC. *)
EXTENDS Dispatch, TLC

CONSTANTS w1, w2

ToAll == [e \in Events |-> Destinations]
OneTarget == [e \in Events |-> "t"]
ChunksOneTwo == [e \in Events |-> IF e = 1 THEN 2 ELSE 1]
BackoffShort == <<1>>

FirstMayGo == {[d \in Destinations |-> IF d = 1 THEN m ELSE "attach"] : m \in {"text", "absent"}}
AllText == [Destinations -> {"text"}]
TextOrAttach == [Destinations -> {"text", "attach"}]

Symmetry == Permutations(Workers)
================================================================================
