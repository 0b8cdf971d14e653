--------------------------------- MODULE Queue ---------------------------------
(****************************************************************************)
(* What the notification queue promises, with no word of leases, retries,   *)
(* chunks or processes: an event waits for each destination it was queued   *)
(* for until that destination received all of it, or until its target is    *)
(* removed.  A destination may receive an event at any time after it was    *)
(* queued, and may receive it again.                                        *)
(****************************************************************************)
CONSTANTS
    Events,
    Destinations,
    TargetOf,     \* event -> the target it is about
    AddressedTo   \* event -> the destinations it is queued for

VARIABLES
    waiting,   \* event -> destinations it still waits for
    received,  \* event -> destinations that received all of it
    put,       \* events that were queued
    dropped    \* events that left with their target

qvars == <<waiting, received, put, dropped>>

Init ==
    /\ waiting = [e \in Events |-> {}]
    /\ received = [e \in Events |-> {}]
    /\ put = {}
    /\ dropped = {}

Put(e) ==
    /\ e \notin put
    /\ put' = put \cup {e}
    /\ waiting' = [waiting EXCEPT ![e] = AddressedTo[e]]
    /\ UNCHANGED <<received, dropped>>

Receive(e, d) ==
    /\ e \in put /\ d \in AddressedTo[e] \ received[e]
    /\ received' = [received EXCEPT ![e] = @ \cup {d}]
    /\ UNCHANGED <<waiting, put, dropped>>

Settle(e, d) ==
    /\ d \in waiting[e] \cap received[e]
    /\ waiting' = [waiting EXCEPT ![e] = @ \ {d}]
    /\ UNCHANGED <<received, put, dropped>>

(* All events of one target that still wait leave at once.                  *)
Remove(e) ==
    /\ waiting[e] # {}
    /\ LET gone == {f \in Events : waiting[f] # {} /\ TargetOf[f] = TargetOf[e]} IN
         /\ waiting' = [f \in Events |-> IF f \in gone THEN {} ELSE waiting[f]]
         /\ dropped' = dropped \cup gone
    /\ UNCHANGED <<received, put>>

Next ==
    \E e \in Events :
        \/ Put(e) \/ Remove(e)
        \/ \E d \in Destinations : Receive(e, d) \/ Settle(e, d)

Spec == Init /\ [][Next]_qvars
================================================================================
