-------------------------------- MODULE Answer ---------------------------------
(****************************************************************************)
(* What the monitoring service relies on when it calls the fetch client:    *)
(* one call returns one answer, and that answer was true of the page at one *)
(* moment of the call.  Nothing is said of requests, pauses or retries.     *)
(****************************************************************************)
CONSTANTS
    Contents,  \* what the server may serve
    Tag,       \* the content whose validator the request carries, or None
    None

VARIABLES
    page,      \* what the server serves now
    offered,   \* what it served since the call began
    result     \* what the call returned, None while it runs

Changed(c) == [kind |-> "ok", content |-> c]
Unchanged == [kind |-> "notModified", content |-> None]
Failure == [kind |-> "error", content |-> None]

Init ==
    /\ page \in Contents
    /\ offered = {page}
    /\ result = None

Publish ==
    /\ \E c \in Contents \ {page} : page' = c
    /\ offered' = IF result = None THEN offered \cup {page'} ELSE offered
    /\ UNCHANGED result

Return ==
    /\ result = None
    /\ \/ \E c \in offered : result' = Changed(c)
       \/ Tag \in offered /\ result' = Unchanged
       \/ result' = Failure
    /\ UNCHANGED <<page, offered>>

Next == Publish \/ Return

Spec == Init /\ [][Next]_<<page, offered, result>>
================================================================================
