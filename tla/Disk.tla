---------------------------------- MODULE Disk ----------------------------------
(****************************************************************************)
(* What the commands that write files rely on: a file is written under a    *)
(* temporary name, synced, and renamed to its path.  A rename is atomic for *)
(* the processes, but a power loss may undo it until its directory is       *)
(* synced, and may leave part of a file that was not synced before.         *)
(****************************************************************************)
CONSTANTS
    Paths,
    Absent,   \* no file
    Torn      \* a file with part of its content

VARIABLES
    seen,      \* path -> the body processes find there
    survivors  \* path -> the bodies a power loss may leave there

diskVars == <<seen, survivors>>

DiskInit ==
    /\ seen = [p \in Paths |-> Absent]
    /\ survivors = [p \in Paths |-> {Absent}]

Rename(p, body, synced) ==
    /\ seen' = [seen EXCEPT ![p] = body]
    /\ survivors' = [survivors EXCEPT ![p] =
         @ \cup {body} \cup (IF synced THEN {} ELSE {Torn})]

SyncDirectory(p) ==
    /\ survivors' = [survivors EXCEPT ![p] = {seen[p]}]
    /\ UNCHANGED seen

LosePower ==
    \E f \in [Paths -> UNION {survivors[p] : p \in Paths}] :
        /\ \A p \in Paths : f[p] \in survivors[p]
        /\ seen' = f
        /\ survivors' = [p \in Paths |-> {f[p]}]
================================================================================
