---------------------------------- MODULE Host ----------------------------------
(****************************************************************************)
(* One host: the data directory and its snapshot files, the service and its *)
(* unit file, on a disk that a power loss takes back to what was synced.    *)
(* The two families of commands touch different files and meet in the power *)
(* loss only, so a behaviour has one of them at work.                       *)
(****************************************************************************)
EXTENDS Snapshots, Install

CONSTANT Families  \* the families of commands a behaviour may be made of

(* The path of the unit is not that of a snapshot.                          *)
ASSUME HostAssumption == Families \subseteq {"data", "service"} /\ Unit \notin Contents

VARIABLE family

hostVars == <<diskVars, snapshotVars, installVars, family>>

HostInit ==
    /\ DiskInit /\ SnapshotsInit /\ InstallInit
    /\ family \in Families
    /\ family = "data" => \A i, j \in Installers : options[i] = options[j] /\ ~options[i].enable

HostNext ==
    /\ \/ family = "data" /\ SnapshotsNext /\ UNCHANGED installVars
       \/ family = "service" /\ InstallNext /\ UNCHANGED snapshotVars
    /\ UNCHANGED family

HostSpec == HostInit /\ [][HostNext]_hostVars
================================================================================
