-------------------------------- MODULE Snapshots --------------------------------
(****************************************************************************)
(* The snapshot files beside one target, with the power lost at any moment: *)
(* PutSnapshot and Snapshot of internal/store/store.go, the check and the   *)
(* add that call them, and the doctor command that verifies them.  Monitor  *)
(* takes the same files as written in one step and never lost.  The path of *)
(* a snapshot is the hash of its content, and both are the content here; a  *)
(* commit of the database is durable when it returns.                       *)
(****************************************************************************)
EXTENDS Disk, Naturals

CONSTANTS
    Procs,       \* fetchdiff processes
    Announcing,  \* those that have destinations, hence render reports
    Contents,
    MaxVersion,  \* bound on the commits of a behaviour
    None

ASSUME SnapshotsAssumption ==
    /\ Contents \subseteq Paths
    /\ Announcing \subseteq Procs
    /\ MaxVersion \in Nat
    /\ {None, Absent, Torn} \cap Contents = {}

VARIABLES
    target,    \* the target: its snapshot, the commit that wrote it and the one
               \* that created it, which stands for its ID; or None
    recorded,  \* the hashes in its history
    version,   \* commits so far
    lost,      \* recorded snapshots that a power loss took
    pc,        \* process -> where it is in its command
    copy,      \* process -> the target as it read it
    body,      \* process -> the content it fetched
    listed,    \* process -> the hashes in the history it read
    unread     \* process -> those of them it has yet to verify

dataVars == <<target, recorded, version, lost>>
procVars == <<pc, copy, body, listed, unread>>
snapshotVars == <<dataVars, procVars>>

SnapshotsInit ==
    /\ target = None /\ recorded = {} /\ version = 0 /\ lost = {}
    /\ pc = [p \in Procs |-> "idle"]
    /\ copy = [p \in Procs |-> None]
    /\ body = [p \in Procs |-> None]
    /\ listed = [p \in Procs |-> {}]
    /\ unread = [p \in Procs |-> {}]

Goto(p, label) == pc' = [pc EXCEPT ![p] = label]

Finish(p) ==
    /\ Goto(p, "idle")
    /\ copy' = [copy EXCEPT ![p] = None]
    /\ body' = [body EXCEPT ![p] = None]
    /\ listed' = [listed EXCEPT ![p] = {}]
    /\ unread' = [unread EXCEPT ![p] = {}]

Readable(c) == seen[c] = c

--------------------------------------------------------------------------------
(* Faulty variants of the definitions below, which the runs must reject: a  *)
(* rename before the sync; a doctor that verifies current snapshots only.   *)
StoreUnsynced(p) ==
    /\ pc[p] = "store"
    /\ Rename(body[p], body[p], FALSE)
    /\ lost' = lost \ {body[p]}
    /\ Goto(p, IF copy[p] # None /\ p \in Announcing THEN "report" ELSE "commit")
    /\ UNCHANGED <<target, recorded, version, copy, body, listed, unread>>

DoctorCurrent(p) ==
    /\ pc[p] = "history"
    /\ Goto(p, "verify")
    /\ listed' = [listed EXCEPT ![p] = recorded]
    /\ unread' = [unread EXCEPT ![p] = {copy[p].hash}]
    /\ UNCHANGED <<diskVars, dataVars, copy, body>>

--------------------------------------------------------------------------------
(* check and add *)

(* A check that found a change, or the baseline of an add.                  *)
Begin(p) ==
    /\ pc[p] = "idle"
    /\ version < MaxVersion
    /\ copy' = [copy EXCEPT ![p] = target]
    /\ \E c \in Contents :
         /\ target # None => c # target.hash
         /\ body' = [body EXCEPT ![p] = c]
    /\ Goto(p, "stat")
    /\ UNCHANGED <<diskVars, dataVars, listed, unread>>

AfterPut(p) == IF copy[p] # None /\ p \in Announcing THEN "report" ELSE "commit"

(* A file that exists is taken for the snapshot, whatever is in it.         *)
Stat(p) ==
    /\ pc[p] = "stat"
    /\ Goto(p, IF seen[body[p]] = Absent THEN "store" ELSE AfterPut(p))
    /\ UNCHANGED <<diskVars, dataVars, copy, body, listed, unread>>

(* The temporary file was written and synced; its directory is not synced.  *)
(* A rename that fails is no error when the path has a file by then.        *)
Store(p) ==
    /\ pc[p] = "store"
    /\ \/ /\ Rename(body[p], body[p], TRUE)
          /\ lost' = lost \ {body[p]}
       \/ seen[body[p]] # Absent /\ UNCHANGED <<diskVars, lost>>
    /\ Goto(p, AfterPut(p))
    /\ UNCHANGED <<target, recorded, version, copy, body, listed, unread>>

(* The report needs both contents: without one the check ends here.         *)
Report(p) ==
    /\ pc[p] = "report"
    /\ IF Readable(copy[p].hash) /\ Readable(body[p])
       THEN Goto(p, "commit") /\ UNCHANGED <<copy, body, listed, unread>>
       ELSE Finish(p)
    /\ UNCHANGED <<diskVars, dataVars>>

Commit(p) ==
    /\ pc[p] = "commit"
    /\ Finish(p)
    /\ IF target = copy[p] /\ version < MaxVersion
       THEN /\ target' = [hash |-> body[p], version |-> version + 1,
                          born |-> IF target = None THEN version + 1 ELSE target.born]
            /\ recorded' = recorded \cup {body[p]}
            /\ version' = version + 1
       ELSE UNCHANGED <<target, recorded, version>>
    /\ UNCHANGED <<diskVars, lost>>

Remove ==
    /\ target # None
    /\ target' = None
    /\ recorded' = {}
    /\ UNCHANGED <<diskVars, version, lost, procVars>>

(* An error or a kill at any step; the temporary file is left or removed.   *)
Stop(p) ==
    /\ pc[p] # "idle"
    /\ Finish(p)
    /\ UNCHANGED <<diskVars, dataVars>>

--------------------------------------------------------------------------------
(* doctor *)

StartDoctor(p) ==
    /\ pc[p] = "idle"
    /\ target # None
    /\ Goto(p, "doctor")
    /\ UNCHANGED <<diskVars, dataVars, copy, body, listed, unread>>

(* Service.History reads the target by its name, after the list of targets: *)
(* the doctor reports one that went away in between as not found.           *)
DoctorTarget(p) ==
    /\ pc[p] = "doctor"
    /\ IF target = None THEN Goto(p, "missing") /\ UNCHANGED copy
       ELSE Goto(p, "history") /\ copy' = [copy EXCEPT ![p] = target]
    /\ UNCHANGED <<diskVars, dataVars, body, listed, unread>>

(* Then the history by the ID: that of a target gone by now is empty.       *)
DoctorHistory(p) ==
    /\ pc[p] = "history"
    /\ LET mine == target # None /\ target.born = copy[p].born
           read == IF mine THEN recorded ELSE {} IN
         /\ listed' = [listed EXCEPT ![p] = read]
         /\ unread' = [unread EXCEPT ![p] = read]
    /\ Goto(p, "verify")
    /\ UNCHANGED <<diskVars, dataVars, copy, body>>

DoctorVerify(p) ==
    /\ pc[p] = "verify"
    /\ \/ /\ unread[p] = {}
          /\ Goto(p, "healthy")
          /\ UNCHANGED unread
       \/ \E c \in unread[p] :
            /\ Goto(p, IF Readable(c) THEN "verify" ELSE "damaged")
            /\ unread' = [unread EXCEPT ![p] = @ \ {c}]
    /\ UNCHANGED <<diskVars, dataVars, copy, body, listed>>

--------------------------------------------------------------------------------
PowerLoss ==
    /\ LosePower
    /\ lost' = {c \in recorded : seen'[c] # c}
    /\ pc' = [p \in Procs |-> "idle"]
    /\ copy' = [p \in Procs |-> None]
    /\ body' = [p \in Procs |-> None]
    /\ listed' = [p \in Procs |-> {}]
    /\ unread' = [p \in Procs |-> {}]
    /\ UNCHANGED <<target, recorded, version>>

ProcStep(p) ==
    \/ Begin(p) \/ Stat(p) \/ Store(p) \/ Report(p) \/ Commit(p) \/ Stop(p)
    \/ StartDoctor(p) \/ DoctorTarget(p) \/ DoctorHistory(p) \/ DoctorVerify(p)

SnapshotsNext == (\E p \in Procs : ProcStep(p)) \/ Remove \/ PowerLoss

SnapshotsSpec == DiskInit /\ SnapshotsInit /\ [][SnapshotsNext]_<<diskVars, snapshotVars>>

--------------------------------------------------------------------------------
(* Properties *)

(* A snapshot file is never half a file, and a recorded snapshot is missing *)
(* only if a power loss undid the rename of its file, which the commit that *)
(* refers to it outlived; another process that needs it writes it again.    *)
SnapshotsKept ==
    /\ \A c \in Contents : seen[c] \in {Absent, c}
    /\ recorded \ lost \subseteq {c \in Contents : Readable(c)}

(* The doctor finds nothing wrong only if every snapshot of the history it  *)
(* read can be read, so that neither a report nor a diff will fail on one.  *)
(* It complains of a snapshot only when a power loss took one: not about a  *)
(* check or an add that runs beside it, nor about a remove once it has read *)
(* the target.  A remove before that is an error of the doctor: it reports  *)
(* a target that it has listed itself as not found.                         *)
Finds(p) ==
    /\ pc[p] = "verify" /\ pc'[p] = "healthy" => \A c \in listed[p] : Readable(c)
    /\ pc[p] # "damaged" /\ pc'[p] = "damaged" => listed[p] \cap lost # {}
    /\ pc[p] # "missing" /\ pc'[p] = "missing" => target = None

DoctorHonest == [][\A p \in Procs : Finds(p)]_snapshotVars
================================================================================
