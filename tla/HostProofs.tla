------------------------------- MODULE HostProofs -------------------------------
(****************************************************************************)
(* Proofs about Snapshots, Install and Host, for any number of processes,   *)
(* contents, installers and units: what the snapshot files hold and the     *)
(* doctor may say of them, what an install promises, and that both hold of  *)
(* the one host whose disk the two share.                                   *)
(****************************************************************************)
EXTENDS Host, TLAPS

--------------------------------------------------------------------------------
(* The data directory *)

Writing == {"stat", "store", "report", "commit"}

Labels == Writing \cup
    {"idle", "doctor", "missing", "history", "verify", "healthy", "damaged"}

(* A path of a snapshot has its content or no file, now and after a power   *)
(* loss: what is renamed to it was synced.                                  *)
DiskSound ==
    /\ seen \in [Paths -> Contents \cup {Absent}]
    /\ survivors \in [Paths -> SUBSET (Contents \cup {Absent})]
    /\ \A c \in Contents : seen[c] \in {Absent, c} /\ survivors[c] \subseteq {Absent, c}

(* A process that is past PutSnapshot finds the file of its content: it is  *)
(* gone only after a power loss, which the process does not survive.        *)
WritersSound ==
    /\ pc \in [Procs -> Labels]
    /\ body \in [Procs -> Contents \cup {None}]
    /\ \A p \in Procs :
         /\ pc[p] \in Writing => body[p] \in Contents
         /\ pc[p] \in {"report", "commit"} => Readable(body[p])

RecordSound ==
    /\ recorded \subseteq Contents
    /\ \A c \in recorded : Readable(c) \/ c \in lost

(* Of the history a doctor read, what it has verified is there, and what is *)
(* not there was lost.                                                      *)
DoctorsSound ==
    /\ listed \in [Procs -> SUBSET Contents]
    /\ unread \in [Procs -> SUBSET Contents]
    /\ \A p \in Procs : pc[p] = "verify" =>
         \A c \in listed[p] : Readable(c) \/ (c \in unread[p] /\ c \in lost)
    /\ \A p \in Procs : pc[p] = "verify" => unread[p] \subseteq listed[p]

DataInv == DiskSound /\ WritersSound /\ RecordSound /\ DoctorsSound

dataAll == <<diskVars, snapshotVars>>

--------------------------------------------------------------------------------
USE SnapshotsAssumption DEF Labels, Writing

(* The disk is empty and no process has begun.                              *)
LEMMA DataInitially == DiskInit /\ SnapshotsInit => DataInv
BY DEF DiskInit, SnapshotsInit, DataInv, DiskSound, WritersSound, RecordSound, DoctorsSound

(* A file that can be read stays so while the disk stays as it is.          *)
LEMMA SameDisk ==
    UNCHANGED diskVars /\ DataInv => DiskSound' /\ \A c \in Contents : Readable(c)' <=> Readable(c)
BY DEF diskVars, DataInv, DiskSound, Readable

(* A process that ends its command leaves nothing the invariant asks about. *)
LEMMA FinishKeeps ==
    ASSUME DataInv, NEW p \in Procs, Finish(p),
           UNCHANGED <<diskVars, lost>>,
           recorded' \subseteq Contents,
           \A c \in recorded' : Readable(c) \/ c \in lost
    PROVE  DataInv'
<1>1. DiskSound' /\ \A c \in Contents : Readable(c)' <=> Readable(c)
  BY SameDisk
<1>2. WritersSound'
  BY <1>1 DEF DataInv, WritersSound, Finish, Goto
<1>3. RecordSound'
  BY <1>1 DEF RecordSound
<1>4. DoctorsSound'
  BY <1>1 DEF DataInv, DoctorsSound, Finish, Goto
<1> QED BY <1>1, <1>2, <1>3, <1>4 DEF DataInv

(* The steps of a process that leave the disk and the record alone.         *)
LEMMA QuietSteps ==
    ASSUME DataInv, NEW p \in Procs,
           Begin(p) \/ Stat(p) \/ StartDoctor(p) \/ DoctorTarget(p) \/ DoctorVerify(p)
    PROVE  DataInv'
<1>1. UNCHANGED <<diskVars, dataVars>>
  BY DEF Begin, Stat, StartDoctor, DoctorTarget, DoctorVerify
<1>2. DiskSound' /\ \A c \in Contents : Readable(c)' <=> Readable(c)
  BY <1>1, SameDisk
<1>3. RecordSound'
  BY <1>1, <1>2 DEF DataInv, RecordSound, dataVars
<1>4. CASE Begin(p)
  <2>1. WritersSound'
    BY <1>2, <1>4 DEF DataInv, WritersSound, Begin, Goto
  <2>2. DoctorsSound'
    BY <1>1, <1>2, <1>4 DEF DataInv, DoctorsSound, Begin, Goto, dataVars
  <2> QED BY <1>2, <1>3, <2>1, <2>2 DEF DataInv
<1>5. CASE Stat(p)
  <2>1. body[p] \in Contents /\ (seen[body[p]] # Absent => Readable(body[p]))
    BY <1>5 DEF DataInv, WritersSound, DiskSound, Stat, Readable
  <2>2. WritersSound'
    BY <1>2, <1>5, <2>1 DEF DataInv, WritersSound, Stat, Goto, AfterPut
  <2>3. DoctorsSound'
    BY <1>1, <1>2, <1>5 DEF DataInv, DoctorsSound, Stat, Goto, AfterPut, dataVars
  <2> QED BY <1>2, <1>3, <2>2, <2>3 DEF DataInv
<1>6. CASE StartDoctor(p)
  <2>1. WritersSound'
    BY <1>2, <1>6 DEF DataInv, WritersSound, StartDoctor, Goto
  <2>2. DoctorsSound'
    BY <1>1, <1>2, <1>6 DEF DataInv, DoctorsSound, StartDoctor, Goto, dataVars
  <2> QED BY <1>2, <1>3, <2>1, <2>2 DEF DataInv
<1>7. CASE DoctorTarget(p)
  <2>1. PICK label \in {"missing", "history"} : Goto(p, label)
    BY <1>7 DEF DoctorTarget
  <2>2. WritersSound'
    BY <1>2, <1>7, <2>1 DEF DataInv, WritersSound, DoctorTarget, Goto
  <2>3. DoctorsSound'
    BY <1>1, <1>2, <1>7, <2>1 DEF DataInv, DoctorsSound, DoctorTarget, Goto, dataVars
  <2> QED BY <1>2, <1>3, <2>2, <2>3 DEF DataInv
<1>8. CASE DoctorVerify(p)
  <2>1. WritersSound'
    BY <1>2, <1>8 DEF DataInv, WritersSound, DoctorVerify, Goto
  <2>2. DoctorsSound'
    <3>1. pc \in [Procs -> Labels]
      BY DEF DataInv, WritersSound
    <3>2. CASE unread[p] = {} /\ Goto(p, "healthy") /\ UNCHANGED unread
      BY <1>1, <1>2, <1>8, <3>1, <3>2 DEF DataInv, DoctorsSound, DoctorVerify, Goto, dataVars
    <3>3. ASSUME NEW c \in unread[p],
                 Goto(p, IF Readable(c) THEN "verify" ELSE "damaged"),
                 unread' = [unread EXCEPT ![p] = @ \ {c}]
          PROVE  DoctorsSound'
      <4>1. pc'[p] = "verify" => Readable(c)
        BY <3>1, <3>3 DEF Goto
      <4>2. \A q \in Procs : pc'[q] = "verify" => pc[q] = "verify"
        BY <1>8, <3>1, <3>3 DEF DoctorVerify, Goto
      <4>3. UNCHANGED <<listed, lost>>
        BY <1>1, <1>8 DEF DoctorVerify, dataVars
      <4>4. /\ unread' \in [Procs -> SUBSET Contents]
            /\ \A q \in Procs : unread'[q] = IF q = p THEN unread[q] \ {c} ELSE unread[q]
        BY <3>3 DEF DataInv, DoctorsSound
      <4> QED BY <1>2, <4>1, <4>2, <4>3, <4>4 DEF DataInv, DoctorsSound
    <3> QED BY <1>8, <3>2, <3>3 DEF DoctorVerify
  <2> QED BY <1>2, <1>3, <2>1, <2>2 DEF DataInv
<1> QED BY <1>4, <1>5, <1>6, <1>7, <1>8

(* The rename brings one file and takes none away.                          *)
LEMMA StoreKeeps ==
    ASSUME DataInv, NEW p \in Procs, Store(p)
    PROVE  DataInv'
<1>1. body[p] \in Contents
  BY DEF DataInv, WritersSound, Store
<1>2. DiskSound'
  BY <1>1 DEF DataInv, DiskSound, Store, Rename, diskVars
<1>3. seen'[body[p]] = body[p]
  BY <1>1 DEF DataInv, DiskSound, Store, Rename, diskVars, Readable
<1>4. \A c \in Contents : Readable(c) => Readable(c)'
  BY <1>1 DEF DataInv, DiskSound, Store, Rename, diskVars, Readable
<1>5. lost' = lost \/ lost' = lost \ {body[p]}
  BY DEF Store
<1>6. WritersSound'
  BY <1>1, <1>3, <1>4 DEF DataInv, WritersSound, Store, Goto, AfterPut, Readable
<1>7. RecordSound'
  BY <1>1, <1>3, <1>4, <1>5 DEF DataInv, RecordSound, Store, Readable
<1>8. DoctorsSound'
  <2>1. UNCHANGED <<listed, unread>> /\ pc' \in [Procs -> Labels]
        /\ \A q \in Procs : pc'[q] = "verify" => pc[q] = "verify"
    BY <1>6 DEF DataInv, WritersSound, Store, Goto, AfterPut
  <2>2. \A c \in Contents : c \in lost => c \in lost' \/ Readable(c)'
    BY <1>3, <1>5 DEF Readable
  <2> QED BY <1>4, <2>1, <2>2 DEF DataInv, DoctorsSound
<1> QED BY <1>2, <1>6, <1>7, <1>8 DEF DataInv

(* The commit records the one snapshot whose file its process has found.    *)
LEMMA CommitKeeps ==
    ASSUME DataInv, NEW p \in Procs, Commit(p)
    PROVE  DataInv'
<1>1. body[p] \in Contents /\ Readable(body[p])
  BY DEF DataInv, WritersSound, Commit
<1>2. recorded' \in {recorded, recorded \cup {body[p]}}
  BY DEF Commit
<1>3. recorded' \subseteq Contents /\ \A c \in recorded' : Readable(c) \/ c \in lost
  BY <1>1, <1>2 DEF DataInv, RecordSound
<1> QED BY <1>3, FinishKeeps DEF Commit

LEMMA ReportKeeps ==
    ASSUME DataInv, NEW p \in Procs, Report(p)
    PROVE  DataInv'
<1>1. UNCHANGED <<diskVars, dataVars>>
  BY DEF Report
<1>2. CASE Finish(p)
  BY <1>1, <1>2, FinishKeeps DEF DataInv, RecordSound, dataVars
<1>3. CASE Goto(p, "commit") /\ UNCHANGED <<copy, body, listed, unread>>
  <2>1. DiskSound' /\ \A c \in Contents : Readable(c)' <=> Readable(c)
    BY <1>1, SameDisk
  <2>2. WritersSound'
    BY <1>3, <2>1 DEF DataInv, WritersSound, Report, Goto
  <2>3. RecordSound'
    BY <1>1, <2>1 DEF DataInv, RecordSound, dataVars
  <2>4. DoctorsSound'
    BY <1>1, <1>3, <2>1 DEF DataInv, DoctorsSound, Goto, dataVars
  <2> QED BY <2>1, <2>2, <2>3, <2>4 DEF DataInv
<1> QED BY <1>2, <1>3 DEF Report

(* The history a doctor reads is what is recorded, or empty.                *)
LEMMA DoctorHistoryKeeps ==
    ASSUME DataInv, NEW p \in Procs, DoctorHistory(p)
    PROVE  DataInv'
<1>1. UNCHANGED <<diskVars, dataVars>>
  BY DEF DoctorHistory
<1>2. DiskSound' /\ \A c \in Contents : Readable(c)' <=> Readable(c)
  BY <1>1, SameDisk
<1>3. WritersSound'
  BY <1>2 DEF DataInv, WritersSound, DoctorHistory, Goto
<1>4. RecordSound'
  BY <1>1, <1>2 DEF DataInv, RecordSound, dataVars
<1>5. DoctorsSound'
  <2>1. PICK read \in {recorded, {}} :
          /\ listed' = [listed EXCEPT ![p] = read]
          /\ unread' = [unread EXCEPT ![p] = read]
    BY DEF DoctorHistory
  <2>2. read \subseteq Contents /\ \A c \in read : Readable(c) \/ c \in lost
    BY DEF DataInv, RecordSound
  <2>3. \A q \in Procs \ {p} : pc'[q] = pc[q] /\ listed'[q] = listed[q] /\ unread'[q] = unread[q]
    BY <2>1 DEF DataInv, WritersSound, DoctorsSound, DoctorHistory, Goto
  <2>4. listed'[p] = read /\ unread'[p] = read
    BY <2>1 DEF DataInv, DoctorsSound
  <2>5. listed' \in [Procs -> SUBSET Contents] /\ unread' \in [Procs -> SUBSET Contents]
    BY <2>1, <2>2 DEF DataInv, DoctorsSound
  <2> QED BY <1>1, <1>2, <2>2, <2>3, <2>4, <2>5 DEF DataInv, DoctorsSound, dataVars
<1> QED BY <1>2, <1>3, <1>4, <1>5 DEF DataInv

LEMMA RemoveKeeps ==
    ASSUME DataInv, Remove
    PROVE  DataInv'
<1>1. DiskSound' /\ \A c \in Contents : Readable(c)' <=> Readable(c)
  BY SameDisk DEF Remove
<1> QED BY <1>1 DEF DataInv, WritersSound, RecordSound, DoctorsSound, Remove, procVars

(* What is on no disk any more is noted as lost.                            *)
LEMMA PowerLossKeeps ==
    ASSUME DataInv, PowerLoss
    PROVE  DataInv'
<1>1. PICK f \in [Paths -> UNION {survivors[q] : q \in Paths}] :
        /\ \A q \in Paths : f[q] \in survivors[q]
        /\ seen' = f
        /\ survivors' = [q \in Paths |-> {f[q]}]
  BY DEF PowerLoss, LosePower
<1>2. \A q \in Paths : f[q] \in Contents \cup {Absent}
  BY <1>1 DEF DataInv, DiskSound
<1>3. DiskSound'
  BY <1>1, <1>2 DEF DataInv, DiskSound
<1>4. RecordSound'
  BY DEF DataInv, RecordSound, PowerLoss, Readable
<1>5. WritersSound' /\ DoctorsSound'
  BY DEF WritersSound, DoctorsSound, PowerLoss
<1> QED BY <1>3, <1>4, <1>5 DEF DataInv

LEMMA DataPreserved == DataInv /\ [SnapshotsNext]_dataAll => DataInv'
<1> SUFFICES ASSUME DataInv, [SnapshotsNext]_dataAll PROVE DataInv'
  OBVIOUS
<1>1. ASSUME NEW p \in Procs, ProcStep(p) PROVE DataInv'
  <2>1. CASE Stop(p)
    BY <2>1, FinishKeeps DEF DataInv, RecordSound, Stop, dataVars
  <2> QED BY <1>1, <2>1, QuietSteps, StoreKeeps, ReportKeeps, CommitKeeps,
             DoctorHistoryKeeps DEF ProcStep
<1>2. CASE UNCHANGED dataAll
  <2>1. UNCHANGED <<diskVars, recorded, lost, pc, body, listed, unread>>
    BY <1>2 DEF dataAll, snapshotVars, dataVars, procVars
  <2>2. DiskSound' /\ \A c \in Contents : Readable(c)' <=> Readable(c)
    BY <2>1, SameDisk
  <2> QED BY <2>1, <2>2 DEF DataInv, WritersSound, RecordSound, DoctorsSound
<1> QED BY <1>1, <1>2, RemoveKeeps, PowerLossKeeps DEF SnapshotsNext

LEMMA DataAlways == SnapshotsSpec => []DataInv
BY DataInitially, DataPreserved, PTL DEF SnapshotsSpec, dataAll

--------------------------------------------------------------------------------
(* PutSnapshot syncs a file before it renames it, and every commit follows  *)
(* it: whatever processes write beside each other and wherever the power    *)
(* fails, no snapshot file is half a file, and one that is recorded is      *)
(* missing only if a power loss took it.                                    *)
THEOREM SnapshotsStayKept == SnapshotsSpec => []SnapshotsKept
<1>1. DataInv => SnapshotsKept
  BY DEF DataInv, DiskSound, RecordSound, SnapshotsKept
<1> QED BY <1>1, DataAlways, PTL

(* What the doctor finds: only one of its steps gives each of its answers.  *)
LEMMA DoctorFinds ==
    ASSUME DataInv, SnapshotsNext, NEW p \in Procs
    PROVE  Finds(p)
<1>1. pc[p] = "verify" /\ pc'[p] \in {"healthy", "damaged"} => DoctorVerify(p)
  BY DEF SnapshotsNext, ProcStep, Begin, Stat, Store, Report, Commit, Stop, StartDoctor,
         DoctorTarget, DoctorHistory, Remove, PowerLoss, Finish, Goto, AfterPut, procVars, DataInv,
         WritersSound, DoctorVerify
<1>2. pc'[p] = "damaged" => pc[p] \in {"verify", "damaged"}
  BY DEF SnapshotsNext, ProcStep, Begin, Stat, Store, Report, Commit, Stop, StartDoctor,
         DoctorTarget, DoctorHistory, Remove, PowerLoss, Finish, Goto, AfterPut, procVars, DataInv,
         WritersSound, DoctorVerify
<1>3. pc'[p] = "missing" /\ pc[p] # "missing" => DoctorTarget(p)
  BY DEF SnapshotsNext, ProcStep, Begin, Stat, Store, Report, Commit, Stop, StartDoctor,
         DoctorTarget, DoctorHistory, Remove, PowerLoss, Finish, Goto, AfterPut, procVars, DataInv,
         WritersSound, DoctorVerify
<1>4. ASSUME DoctorVerify(p), pc'[p] = "healthy" PROVE \A c \in listed[p] : Readable(c)
  BY <1>4 DEF DoctorVerify, Goto, DataInv, WritersSound, DoctorsSound
<1>5. ASSUME DoctorVerify(p), pc'[p] = "damaged" PROVE listed[p] \cap lost # {}
  BY <1>5 DEF DoctorVerify, Goto, DataInv, WritersSound, DoctorsSound
<1>6. ASSUME DoctorTarget(p), pc'[p] = "missing" PROVE target = None
  BY <1>6 DEF DoctorTarget, Goto, DataInv, WritersSound
<1> QED BY <1>1, <1>2, <1>3, <1>4, <1>5, <1>6 DEF Finds

(* The doctor reads the list, each target, its history and each file in     *)
(* steps of their own: it finds nothing wrong only if each snapshot it read *)
(* of is there, complains of a snapshot only when a power loss took one,    *)
(* and says that a target is not found only when a remove came in between.  *)
THEOREM DoctorIsHonest == SnapshotsSpec => DoctorHonest
<1>1. DataInv /\ [SnapshotsNext]_<<diskVars, snapshotVars>> =>
        [\A p \in Procs : Finds(p)]_snapshotVars
  BY DoctorFinds DEF snapshotVars
<1> QED BY <1>1, DataAlways, PTL DEF SnapshotsSpec, DoctorHonest

HIDE SnapshotsAssumption DEF Labels, Writing

--------------------------------------------------------------------------------
(* The service *)

Enabling == {"enable", "restart", "isEnabled", "isActive"}

Ended == {"start", "done", "failed"}

Steps == Ended \cup {"inspect", "rename", "sync", "reload"} \cup Enabling

InstallTyped ==
    /\ DOMAIN seen = Paths /\ seen = [p \in Paths |-> seen[p]]
    /\ survivors = [p \in Paths |-> survivors[p]]
    /\ \A p \in Paths : seen[p] \in survivors[p]
    /\ enabled \in BOOLEAN
    /\ step \in [Installers -> Steps]
    /\ options \in [Installers -> Options]
    /\ wrote \in [Installers -> BOOLEAN]
    /\ disturbed \in [Installers -> BOOLEAN]

(* What an installer at work has made so, if no other has acted since.      *)
Progress(i) ==
    /\ step[i] \in {"sync", "reload"} \cup Enabling => seen[Unit] = Want(i)
    /\ step[i] \in {"inspect", "rename"} => ~wrote[i]
    /\ step[i] \in {"reload"} \cup Enabling /\ wrote[i] => survivors[Unit] = {Want(i)}
    /\ step[i] \in Enabling => loaded = Want(i) /\ options[i].enable
    /\ step[i] \in Enabling \ {"enable"} => enabled
    /\ step[i] \in {"isEnabled", "isActive"} => running \in {Want(i), Restarting}

(* What an install promised is on the disk, for good if it wrote the file,  *)
(* and is loaded; only the power loss that undoes another's rename of it    *)
(* takes it away.                                                           *)
Kept ==
    /\ seen[Unit] = promise.unit
    /\ promise.wrote => survivors[Unit] = {promise.unit}
    /\ promise.runs => enabled /\ running \in {promise.unit, Restarting}

Promise == [unit: Units, runs: BOOLEAN, wrote: BOOLEAN, undone: BOOLEAN]

Promised ==
    promise # NoUnit =>
        /\ promise \in Promise
        /\ loaded = OnDisk
        /\ promise.undone => ~promise.wrote
        /\ ~promise.undone => Kept

ServiceInv ==
    /\ InstallTyped
    /\ \A i \in Installers : ~disturbed[i] => Progress(i)
    /\ Promised

serviceAll == <<diskVars, installVars>>

--------------------------------------------------------------------------------
USE InstallAssumption DEF Steps, Ended, Enabling

LEMMA ServiceInitially == DiskInit /\ InstallInit => ServiceInv
BY DEF DiskInit, InstallInit, ServiceInv, InstallTyped, Progress, Promised

LEMMA Wants == ASSUME ServiceInv, NEW i \in Installers PROVE Want(i) \in Units
BY DEF ServiceInv, InstallTyped, Want, Options

(* A step that leaves the unit file alone and starts no other unit than the *)
(* loaded one keeps what was promised.                                      *)
LEMMA PromiseStays ==
    ASSUME ServiceInv, promise' = promise, seen' = seen,
           survivors'[Unit] = survivors[Unit] \/ survivors'[Unit] = {seen[Unit]},
           loaded' = loaded \/ loaded' = OnDisk,
           enabled => enabled',
           running' = running \/ running' = loaded \/ running' = Restarting
    PROVE  Promised'
<1> SUFFICES ASSUME promise # NoUnit PROVE Promised'
  BY DEF Promised
<1>1. /\ promise \in Promise /\ loaded = OnDisk
      /\ promise.undone => ~promise.wrote
      /\ ~promise.undone => Kept
  BY DEF ServiceInv, Promised
<1>2. OnDisk' = OnDisk /\ loaded' = OnDisk
  BY <1>1 DEF OnDisk
<1>3. ASSUME ~promise.undone PROVE Kept'
  <2>1. /\ seen[Unit] = promise.unit /\ promise.unit \in Units
        /\ promise.wrote => survivors[Unit] = {promise.unit}
        /\ promise.runs => enabled /\ running \in {promise.unit, Restarting}
    BY <1>1, <1>3 DEF Kept, Promise
  <2>2. loaded = promise.unit
    BY <1>1, <2>1 DEF OnDisk
  <2> QED BY <2>1, <2>2 DEF Kept
<1> QED BY <1>1, <1>2, <1>3 DEF Promised

(* A step of one installer that changes neither the disk nor the service    *)
(* concerns only that installer.                                            *)
LEMMA OwnStep ==
    ASSUME ServiceInv, NEW i \in Installers, NEW s \in Steps, To(i, s),
           UNCHANGED <<diskVars, systemdVars, options, wrote, disturbed, promise>>,
           ~disturbed[i] => Progress(i)'
    PROVE  ServiceInv'
<1>1. InstallTyped'
  BY DEF ServiceInv, InstallTyped, To, diskVars, systemdVars
<1>2. Promised'
  BY PromiseStays DEF diskVars, systemdVars
<1>3. \A j \in Installers \ {i} : ~disturbed'[j] => Progress(j)'
  BY DEF ServiceInv, InstallTyped, To, diskVars, systemdVars, Progress, Want
<1> QED BY <1>1, <1>2, <1>3 DEF ServiceInv

LEMMA StartKeeps == ASSUME ServiceInv, NEW i \in Installers, Start(i) PROVE ServiceInv'
<1>1. InstallTyped'
  BY DEF ServiceInv, InstallTyped, Start, To, diskVars, systemdVars
<1>2. Promised'
  BY PromiseStays DEF Start, diskVars, systemdVars
<1>3. Progress(i)'
  BY DEF ServiceInv, InstallTyped, Start, To, Progress
<1>4. \A j \in Installers \ {i} : ~disturbed'[j] => Progress(j)'
  BY DEF ServiceInv, InstallTyped, Start, To, diskVars, systemdVars, Progress, Want
<1> QED BY <1>1, <1>2, <1>3, <1>4 DEF ServiceInv

LEMMA InspectKeeps == ASSUME ServiceInv, NEW i \in Installers, Inspect(i) PROVE ServiceInv'
<1>1. PICK s \in {"reload", "rename", "failed"} :
        To(i, s) /\ (s = "reload" => seen[Unit] = Want(i))
  BY DEF Inspect
<1>2. ~disturbed[i] => Progress(i)'
  BY <1>1 DEF Inspect, ServiceInv, InstallTyped, Progress, To, Want, diskVars
<1> QED BY <1>1, <1>2, OwnStep DEF Inspect

(* A rename disturbs all others, whatever unit it brings.                   *)
LEMMA ReplaceKeeps == ASSUME ServiceInv, NEW i \in Installers, Replace(i) PROVE ServiceInv'
<1>1. seen'[Unit] = Want(i)
  BY DEF ServiceInv, InstallTyped, Replace, Rename
<1>2. InstallTyped'
  BY DEF ServiceInv, InstallTyped, Replace, Rename, To, Disturb, systemdVars
<1>3. Promised'
  BY DEF Promised, Replace, Disturb
<1>4. Progress(i)'
  BY <1>1 DEF ServiceInv, InstallTyped, Replace, To, Progress, Want
<1>5. \A j \in Installers \ {i} : disturbed'[j]
  BY DEF ServiceInv, InstallTyped, Replace, Disturb
<1> QED BY <1>2, <1>3, <1>4, <1>5 DEF ServiceInv

LEMMA SyncKeeps == ASSUME ServiceInv, NEW i \in Installers, Sync(i) PROVE ServiceInv'
<1>1. seen' = seen /\ survivors'[Unit] = {seen[Unit]}
  BY DEF ServiceInv, InstallTyped, Sync, SyncDirectory
<1>2. InstallTyped'
  BY DEF ServiceInv, InstallTyped, Sync, SyncDirectory, To, systemdVars
<1>3. Promised'
  BY <1>1, PromiseStays DEF Sync, systemdVars
<1>4. ~disturbed'[i] => Progress(i)'
  BY <1>1 DEF ServiceInv, InstallTyped, Sync, To, systemdVars, Progress, Want
<1>5. \A j \in Installers \ {i} : ~disturbed'[j] => Progress(j)'
  BY <1>1 DEF ServiceInv, InstallTyped, Sync, To, systemdVars, Progress, Want
<1> QED BY <1>2, <1>3, <1>4, <1>5 DEF ServiceInv

(* What an installer promises when it succeeds was shown of it before.      *)
LEMMA Promises ==
    ASSUME ServiceInv, NEW i \in Installers, Succeed(i),
           UNCHANGED <<seen, survivors, enabled, running>>,
           loaded' = loaded \/ loaded' = OnDisk,
           ~disturbed[i] => loaded' = Want(i) /\ seen[Unit] = Want(i),
           ~disturbed[i] /\ wrote[i] => survivors[Unit] = {Want(i)},
           ~disturbed[i] /\ options[i].enable => enabled /\ running \in {Want(i), Restarting}
    PROVE  Promised'
<1>1. CASE disturbed[i]
  BY <1>1, PromiseStays DEF Succeed
<1>2. CASE ~disturbed[i]
  <2>1. promise' = [unit |-> Want(i), runs |-> options[i].enable,
                    wrote |-> wrote[i], undone |-> FALSE]
    BY <1>2 DEF Succeed
  <2>2. Want(i) \in Units /\ options[i].enable \in BOOLEAN /\ wrote[i] \in BOOLEAN
    BY DEF ServiceInv, InstallTyped, Options, Want
  <2>3. /\ promise' \in Promise
        /\ promise'.unit = Want(i) /\ promise'.runs = options[i].enable
        /\ promise'.wrote = wrote[i] /\ ~promise'.undone
    BY <2>1, <2>2 DEF Promise
  <2>4. Kept'
    BY <1>2, <2>3 DEF Kept
  <2>5. loaded' = OnDisk'
    BY <1>2, <2>2 DEF OnDisk
  <2> QED BY <2>3, <2>4, <2>5 DEF Promised
<1> QED BY <1>1, <1>2

LEMMA ReloadKeeps == ASSUME ServiceInv, NEW i \in Installers, Reload(i) PROVE ServiceInv'
<1>1. ~disturbed[i] => seen[Unit] = Want(i) /\ (wrote[i] => survivors[Unit] = {Want(i)})
  BY DEF ServiceInv, Progress, Reload
<1>2. ~disturbed[i] => loaded' = Want(i)
  BY <1>1, Wants DEF Reload, OnDisk
<1>3. \A j \in Installers : ~disturbed[j] /\ step[j] \in Enabling => loaded' = Want(j)
  BY Wants DEF Reload, OnDisk, ServiceInv, Progress
<1>4. UNCHANGED <<seen, survivors, enabled, running>> /\ loaded' = OnDisk
  BY DEF Reload, diskVars
<1>5. InstallTyped'
  BY DEF ServiceInv, InstallTyped, Reload, Succeed, To, diskVars
<1>6. \A j \in Installers : ~disturbed'[j] => Progress(j)'
  <2>1. ASSUME NEW j \in Installers \ {i}, ~disturbed[j] PROVE Progress(j)'
    BY <1>3, <2>1 DEF ServiceInv, InstallTyped, Reload, Succeed, To, diskVars, Progress, Want
  <2>2. ~disturbed[i] => Progress(i)'
    BY <1>1, <1>2 DEF ServiceInv, InstallTyped, Reload, Succeed, To, diskVars, Progress, Want
  <2> QED BY <2>1, <2>2 DEF Reload
<1>7. Promised'
  <2>1. CASE Succeed(i) /\ ~options[i].enable
    BY <1>1, <1>2, <1>4, <2>1, Promises
  <2>2. CASE UNCHANGED promise
    BY <1>4, <2>2, PromiseStays
  <2>3. (Succeed(i) /\ ~options[i].enable) \/ UNCHANGED promise
    BY DEF Reload
  <2> QED BY <2>1, <2>2, <2>3
<1> QED BY <1>5, <1>6, <1>7 DEF ServiceInv

LEMMA EnableKeeps == ASSUME ServiceInv, NEW i \in Installers, Enable(i) PROVE ServiceInv'
<1>1. ~disturbed[i] => OnDisk = Want(i) /\ Want(i) # NoUnit
  BY Wants DEF Enable, OnDisk, ServiceInv, Progress
<1>2. enabled => enabled'
  BY DEF Enable
<1>3. InstallTyped'
  BY DEF ServiceInv, InstallTyped, Enable, To, diskVars
<1>4. Promised'
  BY <1>2, PromiseStays DEF Enable, diskVars
<1>5. ~disturbed[i] => Progress(i)'
  BY <1>1 DEF ServiceInv, InstallTyped, Enable, To, diskVars, Progress, Want
<1>6. \A j \in Installers \ {i} : ~disturbed[j] => Progress(j)'
  BY <1>2 DEF ServiceInv, InstallTyped, Enable, To, diskVars, Progress, Want
<1> QED BY <1>3, <1>4, <1>5, <1>6 DEF ServiceInv, Enable

LEMMA RestartKeeps == ASSUME ServiceInv, NEW i \in Installers, RestartService(i) PROVE ServiceInv'
<1>1. InstallTyped'
  BY DEF ServiceInv, InstallTyped, RestartService, To, diskVars
<1>2. Promised'
  BY PromiseStays DEF RestartService, diskVars
<1>3. ~disturbed[i] => Progress(i)'
  BY DEF ServiceInv, InstallTyped, RestartService, To, diskVars, Progress, Want
<1>4. \A j \in Installers \ {i} : ~disturbed[j] => Progress(j)'
  BY DEF ServiceInv, InstallTyped, RestartService, To, diskVars, Progress, Want
<1> QED BY <1>1, <1>2, <1>3, <1>4 DEF ServiceInv, RestartService

LEMMA IsEnabledKeeps == ASSUME ServiceInv, NEW i \in Installers, IsEnabled(i) PROVE ServiceInv'
<1>1. PICK s \in {"isActive", "failed"} : To(i, s)
  BY DEF IsEnabled
<1>2. ~disturbed[i] => Progress(i)'
  BY <1>1 DEF IsEnabled, ServiceInv, InstallTyped, Progress, To, Want, diskVars, systemdVars
<1> QED BY <1>1, <1>2, OwnStep DEF IsEnabled

LEMMA IsActiveKeeps == ASSUME ServiceInv, NEW i \in Installers, IsActive(i) PROVE ServiceInv'
<1>1. CASE To(i, "failed") /\ UNCHANGED promise
  <2>1. ~disturbed[i] => Progress(i)'
    BY <1>1 DEF ServiceInv, InstallTyped, Progress, To
  <2> QED BY <1>1, <2>1, OwnStep DEF IsActive
<1>2. CASE Succeed(i)
  <2>1. InstallTyped'
    BY <1>2 DEF ServiceInv, InstallTyped, IsActive, Succeed, To, diskVars, systemdVars
  <2>2. \A j \in Installers : ~disturbed[j] => Progress(j)'
    BY <1>2 DEF ServiceInv, InstallTyped, IsActive, Succeed, To, diskVars, systemdVars, Progress, Want
  <2>3. Promised'
    <3>1. ~disturbed[i] => Progress(i) /\ step[i] = "isActive"
      BY DEF ServiceInv, IsActive
    <3> QED BY <1>2, <3>1, Promises DEF IsActive, Progress, diskVars, systemdVars
  <2> QED BY <2>1, <2>2, <2>3 DEF ServiceInv, IsActive
<1> QED BY <1>1, <1>2 DEF IsActive

LEMMA FailKeeps == ASSUME ServiceInv, NEW i \in Installers, Fail(i) PROVE ServiceInv'
<1>1. Progress(i)'
  BY DEF ServiceInv, InstallTyped, Fail, Progress, To
<1> QED BY <1>1, OwnStep DEF Fail

--------------------------------------------------------------------------------
(* systemd, the administrator and the power.                                *)
LEMMA ServiceKeeps == ASSUME ServiceInv, Die \/ ComeBack PROVE ServiceInv'
<1>1. /\ UNCHANGED <<seen, survivors, loaded, enabled, step, options, wrote, disturbed, promise>>
      /\ running' = Restarting \/ (running = Restarting /\ running' = loaded)
  BY DEF Die, ComeBack, diskVars
<1>2. InstallTyped'
  BY <1>1 DEF ServiceInv, InstallTyped
<1>3. Promised'
  BY <1>1, PromiseStays
<1>4. \A j \in Installers : ~disturbed[j] => Progress(j)'
  BY <1>1 DEF ServiceInv, Progress, Want
<1> QED BY <1>1, <1>2, <1>3, <1>4 DEF ServiceInv

LEMMA AdministerKeeps == ASSUME ServiceInv, Administer PROVE ServiceInv'
<1>1. InstallTyped'
  <2>1. UNCHANGED <<step, options, wrote>> /\ disturbed' \in [Installers -> BOOLEAN]
    BY DEF ServiceInv, InstallTyped, Administer, Disturb
  <2>2. enabled' \in BOOLEAN
    BY DEF ServiceInv, InstallTyped, Administer
  <2>3. UNCHANGED <<seen, survivors>> \/ \E u \in Units : Rename(Unit, u, TRUE)
    BY DEF Administer, diskVars
  <2>4. ASSUME NEW u \in Units, Rename(Unit, u, TRUE)
        PROVE  /\ DOMAIN seen' = Paths /\ seen' = [p \in Paths |-> seen'[p]]
               /\ survivors' = [p \in Paths |-> survivors'[p]]
               /\ \A p \in Paths : seen'[p] \in survivors'[p]
    BY <2>4 DEF ServiceInv, InstallTyped, Rename
  <2> QED BY <2>1, <2>2, <2>3, <2>4 DEF ServiceInv, InstallTyped
<1>2. promise' = NoUnit /\ \A i \in Installers : disturbed'[i]
  BY DEF ServiceInv, InstallTyped, Administer, Disturb
<1> QED BY <1>1, <1>2 DEF ServiceInv, Promised

LEMMA BootKeeps == ASSUME ServiceInv, Boot PROVE ServiceInv'
<1>1. PICK f \in [Paths -> UNION {survivors[p] : p \in Paths}] :
        /\ \A p \in Paths : f[p] \in survivors[p]
        /\ seen' = f
        /\ survivors' = [p \in Paths |-> {f[p]}]
  BY DEF Boot, LosePower
<1>2. InstallTyped'
  BY <1>1 DEF ServiceInv, InstallTyped, Boot
<1>3. \A i \in Installers : step'[i] = "start"
  BY DEF Boot
<1>4. Promised'
  <2> SUFFICES ASSUME promise # NoUnit PROVE Promised'
    BY DEF Promised, Boot
  <2> DEFINE gone == promise.undone \/ seen'[Unit] # seen[Unit]
  <2>1. /\ promise \in Promise
        /\ promise.undone => ~promise.wrote
        /\ ~promise.undone => Kept
    BY DEF ServiceInv, Promised
  <2>2. promise' = [promise EXCEPT !.undone = gone]
    BY DEF Boot
  <2>3. /\ promise' \in Promise
        /\ promise'.unit = promise.unit /\ promise'.runs = promise.runs
        /\ promise'.wrote = promise.wrote /\ promise'.undone = gone
    BY <2>1, <2>2 DEF Promise
  <2>4. loaded' = OnDisk' /\ enabled' = enabled /\ (enabled => running' = loaded')
    BY DEF Boot, OnDisk
  <2>5. seen'[Unit] \in survivors[Unit] /\ survivors'[Unit] = {seen'[Unit]}
    BY <1>1
  <2>6. ASSUME gone PROVE ~promise.wrote
    BY <2>1, <2>5, <2>6 DEF Kept
  <2>7. ASSUME ~gone PROVE Kept'
    <3>1. /\ seen'[Unit] = promise.unit /\ promise.unit \in Units
          /\ promise.runs => enabled
      BY <2>1, <2>7 DEF Kept, Promise
    <3>2. loaded' = promise.unit
      BY <2>4, <3>1 DEF OnDisk
    <3> QED BY <2>3, <2>4, <2>5, <3>1, <3>2 DEF Kept
  <2>8. (promise'.undone => ~promise'.wrote) /\ (~promise'.undone => Kept')
    BY <2>3, <2>6, <2>7
  <2> QED BY <2>3, <2>4, <2>8 DEF Promised
<1>5. \A i \in Installers : Progress(i)'
  BY <1>3 DEF Progress
<1> QED BY <1>2, <1>4, <1>5 DEF ServiceInv

LEMMA ServicePreserved == ServiceInv /\ [InstallNext]_serviceAll => ServiceInv'
<1> SUFFICES ASSUME ServiceInv, [InstallNext]_serviceAll PROVE ServiceInv'
  OBVIOUS
<1>1. ASSUME NEW i \in Installers, InstallStep(i) PROVE ServiceInv'
  BY <1>1, StartKeeps, InspectKeeps, ReplaceKeeps, SyncKeeps, ReloadKeeps, EnableKeeps,
     RestartKeeps, IsEnabledKeeps, IsActiveKeeps, FailKeeps DEF InstallStep
<1>2. CASE UNCHANGED serviceAll
  <2>1. UNCHANGED <<diskVars, systemdVars, step, options, wrote, disturbed, promise>>
    BY <1>2 DEF serviceAll, installVars
  <2>2. Promised'
    BY <2>1, PromiseStays DEF diskVars, systemdVars
  <2> QED BY <2>1, <2>2 DEF diskVars, systemdVars, ServiceInv, InstallTyped, Progress, Want
<1> QED BY <1>1, <1>2, ServiceKeeps, AdministerKeeps, BootKeeps DEF InstallNext

--------------------------------------------------------------------------------
LEMMA Keeping == ServiceInv => PromiseKept
<1> SUFFICES ASSUME ServiceInv, promise # NoUnit
             PROVE  /\ loaded = OnDisk
                    /\ promise.undone => ~promise.wrote
                    /\ ~promise.undone =>
                         /\ OnDisk = promise.unit
                         /\ promise.runs => enabled /\ running \in {promise.unit, Restarting}
  BY DEF PromiseKept
<1>1. /\ promise \in Promise /\ loaded = OnDisk
      /\ promise.undone => ~promise.wrote
      /\ ~promise.undone => Kept
  BY DEF ServiceInv, Promised
<1>2. promise.unit \in Units
  BY <1>1 DEF Promise
<1> QED BY <1>1, <1>2 DEF Kept, OnDisk

(* What the installer tells its user at the end is true when it does, and   *)
(* stays so through deaths of the service and losses of power, however many *)
(* installers run, fail and are run again: unless the install found the     *)
(* file in place, whose rename a power loss may undo if the install that    *)
(* made it was killed before it synced the directory.                       *)
THEOREM InstallsKeepPromises == InstallSpec => []PromiseKept
BY Keeping, ServiceInitially, ServicePreserved, PTL DEF InstallSpec, serviceAll

HIDE InstallAssumption DEF Steps, Ended, Enabling

--------------------------------------------------------------------------------
(* The host *)

(* What the commands of one family leave of the other's state: nothing is   *)
(* promised of a service, or no snapshot was ever written.                  *)
Untouched ==
    /\ recorded = {}
    /\ \A p \in Procs : pc[p] = "idle"
    /\ \A c \in Contents : seen[c] = Absent /\ survivors[c] = {Absent}

HostInv ==
    /\ family \in {"data", "service"}
    /\ family = "data" => DataInv /\ promise = NoUnit
    /\ family = "service" => ServiceInv /\ Untouched

LEMMA HostInitially == HostInit => HostInv
BY DataInitially, ServiceInitially, HostAssumption, SnapshotsAssumption
   DEF HostInit, HostInv, Untouched, DiskInit, SnapshotsInit, InstallInit

(* The installers rename a file to the path of the unit only, and a power   *)
(* loss brings no file to a path that never had one.                        *)
LEMMA InstallsLeaveSnapshots ==
    ASSUME ServiceInv, Untouched, InstallNext, UNCHANGED snapshotVars
    PROVE  Untouched'
<1>1. recorded' = {} /\ \A p \in Procs : pc'[p] = "idle"
  BY DEF Untouched, snapshotVars, dataVars, procVars
<1>2. \A c \in Contents : c \in Paths /\ c # Unit
  BY HostAssumption, SnapshotsAssumption
<1>3. CASE \E u : Rename(Unit, u, TRUE)
  BY <1>1, <1>2, <1>3 DEF ServiceInv, InstallTyped, Untouched, Rename
<1>4. CASE SyncDirectory(Unit)
  BY <1>1, <1>2, <1>4 DEF ServiceInv, InstallTyped, Untouched, SyncDirectory
<1>5. CASE LosePower
  <2>1. PICK f \in [Paths -> UNION {survivors[p] : p \in Paths}] :
          /\ \A p \in Paths : f[p] \in survivors[p]
          /\ seen' = f
          /\ survivors' = [p \in Paths |-> {f[p]}]
    BY <1>5 DEF LosePower
  <2>2. \A c \in Contents : f[c] = Absent
    BY <1>2, <2>1 DEF Untouched
  <2> QED BY <1>1, <1>2, <2>1, <2>2 DEF Untouched
<1>6. CASE UNCHANGED diskVars
  BY <1>1, <1>6 DEF Untouched, diskVars
<1>7. \/ \E u : Rename(Unit, u, TRUE)
      \/ SyncDirectory(Unit) \/ LosePower \/ UNCHANGED diskVars
  BY DEF InstallNext, InstallStep, Start, Inspect, Replace, Sync, Reload, Enable, RestartService,
         IsEnabled, IsActive, Fail, Die, ComeBack, Administer, Boot, diskVars
<1> QED BY <1>3, <1>4, <1>5, <1>6, <1>7

LEMMA HostPreserved == HostInv /\ [HostNext]_hostVars => HostInv'
<1> SUFFICES ASSUME HostInv, [HostNext]_hostVars PROVE HostInv'
  OBVIOUS
<1>1. family' = family
  BY DEF HostNext, hostVars
<1>2. CASE family = "data"
  <2>1. [SnapshotsNext]_dataAll /\ promise' = promise
    BY <1>2 DEF HostNext, hostVars, dataAll, installVars
  <2> QED BY <1>1, <1>2, <2>1, DataPreserved DEF HostInv
<1>3. CASE family = "service"
  <2>1. [InstallNext]_serviceAll /\ UNCHANGED snapshotVars
    BY <1>3 DEF HostNext, hostVars, serviceAll
  <2>2. ServiceInv' /\ ServiceInv /\ Untouched
    BY <1>3, <2>1, ServicePreserved DEF HostInv
  <2>3. ASSUME UNCHANGED serviceAll PROVE Untouched'
    BY <2>1, <2>2, <2>3 DEF Untouched, serviceAll, diskVars, snapshotVars, dataVars, procVars
  <2>4. ASSUME InstallNext PROVE Untouched'
    BY <2>1, <2>2, <2>4, InstallsLeaveSnapshots
  <2> QED BY <1>1, <1>3, <2>1, <2>2, <2>3, <2>4 DEF HostInv
<1> QED BY <1>2, <1>3 DEF HostInv

LEMMA HostAlways == HostSpec => []HostInv
BY HostInitially, HostPreserved, PTL DEF HostSpec

(* On a host where installers run, reload and reboot the service, snapshot  *)
(* files are what SnapshotsKept asks of them.                               *)
THEOREM HostKeepsSnapshots == HostSpec => []SnapshotsKept
<1>1. HostInv => SnapshotsKept
  BY DEF HostInv, DataInv, DiskSound, RecordSound, Untouched, SnapshotsKept
<1> QED BY <1>1, HostAlways, PTL

(* On a host where checks, adds and doctors run, an install keeps what it   *)
(* promised, with the exception that PromiseKept makes of an install that   *)
(* found the file in place.                                                 *)
THEOREM HostKeepsPromises == HostSpec => []PromiseKept
<1>1. HostInv => PromiseKept
  BY Keeping DEF HostInv, PromiseKept
<1> QED BY <1>1, HostAlways, PTL

(* The doctor of the host says nothing but what DoctorHonest allows it: it  *)
(* complains of snapshots a power loss took and of targets a remove took.   *)
THEOREM HostDoctorIsHonest == HostSpec => DoctorHonest
<1>1. HostInv /\ [HostNext]_hostVars => [\A p \in Procs : Finds(p)]_snapshotVars
  <2> SUFFICES ASSUME HostInv, [HostNext]_hostVars, ~UNCHANGED snapshotVars, NEW p \in Procs
               PROVE  Finds(p)
    OBVIOUS
  <2>1. DataInv /\ SnapshotsNext
    BY DEF HostInv, HostNext, hostVars
  <2> QED BY <2>1, DoctorFinds
<1> QED BY <1>1, HostAlways, PTL DEF HostSpec, DoctorHonest
================================================================================
