--------------------------------- MODULE Install ---------------------------------
(****************************************************************************)
(* The service installer, Install of internal/systemd/service.go: it writes *)
(* the unit file, and has systemd load, enable and restart it.  Several     *)
(* installers may run beside each other and beside an administrator, any of *)
(* their steps may fail or be the last one of the process, and the power    *)
(* may be lost.  A unit is what RenderUnit makes of an account and an       *)
(* executable: two installers with other arguments want other units.        *)
(****************************************************************************)
EXTENDS Disk

CONSTANTS
    Installers,
    Unit,        \* the path of the unit file
    Units,       \* the units an installer may want, or find
    NoUnit,      \* systemd has no unit, or does not run it
    Restarting   \* the service died and is about to be started again

ASSUME InstallAssumption ==
    /\ Unit \in Paths
    /\ {Absent, Torn, NoUnit, Restarting} \cap Units = {}
    /\ NoUnit # Restarting

VARIABLES
    loaded,    \* the unit systemd has loaded
    enabled,   \* it is started at boot
    running,   \* the unit of the running service, or NoUnit
    step,      \* installer -> its next step
    options,   \* installer -> the options it was given
    wrote,     \* installer -> it replaced the file
    disturbed, \* installer -> someone else acted since it began
    promise    \* what the last installer that succeeded told its user

systemdVars == <<loaded, enabled, running>>
installVars == <<systemdVars, step, options, wrote, disturbed, promise>>

Options == [unit: Units, force: BOOLEAN, enable: BOOLEAN]

InstallInit ==
    /\ loaded = NoUnit /\ enabled = FALSE /\ running = NoUnit
    /\ step = [i \in Installers |-> "start"]
    /\ options \in [Installers -> Options]
    /\ wrote = [i \in Installers |-> FALSE]
    /\ disturbed = [i \in Installers |-> FALSE]
    /\ promise = NoUnit

Want(i) == options[i].unit

OnDisk == IF seen[Unit] = Absent THEN NoUnit ELSE seen[Unit]

To(i, s) == step' = [step EXCEPT ![i] = s]

(* An act upon what the other installers rely on.                           *)
Disturb(others) ==
    /\ disturbed' = [i \in Installers |-> disturbed[i] \/ i \in others]
    /\ promise' = NoUnit

(* An installer that returns success tells its user what is installed, and  *)
(* enabled and running.  It has synced the directory only of a file that it *)
(* wrote itself; one that it found as it wanted it is taken for installed.  *)
Succeed(i) ==
    /\ To(i, "done")
    /\ promise' = IF disturbed[i] THEN promise
                  ELSE [unit |-> Want(i), runs |-> options[i].enable,
                        wrote |-> wrote[i], undone |-> FALSE]

--------------------------------------------------------------------------------
(* Faulty variant of the inspection, which the runs must reject: systemd is *)
(* not told to reload when the file is as it should be.                     *)
InspectTrusting(i) ==
    /\ step[i] = "inspect"
    /\ To(i, IF seen[Unit] = Want(i) THEN (IF options[i].enable THEN "enable" ELSE "done")
             ELSE IF seen[Unit] = Absent \/ options[i].force THEN "rename"
             ELSE "failed")
    /\ UNCHANGED <<diskVars, systemdVars, options, wrote, disturbed, promise>>

--------------------------------------------------------------------------------
(* The installer *)

Start(i) ==
    /\ step[i] \in {"start", "done", "failed"}
    /\ To(i, "inspect")
    /\ wrote' = [wrote EXCEPT ![i] = FALSE]
    /\ disturbed' = [disturbed EXCEPT ![i] = FALSE]
    /\ UNCHANGED <<diskVars, systemdVars, options, promise>>

(* The unit file as it is decides whether it is written.                    *)
Inspect(i) ==
    /\ step[i] = "inspect"
    /\ To(i, IF seen[Unit] = Want(i) THEN "reload"
             ELSE IF seen[Unit] = Absent \/ options[i].force THEN "rename"
             ELSE "failed")
    /\ UNCHANGED <<diskVars, systemdVars, options, wrote, disturbed, promise>>

(* The temporary file was written and synced.                               *)
Replace(i) ==
    /\ step[i] = "rename"
    /\ Rename(Unit, Want(i), TRUE)
    /\ wrote' = [wrote EXCEPT ![i] = TRUE]
    /\ To(i, "sync")
    /\ Disturb(Installers \ {i})
    /\ UNCHANGED <<systemdVars, options>>

Sync(i) ==
    /\ step[i] = "sync"
    /\ SyncDirectory(Unit)
    /\ To(i, "reload")
    /\ UNCHANGED <<systemdVars, options, wrote, disturbed, promise>>

Reload(i) ==
    /\ step[i] = "reload"
    /\ loaded' = OnDisk
    /\ IF options[i].enable THEN To(i, "enable") /\ UNCHANGED promise ELSE Succeed(i)
    /\ UNCHANGED <<diskVars, enabled, running, options, wrote, disturbed>>

(* systemctl fails without a unit.                                          *)
Enable(i) ==
    /\ step[i] = "enable"
    /\ enabled' = (enabled \/ OnDisk # NoUnit)
    /\ To(i, IF OnDisk # NoUnit THEN "restart" ELSE "failed")
    /\ UNCHANGED <<diskVars, loaded, running, options, wrote, disturbed, promise>>

RestartService(i) ==
    /\ step[i] = "restart"
    /\ running' = loaded
    /\ To(i, IF loaded # NoUnit THEN "isEnabled" ELSE "failed")
    /\ UNCHANGED <<diskVars, loaded, enabled, options, wrote, disturbed, promise>>

IsEnabled(i) ==
    /\ step[i] = "isEnabled"
    /\ To(i, IF enabled THEN "isActive" ELSE "failed")
    /\ UNCHANGED <<diskVars, systemdVars, options, wrote, disturbed, promise>>

IsActive(i) ==
    /\ step[i] = "isActive"
    /\ IF running \in Units THEN Succeed(i) ELSE To(i, "failed") /\ UNCHANGED promise
    /\ UNCHANGED <<diskVars, systemdVars, options, wrote, disturbed>>

(* An error ends the command, a kill too; either may be run again.          *)
Fail(i) ==
    /\ step[i] \notin {"start", "done", "failed"}
    /\ To(i, "failed")
    /\ UNCHANGED <<diskVars, systemdVars, options, wrote, disturbed, promise>>

InstallStep(i) ==
    \/ Start(i) \/ Inspect(i) \/ Replace(i) \/ Sync(i) \/ Reload(i) \/ Enable(i)
    \/ RestartService(i) \/ IsEnabled(i) \/ IsActive(i) \/ Fail(i)

--------------------------------------------------------------------------------
(* systemd and the administrator *)

(* Restart=on-failure: a service that died comes back.                      *)
Die ==
    /\ running \in Units
    /\ running' = Restarting
    /\ UNCHANGED <<diskVars, loaded, enabled, step, options, wrote, disturbed, promise>>

ComeBack ==
    /\ running = Restarting
    /\ running' = loaded
    /\ UNCHANGED <<diskVars, loaded, enabled, step, options, wrote, disturbed, promise>>

(* Someone stops or disables the service, or edits the unit.                *)
Administer ==
    /\ \/ /\ running' = NoUnit /\ running # NoUnit
          /\ UNCHANGED <<diskVars, enabled>>
       \/ /\ enabled /\ enabled' = FALSE
          /\ UNCHANGED <<diskVars, running>>
       \/ /\ \E u \in Units : u # seen[Unit] /\ Rename(Unit, u, TRUE)
          /\ UNCHANGED <<enabled, running>>
    /\ Disturb(Installers)
    /\ UNCHANGED <<loaded, step, options, wrote>>

(* What systemd finds after a power loss, which ends the installers too and *)
(* may have undone the rename of the unit file.                             *)
Boot ==
    /\ LosePower
    /\ loaded' = IF seen'[Unit] = Absent THEN NoUnit ELSE seen'[Unit]
    /\ running' = IF enabled THEN loaded' ELSE NoUnit
    /\ step' = [i \in Installers |-> "start"]
    /\ promise' = IF promise = NoUnit THEN NoUnit
                  ELSE [promise EXCEPT !.undone = @ \/ seen'[Unit] # seen[Unit]]
    /\ UNCHANGED <<enabled, options, wrote, disturbed>>

InstallNext ==
    (\E i \in Installers : InstallStep(i)) \/ Die \/ ComeBack \/ Administer \/ Boot

InstallSpec == DiskInit /\ InstallInit /\ [][InstallNext]_<<diskVars, installVars>>

--------------------------------------------------------------------------------
(* Properties *)

(* When an install succeeds, the unit it was asked for is in place and      *)
(* loaded, and with --enable it is the one that runs and is started at      *)
(* boot, also when it was run again after one that failed or was killed at  *)
(* any step, and found the file in place but systemd with another unit.     *)
(* Until someone else acts this stays so through deaths of the service and  *)
(* losses of power, with one exception: an install that found the file in   *)
(* place did not sync its directory, and a power loss may undo the rename   *)
(* of one that was killed before its sync.  An install that wrote the file  *)
(* is never undone, and systemd always has loaded what is on the disk.      *)
PromiseKept ==
    promise # NoUnit =>
        /\ loaded = OnDisk
        /\ promise.undone => ~promise.wrote
        /\ ~promise.undone =>
             /\ OnDisk = promise.unit
             /\ promise.runs => enabled /\ running \in {promise.unit, Restarting}
================================================================================
