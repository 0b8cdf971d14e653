-------------------------------- MODULE Readers --------------------------------
(****************************************************************************)
(* The diff command beside the processes of Monitor: it looks a target up,  *)
(* reads its history, and then the two snapshots of a recorded change, each *)
(* on its own.  Between these reads the target may be checked, removed and  *)
(* added again.                                                             *)
(****************************************************************************)
EXTENDS Monitor

VARIABLES
    stage,    \* where the reader is
    subject,  \* the ID it looked up
    change    \* the entry it chose

readVars == <<stage, subject, change>>
allVars == <<vars, readVars>>

ReadersInit ==
    /\ Init
    /\ stage = "idle"
    /\ subject = None
    /\ change = None

(* The entries the diff command considers.                                  *)
Changes(id) ==
    {e \in history :
        /\ e.target = id /\ e.outcome = "changed"
        /\ e.prev # None /\ e.prev # e.hash}

(* History() sorts by CheckedAt, newest first; entries of one time come in  *)
(* any order.                                                               *)
Newest(S) == {e \in S : \A f \in S : f.at <= e.at}

Look ==
    /\ stage = "idle"
    /\ \E n \in Names :
         /\ Taken(n)
         /\ subject' = names[Key[n]]
    /\ stage' = "history"
    /\ UNCHANGED <<vars, change>>

(* A target without a change to show ends the command.                      *)
Leave ==
    /\ stage' = "idle"
    /\ subject' = None
    /\ change' = None

Choose(S) ==
    /\ stage = "history"
    /\ IF S = {} THEN Leave
       ELSE /\ \E e \in S : change' = e
            /\ stage' = "old"
            /\ UNCHANGED subject
    /\ UNCHANGED vars

ChooseLatest == Choose(Newest(Changes(subject)))

(* --change with enough of an ID to name one entry.                         *)
ChooseByID == Choose(Changes(subject))

ReadSnapshot(from, content, to) ==
    /\ stage = from
    /\ stage' = IF content \in blobs THEN to ELSE "failed"
    /\ UNCHANGED <<vars, subject, change>>

ReadOld == ReadSnapshot("old", change.prev, "new")

ReadNew == ReadSnapshot("new", change.hash, "shown")

Done ==
    /\ stage \in {"shown", "failed"}
    /\ Leave
    /\ UNCHANGED vars

Read ==
    \/ Look \/ ChooseLatest \/ ChooseByID
    \/ ReadOld \/ ReadNew \/ Done

ReadersNext == Read \/ (Next /\ UNCHANGED readVars)

ReadersSpec == ReadersInit /\ [][ReadersNext]_allVars

--------------------------------------------------------------------------------
(* Properties *)

(* A change that was recorded can be shown, even when its target has been   *)
(* removed between the reading of its history and of its snapshots.         *)
ChangesShowable == stage # "failed"

(* The change shown by default is the last one that was committed, though   *)
(* the history is ordered by the times at which processes checked; only     *)
(* changes of the same time may be taken for one another.                   *)
LatestChosen ==
    [][ ChooseLatest =>
        \A e \in Changes(subject) :
            change'.rev < e.rev => e.at = change'.at ]_allVars

(* What is shown leads from one content of the target to the one that       *)
(* followed it: the entry before the change left what the change reports as *)
(* old.  An entry kept by a reader is not rewritten while its target lives. *)
ChangeConnected ==
    change # None /\ subject \in Live =>
        /\ change \in history
        /\ \E e \in history :
             /\ e.target = subject
             /\ e.rev + 1 = change.rev
             /\ e.hash = change.prev
================================================================================
