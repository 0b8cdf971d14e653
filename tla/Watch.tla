--------------------------------- MODULE Watch ---------------------------------
(****************************************************************************)
(* The loop of the watch command, cmd/fetchdiff/main.go, with the schedule  *)
(* of internal/schedule: drain, check what is due, drain, sleep until the   *)
(* next target is due.  Other commands add, remove and check targets at any *)
(* time, and the wall clock may be set.  Of a target only the time left     *)
(* until its NextCheckAt matters here, of a check only whether it recorded  *)
(* a new one; Monitor and Dispatch model the checks and the drains.  The    *)
(* watcher runs as the service of internal/systemd, which is started again  *)
(* when it ends with an error (Restart=on-failure).                         *)
(****************************************************************************)
EXTENDS Integers, FiniteSetsExt

CONSTANTS
    Targets,   \* targets that may exist, numbers in the order of their names
    Absent,    \* a target that does not exist
    Every,     \* the check interval
    MaxWait,   \* 30 s
    Floor,     \* 250 ms
    Behind,    \* bound on how overdue a target is counted
    Jumps      \* amounts by which the wall clock may be set

ASSUME WatchAssumption ==
    /\ Targets \subseteq Nat
    /\ Absent \notin Int
    /\ {Every, MaxWait, Floor} \subseteq Nat \ {0}
    /\ Floor <= MaxWait
    /\ Behind \in Nat
    /\ Jumps \subseteq Int

VARIABLES
    next,       \* target -> time left until its NextCheckAt, or Absent
    pc,         \* where the loop is
    todo,       \* due targets the round still has to check
    cur,        \* the target being checked
    known,      \* targets the sleep was planned for, untouched since
    wait,       \* how long to sleep
    slept,      \* how long it has slept, on the monotonic clock
    cancelled,  \* the context is done
    jumped      \* the wall clock was set

loop == <<pc, todo, cur, known, wait, slept>>
vars == <<next, loop, cancelled, jumped>>

Present == {t \in Targets : next[t] # Absent}
Overdue(t) == t \in Present /\ next[t] <= 0
Late == {t \in Targets : Overdue(t)}

TypeOK ==
    /\ next \in [Targets -> Int \cup {Absent}]
    /\ \A t \in Present : next[t] >= -Behind
    /\ pc \in {"drain", "list", "check", "redrain", "plan", "sleep", "stopped",
              "down", "open"}
    /\ todo \subseteq Targets
    /\ cur \in Targets \cup {Absent}
    /\ known \subseteq Present
    /\ wait \in 0..MaxWait
    /\ slept \in 0..wait
    /\ cancelled \in BOOLEAN
    /\ jumped \in BOOLEAN

Init ==
    /\ next \in [Targets -> {Absent} \cup (-Behind)..Every]
    /\ pc = "open"
    /\ todo = {}
    /\ cur = Absent
    /\ known = {}
    /\ wait = 0
    /\ slept = 0
    /\ cancelled = FALSE
    /\ jumped = FALSE

--------------------------------------------------------------------------------
(* The process *)

Goto(label) == pc' = label

(* The data directory is opened; an error of Initialize, for instance when  *)
(* another process holds the lock for two seconds, ends the command.        *)
Open ==
    /\ pc = "open"
    /\ Goto("drain")
    /\ UNCHANGED <<next, todo, cur, known, wait, slept, cancelled, jumped>>

OpenFails ==
    /\ pc = "open"
    /\ Goto("down")
    /\ UNCHANGED <<next, todo, cur, known, wait, slept, cancelled, jumped>>

(* systemd starts the service again, unless it was told to stop it.         *)
Restart ==
    /\ pc = "down"
    /\ Goto(IF cancelled THEN "stopped" ELSE "open")
    /\ UNCHANGED <<next, todo, cur, known, wait, slept, cancelled, jumped>>

--------------------------------------------------------------------------------
(* A round *)

(* After each drain the loop looks whether its context is done.             *)
Drain ==
    /\ \/ pc = "drain" /\ Goto(IF cancelled THEN "stopped" ELSE "list")
       \/ pc = "redrain" /\ Goto(IF cancelled THEN "stopped" ELSE "plan")
    /\ UNCHANGED <<next, todo, cur, known, wait, slept, cancelled, jumped>>

(* CheckDue reads the targets once and picks what is due at that moment.    *)
List ==
    /\ pc = "list"
    /\ todo' = Late
    /\ Goto("check")
    /\ UNCHANGED <<next, cur, known, wait, slept, cancelled, jumped>>

(* The database cannot be read: the round checks nothing.                   *)
ListFails ==
    /\ pc = "list"
    /\ Goto("redrain")
    /\ UNCHANGED <<next, todo, cur, known, wait, slept, cancelled, jumped>>

(* The targets are checked one after the other, in the order of the names,  *)
(* as long as the context is not done.                                      *)
Begin ==
    /\ pc = "check" /\ cur = Absent
    /\ IF todo = {} \/ cancelled
       THEN /\ todo' = {}
            /\ Goto("redrain")
            /\ UNCHANGED cur
       ELSE /\ cur' = Min(todo)
            /\ todo' = todo \ {cur'}
            /\ UNCHANGED pc
    /\ UNCHANGED <<next, known, wait, slept, cancelled, jumped>>

(* Faulty variant: a check that fails ends the round.                       *)
EndOrQuit ==
    /\ cur # Absent
    /\ \/ cur \in Present /\ next' = [next EXCEPT ![cur] = Every] /\ UNCHANGED todo
       \/ UNCHANGED next /\ todo' = {}
    /\ cur' = Absent
    /\ UNCHANGED <<pc, known, wait, slept, cancelled, jumped>>

(* A check commits a new NextCheckAt, or ends without a commit.             *)
End ==
    /\ cur # Absent
    /\ \/ cur \in Present /\ next' = [next EXCEPT ![cur] = Every]
       \/ UNCHANGED next
    /\ cur' = Absent
    /\ UNCHANGED <<pc, todo, known, wait, slept, cancelled, jumped>>

(* Faulty variants: the first target only; no bound on the wait.           *)
NextWakeFirst ==
    IF Present = {} THEN MaxWait
    ELSE LET until == next[Min(Present)] IN
         IF until <= 0 THEN 0 ELSE Min({MaxWait, until})

NextWakeUnbounded ==
    IF Late # {} THEN 0
    ELSE IF Present = {} THEN MaxWait ELSE Min({next[t] : t \in Present})

NextWake ==
    IF Late # {} THEN 0 ELSE Min({MaxWait} \cup {next[t] : t \in Present})

(* Faulty variant: the error of the planning is taken for the end.          *)
PlanOrQuit ==
    /\ pc = "plan"
    /\ \/ /\ wait' = Max({Floor, NextWake})
          /\ slept' = 0
          /\ known' = Present
          /\ Goto("sleep")
       \/ Goto("stopped") /\ UNCHANGED <<wait, slept, known>>
    /\ UNCHANGED <<next, todo, cur, cancelled, jumped>>

(* The sleep is planned on the targets as they are now; if they cannot be   *)
(* read the command ends with the error.                                    *)
Plan ==
    /\ pc = "plan"
    /\ \/ /\ wait' = Max({Floor, NextWake})
          /\ slept' = 0
          /\ known' = Present
          /\ Goto("sleep")
       \/ Goto("down") /\ UNCHANGED <<wait, slept, known>>
    /\ UNCHANGED <<next, todo, cur, cancelled, jumped>>

Awake ==
    /\ known' = {}
    /\ wait' = 0
    /\ slept' = 0
    /\ UNCHANGED <<next, todo, cur, cancelled, jumped>>

Wake == pc = "sleep" /\ slept = wait /\ Goto("drain") /\ Awake

Interrupt == pc = "sleep" /\ cancelled /\ Goto("stopped") /\ Awake

--------------------------------------------------------------------------------
(* Environment *)

(* Another command adds a target or records a check of it.                  *)
OtherSets(t) ==
    /\ next' = [next EXCEPT ![t] = Every]
    /\ known' = known \ {t}
    /\ UNCHANGED <<pc, todo, cur, wait, slept, cancelled, jumped>>

OtherRemoves(t) ==
    /\ t \in Present
    /\ next' = [next EXCEPT ![t] = Absent]
    /\ known' = known \ {t}
    /\ UNCHANGED <<pc, todo, cur, wait, slept, cancelled, jumped>>

Cancel ==
    /\ ~cancelled
    /\ cancelled' = TRUE
    /\ UNCHANGED <<next, loop, jumped>>

Shifted(d) ==
    [t \in Targets |-> IF t \in Present THEN Max({next[t] + d, -Behind})
                       ELSE Absent]

(* NextCheckAt is wall-clock time; the timer of the sleep is not.           *)
SetClock ==
    /\ ~jumped
    /\ jumped' = TRUE
    /\ \E d \in Jumps : next' = Shifted(d)
    /\ UNCHANGED <<loop, cancelled>>

(* A timer that is up fires before time goes on.                            *)
Tick ==
    /\ pc = "sleep" => slept < wait
    /\ next' = Shifted(-1)
    /\ slept' = IF pc = "sleep" THEN slept + 1 ELSE slept
    /\ UNCHANGED <<pc, todo, cur, known, wait, cancelled, jumped>>

Step ==
    \/ Open \/ OpenFails \/ Restart
    \/ Drain \/ List \/ ListFails \/ Begin \/ End \/ Plan \/ Wake \/ Interrupt

Next ==
    \/ Step \/ Tick \/ Cancel \/ SetClock
    \/ \E t \in Targets : OtherSets(t) \/ OtherRemoves(t)

Spec == Init /\ [][Next]_vars

(* The loop and the clock run; the database, whose lock others hold for     *)
(* moments only, can be opened and read now and then.                       *)
FairSpec ==
    Spec /\ WF_vars(Step) /\ WF_vars(Tick) /\ SF_vars(List) /\ SF_vars(Open)

--------------------------------------------------------------------------------
(* Properties *)

(* The loop never sleeps past a target it knows of: once such a target is   *)
(* due, no more than the floor of 250 ms is left of the sleep.              *)
Alert ==
    pc = "sleep" /\ ~jumped =>
        \A t \in known : next[t] <= 0 => wait - slept <= Floor

(* A target that is due gets its check, whoever added it, however often the *)
(* checks of other targets fail and however often the watcher ends with an  *)
(* error, unless another command checks or removes it or the watcher is     *)
(* told to stop; a clock that was set back only delays.                     *)
EventuallyChecked ==
    \A t \in Targets :
        Overdue(t) ~> (cur = t \/ ~Overdue(t) \/ cancelled)
================================================================================
