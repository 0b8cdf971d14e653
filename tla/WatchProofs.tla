------------------------------- MODULE WatchProofs -------------------------------
(****************************************************************************)
(* Proofs about Watch, for any targets, any interval, floor and bound of    *)
(* the sleep, and any jump of the clock.                                    *)
(****************************************************************************)
EXTENDS Watch, WellFoundedInduction, TLAPS

(* A target is checked within a round only; what a sleep was planned for    *)
(* is of no account outside it.                                             *)
Phases ==
    /\ cur # Absent => pc = "check"
    /\ pc # "sleep" => known = {}

(* What is left of the sleep is within the floor, or ends no later than     *)
(* each target it was planned for gets due.                                 *)
Covered ==
    pc = "sleep" /\ ~jumped =>
        \A t \in known : wait - slept <= Floor \/ wait - slept <= next[t]

IInv == TypeOK /\ Phases /\ Covered

USE WatchAssumption

--------------------------------------------------------------------------------
(* Extrema *)

LEMMA MaxOfTwo ==
    ASSUME NEW a \in Int, NEW b \in Int
    PROVE  /\ Max({a, b}) \in {a, b}
           /\ Max({a, b}) >= a /\ Max({a, b}) >= b
<1>1. \E x \in {a, b} : \A y \in {a, b} : x >= y
  <2>1. CASE a >= b
    BY <2>1
  <2>2. CASE b >= a
    BY <2>2
  <2> QED BY <2>1, <2>2
<1>2. Max({a, b}) \in {a, b} /\ \A y \in {a, b} : Max({a, b}) >= y
  BY <1>1 DEF Max
<1> QED BY <1>2

LEMMA LeastOfNat ==
    ASSUME NEW S \in SUBSET Nat, S # {}
    PROVE  Min(S) \in S /\ \A y \in S : Min(S) <= y
<1>1. PICK x \in S : \A y \in S : ~(<<y, x>> \in OpToRel(<, Nat))
  BY NatLessThanWellFounded, WFMin
<1>2. ASSUME NEW y \in S PROVE x <= y
  <2>1. x \in Nat /\ y \in Nat /\ ~(y < x)
    BY <1>1 DEF OpToRel
  <2> QED BY <2>1
<1> QED BY <1>2 DEF Min

--------------------------------------------------------------------------------
(* The wake-up of a plan is no later than the first target gets due.        *)
LEMMA WakesInTime ==
    ASSUME TypeOK
    PROVE  /\ NextWake \in 0..MaxWait
           /\ NextWake = 0 \/ \A t \in Present : NextWake <= next[t]
<1>1. CASE Late # {}
  BY <1>1 DEF NextWake
<1>2. CASE Late = {}
  <2> DEFINE S == {MaxWait} \cup {next[t] : t \in Present}
  <2>1. \A t \in Present : next[t] \in Int /\ ~(next[t] <= 0)
    BY <1>2 DEF TypeOK, Present, Late, Overdue
  <2>2. S \in SUBSET Nat /\ S # {} /\ MaxWait \in S /\ \A t \in Present : next[t] \in S
    BY <2>1
  <2>3. NextWake = Min(S)
    BY <1>2 DEF NextWake
  <2> HIDE DEF S
  <2>4. Min(S) \in Nat /\ Min(S) <= MaxWait /\ \A t \in Present : Min(S) <= next[t]
    BY <2>2, LeastOfNat
  <2> QED BY <2>3, <2>4
<1> QED BY <1>1, <1>2

LEMMA PlanStep == IInv /\ Plan => IInv'
<1> SUFFICES ASSUME IInv, Plan PROVE IInv'
  OBVIOUS
<1>0. TypeOK /\ Phases /\ Covered
  BY DEF IInv
<1>1. CASE Goto("down") /\ UNCHANGED <<wait, slept, known>>
  BY <1>0, <1>1 DEF Plan, Goto, IInv, TypeOK, Present, Phases, Covered
<1>2. CASE /\ wait' = Max({Floor, NextWake}) /\ slept' = 0 /\ known' = Present
           /\ Goto("sleep")
  <2>1. NextWake \in 0..MaxWait /\ (NextWake = 0 \/ \A t \in Present : NextWake <= next[t])
    BY <1>0, WakesInTime
  <2>2. wait' \in {Floor, NextWake} /\ wait' >= Floor /\ wait' >= NextWake
    <3>1. Floor \in Int /\ NextWake \in Int
      BY <2>1
    <3> QED BY <1>2, <3>1, MaxOfTwo
  <2>3. wait' \in 0..MaxWait
    BY <2>1, <2>2
  <2>4. wait' <= Floor \/ \A t \in Present : wait' <= next[t]
    BY <2>1, <2>2
  <2>5. TypeOK'
    BY <1>0, <1>2, <2>3 DEF Plan, Goto, TypeOK, Present
  <2>6. Phases'
    BY <1>0, <1>2 DEF Plan, Goto, Phases
  <2>7. Covered'
    BY <1>2, <2>3, <2>4 DEF Plan, Covered
  <2> QED BY <2>5, <2>6, <2>7 DEF IInv
<1> QED BY <1>1, <1>2 DEF Plan

(* Time that passes, or a clock that is set, leaves the same targets.       *)
LEMMA ShiftType ==
    ASSUME TypeOK, NEW d \in Int, next' = Shifted(d)
    PROVE  /\ next' \in [Targets -> Int \cup {Absent}]
           /\ Present' = Present
           /\ \A t \in Present : next'[t] >= -Behind /\ next'[t] >= next[t] + d
<1>1. ASSUME NEW t \in Present
      PROVE  next'[t] \in Int /\ next'[t] >= -Behind /\ next'[t] >= next[t] + d
  <2>1. next[t] + d \in Int /\ -Behind \in Int /\ t \in Targets
    BY DEF TypeOK, Present
  <2>2. next'[t] = Max({next[t] + d, -Behind})
    BY <2>1 DEF Shifted
  <2>3. next'[t] \in {next[t] + d, -Behind} /\ next'[t] >= next[t] + d /\ next'[t] >= -Behind
    <3> DEFINE moved == next[t] + d
               least == -Behind
    <3>1. moved \in Int /\ least \in Int /\ next'[t] = Max({moved, least})
      BY <2>1, <2>2
    <3> HIDE DEF moved, least
    <3>2. /\ Max({moved, least}) \in {moved, least}
          /\ Max({moved, least}) >= moved /\ Max({moved, least}) >= least
      BY <3>1, MaxOfTwo
    <3> QED BY <3>1, <3>2 DEF moved, least
  <2> QED BY <2>1, <2>3
<1>2. \A t \in Targets \ Present : next'[t] = Absent
  BY DEF Shifted
<1>3. next' \in [Targets -> Int \cup {Absent}]
  BY <1>1, <1>2 DEF Shifted
<1>4. Present' = Present
  BY <1>1, <1>2 DEF Present
<1> QED BY <1>1, <1>3, <1>4

LEMMA TickStep == IInv /\ Tick => IInv'
<1> SUFFICES ASSUME IInv, Tick PROVE IInv'
  OBVIOUS
<1>0. TypeOK /\ Phases /\ Covered
  BY DEF IInv
<1>1. next' = Shifted(-1)
  BY DEF Tick
<1>2. /\ next' \in [Targets -> Int \cup {Absent}]
      /\ Present' = Present
      /\ \A t \in Present : next'[t] >= -Behind /\ next'[t] >= next[t] + (-1)
  BY <1>0, <1>1, ShiftType
<1>3. \A t \in Present : next[t] \in Int /\ next'[t] \in Int
  BY <1>0, <1>2 DEF TypeOK, Present
<1>4. UNCHANGED <<pc, todo, cur, known, wait, cancelled, jumped>>
  BY DEF Tick
<1>5. slept' = IF pc = "sleep" THEN slept + 1 ELSE slept
  BY DEF Tick
<1>6. pc = "sleep" => slept < wait
  BY DEF Tick
<1>7. wait \in Nat /\ slept \in Nat /\ slept <= wait /\ wait <= MaxWait /\ known \subseteq Present
  BY <1>0 DEF TypeOK
<1>8. slept' \in 0..wait
  BY <1>5, <1>6, <1>7
<1>9. TypeOK'
  <2>1. wait' \in 0..MaxWait /\ slept' \in 0..wait' /\ known' \subseteq Present'
    BY <1>2, <1>4, <1>7, <1>8
  <2>2. \A t \in Present' : next'[t] >= -Behind
    BY <1>2
  <2> QED BY <1>0, <1>2, <1>4, <2>1, <2>2 DEF TypeOK
<1>10. Phases'
  BY <1>0, <1>4 DEF Phases
<1>11. Covered'
  <2> SUFFICES ASSUME pc' = "sleep", ~jumped', NEW t \in known'
               PROVE  wait' - slept' <= Floor \/ wait' - slept' <= next'[t]
    BY DEF Covered
  <2>1. t \in known /\ t \in Present /\ (wait - slept <= Floor \/ wait - slept <= next[t])
    BY <1>0, <1>4, <1>7 DEF Covered
  <2>2. slept' = slept + 1 /\ wait' = wait
    BY <1>4, <1>5
  <2>3. next[t] \in Int /\ next'[t] \in Int /\ next'[t] >= next[t] + (-1)
    BY <1>2, <1>3, <2>1
  <2> QED BY <1>7, <2>1, <2>2, <2>3
<1> QED BY <1>9, <1>10, <1>11 DEF IInv

LEMMA SetClockStep == IInv /\ SetClock => IInv'
<1> SUFFICES ASSUME IInv, SetClock PROVE IInv'
  OBVIOUS
<1>0. TypeOK /\ Phases /\ Covered
  BY DEF IInv
<1>1. PICK d \in Jumps : next' = Shifted(d)
  BY DEF SetClock
<1>2. /\ next' \in [Targets -> Int \cup {Absent}]
      /\ Present' = Present
      /\ \A t \in Present : next'[t] >= -Behind
  BY <1>0, <1>1, ShiftType
<1>3. UNCHANGED <<pc, todo, cur, known, wait, slept, cancelled>> /\ jumped' = TRUE
  BY DEF SetClock, loop
<1>4. TypeOK'
  BY <1>0, <1>2, <1>3 DEF TypeOK
<1> QED BY <1>0, <1>3, <1>4 DEF IInv, Phases, Covered

(* One target changes.  A target of the plan does so only by what another   *)
(* command does, and is of no account afterwards.                           *)
LEMMA SetType ==
    ASSUME TypeOK, NEW t \in Targets, NEW x \in {Every, Absent},
           next' = [next EXCEPT ![t] = x]
    PROVE  /\ next' \in [Targets -> Int \cup {Absent}]
           /\ \A u \in Present' : next'[u] >= -Behind
           /\ Present \ {t} \subseteq Present'
           /\ \A u \in Targets \ {t} : next'[u] = next[u]
BY DEF TypeOK, Present

LEMMA OtherStep ==
    ASSUME IInv, NEW t \in Targets, OtherSets(t) \/ OtherRemoves(t)
    PROVE  IInv'
<1>0. TypeOK /\ Phases /\ Covered
  BY DEF IInv
<1>1. /\ \E x \in {Every, Absent} : next' = [next EXCEPT ![t] = x]
      /\ known' = known \ {t}
      /\ UNCHANGED <<pc, todo, cur, wait, slept, cancelled, jumped>>
  BY DEF OtherSets, OtherRemoves
<1>2. /\ next' \in [Targets -> Int \cup {Absent}]
      /\ \A u \in Present' : next'[u] >= -Behind
      /\ Present \ {t} \subseteq Present'
      /\ \A u \in Targets \ {t} : next'[u] = next[u]
  BY <1>0, <1>1, SetType
<1>3. known \subseteq Present /\ Present \subseteq Targets
  BY <1>0 DEF TypeOK, Present
<1>4. known' \subseteq Present'
  BY <1>1, <1>2, <1>3
<1>5. TypeOK'
  BY <1>0, <1>1, <1>2, <1>4 DEF TypeOK
<1>6. Phases'
  BY <1>0, <1>1 DEF Phases
<1>7. \A u \in known' : u \in known /\ next'[u] = next[u]
  BY <1>1, <1>2, <1>3
<1>8. Covered'
  BY <1>0, <1>1, <1>7 DEF Covered
<1> QED BY <1>5, <1>6, <1>8 DEF IInv

LEMMA EndStep == IInv /\ End => IInv'
<1> SUFFICES ASSUME IInv, End PROVE IInv'
  OBVIOUS
<1>0. TypeOK /\ Phases /\ Covered
  BY DEF IInv
<1>1. pc = "check" /\ known = {} /\ cur' = Absent
  BY <1>0 DEF End, Phases
<1>2. UNCHANGED <<pc, todo, known, wait, slept, cancelled, jumped>>
  BY DEF End
<1>3. next' \in [Targets -> Int \cup {Absent}] /\ \A u \in Present' : next'[u] >= -Behind
  <2>1. CASE cur \in Present /\ next' = [next EXCEPT ![cur] = Every]
    <3>1. cur \in Targets
      BY <2>1 DEF Present
    <3> QED BY <1>0, <2>1, <3>1, SetType
  <2>2. CASE UNCHANGED next
    BY <1>0, <2>2 DEF TypeOK, Present
  <2> QED BY <2>1, <2>2 DEF End
<1>4. TypeOK'
  BY <1>0, <1>1, <1>2, <1>3 DEF TypeOK
<1> QED BY <1>1, <1>2, <1>4 DEF IInv, Phases, Covered

LEMMA BeginStep == IInv /\ Begin => IInv'
<1> SUFFICES ASSUME IInv, Begin PROVE IInv'
  OBVIOUS
<1>0. TypeOK /\ Phases /\ Covered
  BY DEF IInv
<1>1. /\ cur' \in Targets \cup {Absent} /\ todo' \subseteq Targets
      /\ pc' \in {"check", "redrain"} /\ (cur' # Absent => pc' = "check")
  <2>1. CASE todo = {} \/ cancelled
    BY <2>1 DEF Begin, Goto
  <2>2. CASE ~(todo = {} \/ cancelled)
    <3>1. todo \in SUBSET Nat /\ todo # {} /\ todo \subseteq Targets
      BY <1>0, <2>2 DEF TypeOK
    <3>2. cur' = Min(todo) /\ todo' = todo \ {cur'} /\ pc' = pc /\ pc = "check"
      BY <2>2 DEF Begin
    <3>3. Min(todo) \in todo
      BY <3>1, LeastOfNat
    <3> QED BY <3>1, <3>2, <3>3
  <2> QED BY <2>1, <2>2
<1>2. pc = "check" /\ known = {} /\ UNCHANGED <<next, known, wait, slept, cancelled, jumped>>
  BY <1>0 DEF Begin, Phases
<1>3. TypeOK'
  BY <1>0, <1>1, <1>2 DEF TypeOK, Present
<1> QED BY <1>1, <1>2, <1>3 DEF IInv, Phases, Covered

(* The steps that only move the loop, or end its sleep.                     *)
LEMMA MoveStep ==
    ASSUME IInv,
           \/ Open \/ OpenFails \/ Restart \/ Drain \/ List \/ ListFails
           \/ Wake \/ Interrupt \/ Cancel \/ UNCHANGED vars
    PROVE  IInv'
<1>0. TypeOK /\ Phases /\ Covered
  BY DEF IInv
<1> USE DEF Goto, TypeOK, Present, Phases, Covered
<1>1. CASE Open \/ OpenFails \/ Restart
  BY <1>0, <1>1 DEF Open, OpenFails, Restart, IInv
<1>2. CASE Drain
  BY <1>0, <1>2 DEF Drain, IInv
<1>3. CASE List \/ ListFails
  BY <1>0, <1>3 DEF List, ListFails, Late, IInv
<1>4. CASE Wake \/ Interrupt
  BY <1>0, <1>4 DEF Wake, Interrupt, Awake, IInv
<1>5. CASE Cancel \/ UNCHANGED vars
  BY <1>0, <1>5 DEF Cancel, vars, loop, IInv
<1> QED BY <1>1, <1>2, <1>3, <1>4, <1>5

LEMMA Initially == Init => IInv
<1> SUFFICES ASSUME Init PROVE IInv
  OBVIOUS
<1>1. next \in [Targets -> Int \cup {Absent}] /\ \A t \in Present : next[t] >= -Behind
  BY DEF Init, Present
<1>2. wait \in 0..MaxWait /\ slept \in 0..wait /\ known \subseteq Present
  BY DEF Init
<1>3. TypeOK
  BY <1>1, <1>2 DEF Init, TypeOK
<1> QED BY <1>3 DEF Init, IInv, Phases, Covered

LEMMA Preserved == IInv /\ [Next]_vars => IInv'
BY PlanStep, TickStep, SetClockStep, OtherStep, EndStep, BeginStep, MoveStep DEF Next, Step

LEMMA Always == Spec => []IInv
BY Initially, Preserved, PTL DEF Spec

(* The watcher never has a sleep longer than its bound to go, nor more of   *)
(* it behind than there was, nor a target to check that does not exist.     *)
THEOREM LoopIsTyped == Spec => []TypeOK
<1>1. IInv => TypeOK
  BY DEF IInv
<1> QED BY <1>1, Always, PTL

(* However many targets there are and whatever other commands do to them,   *)
(* the watcher never sleeps past a target it planned for, by more than its  *)
(* floor, unless the clock was set meanwhile.                               *)
THEOREM NeverOversleeps == Spec => []Alert
<1>1. IInv => Alert
  <2> SUFFICES ASSUME IInv, pc = "sleep", ~jumped, NEW t \in known, next[t] <= 0
               PROVE  wait - slept <= Floor
    BY DEF Alert
  <2>1. wait \in Nat /\ slept \in Nat /\ next[t] \in Int
    BY DEF IInv, TypeOK, Present
  <2>2. wait - slept <= Floor \/ wait - slept <= next[t]
    BY DEF IInv, Covered
  <2> QED BY <2>1, <2>2
<1> QED BY <1>1, Always, PTL
================================================================================
