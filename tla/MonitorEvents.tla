------------------------------ MODULE MonitorEvents ------------------------------
(****************************************************************************)
(* Proofs about what Monitor announces and shows: validators, redirects,    *)
(* alarms, the notice of each event, and what the diff command reads.       *)
(****************************************************************************)
EXTENDS MonitorHistory, Readers, WellFoundedInduction

(* The fields of the record a check commits.                                *)
LEMMA StampedKeeps ==
    ASSUME NEW t \in Target, NEW now \in Nat
    PROVE  LET s == Stamped(t, now) IN
           /\ s \in Target
           /\ s.hash = t.hash /\ s.tag = t.tag /\ s.url = t.url
           /\ s.fails = t.fails /\ s.reported = t.reported
  <1> DEFINE a == [t EXCEPT !.rev = t.rev + 1]
             b == [a EXCEPT !.checked = now]
             c == [b EXCEPT !.next = now + Every]
  <1>1. Stamped(t, now) = c
    BY Zenon DEF Stamped
  <1>2. /\ c.hash = t.hash /\ c.tag = t.tag /\ c.url = t.url
        /\ c.fails = t.fails /\ c.reported = t.reported
    BY DEF Target
  <1>3. c \in Target
    BY <1>1, StampedType DEF Successor
  <1> QED
    BY <1>1, <1>2, <1>3

LEMMA UpdatedParts ==
    ASSUME NEW t \in Target, NEW r \in Response, NEW now \in Nat
    PROVE  LET u == Updated(t, r, now) IN
           /\ r.kind = "error" =>
                /\ u.hash = t.hash /\ u.tag = t.tag /\ u.url = t.url
                /\ u.fails = t.fails + 1
                /\ u.reported <=> t.reported \/ Reached(t)
           /\ r.kind = "notModified" =>
                /\ u.hash = t.hash /\ u.tag = Or(r.tag, t.tag)
                /\ u.url = Or(r.url, t.url)
                /\ u.fails = 0 /\ ~u.reported
           /\ r.kind = "ok" =>
                /\ u.hash = r.content /\ u.tag = r.tag /\ u.url = r.url
                /\ u.fails = 0 /\ ~u.reported
  <1> DEFINE s == Stamped(t, now)
             u == Updated(t, r, now)
  <1>1. /\ s \in Target
        /\ s.hash = t.hash /\ s.tag = t.tag /\ s.url = t.url
        /\ s.fails = t.fails /\ s.reported = t.reported
    BY StampedKeeps
  <1>2. ASSUME r.kind = "error"
        PROVE  /\ u.hash = t.hash /\ u.tag = t.tag /\ u.url = t.url
               /\ u.fails = t.fails + 1
               /\ u.reported <=> t.reported \/ Reached(t)
    <2>1. u = [s EXCEPT !.fails = @ + 1, !.reported = @ \/ Reached(t)]
      BY <1>2 DEF Updated, AfterFailure
    <2> HIDE DEF s, u
    <2> QED
      BY <1>1, <2>1 DEF Target
  <1>3. ASSUME r.kind = "notModified"
        PROVE  /\ u.hash = t.hash /\ u.tag = Or(r.tag, t.tag)
               /\ u.url = Or(r.url, t.url)
               /\ u.fails = 0 /\ ~u.reported
    <2>1. u = [s EXCEPT !.fails = 0, !.reported = FALSE,
                        !.tag = Or(r.tag, @), !.url = Or(r.url, @)]
      BY <1>3 DEF Updated, AfterNotModified
    <2> HIDE DEF s, u
    <2> QED
      BY <1>1, <2>1 DEF Target
  <1>4. ASSUME r.kind = "ok"
        PROVE  /\ u.hash = r.content /\ u.tag = r.tag /\ u.url = r.url
               /\ u.fails = 0 /\ ~u.reported
    <2>1. u = [s EXCEPT !.fails = 0, !.reported = FALSE, !.hash = r.content,
                        !.tag = r.tag, !.url = r.url, !.status = r.status]
      BY <1>4 DEF Updated, AfterContent
    <2> HIDE DEF s, u
    <2> QED
      BY <1>1, <2>1 DEF Target
  <1> QED
    BY <1>2, <1>3, <1>4

--------------------------------------------------------------------------------
(* Validators.  A record and a copy carry the validator of their own        *)
(* snapshot or none, a response that of its own content or none, and a 304  *)
(* answers the copy it was asked for.                                       *)
OwnTag(t) == t.tag \in {None, t.hash}

Truthful(w) ==
    /\ \A c \in Held(w) : OwnTag(c)
    /\ resp[w] # None =>
         /\ resp[w].kind \in {"ok", "notModified"} =>
              resp[w].tag \in {None, resp[w].content}
         /\ resp[w].kind = "notModified" =>
              cur[w] \in Target /\ cur[w].hash = resp[w].content

Honest ==
    /\ \A i \in Live : OwnTag(targets[i])
    /\ \A w \in Workers : Truthful(w)

(* A worker keeps its response for as long as it keeps its copy, drops it,  *)
(* or has just asked for it.                                                *)
LEMMA ResponseStep ==
    ASSUME TypeInv, NEW w \in Workers, WorkerStep(w)
    PROVE  \/ resp'[w] = None
           \/ resp'[w] = resp[w] /\ cur'[w] = cur[w]
           \/ /\ pc[w] = "fetch" /\ cur'[w] = cur[w]
              /\ resp'[w] \in Answers(cur[w].tag)
           \/ resp'[w] \in Answers(None) /\ resp'[w].kind = "ok"
  <1> DEFINE Goal ==
           \/ resp'[w] = None
           \/ resp'[w] = resp[w] /\ cur'[w] = cur[w]
           \/ /\ pc[w] = "fetch" /\ cur'[w] = cur[w]
              /\ resp'[w] \in Answers(cur[w].tag)
           \/ resp'[w] \in Answers(None) /\ resp'[w].kind = "ok"
  <1>1. \A r : resp' = [resp EXCEPT ![w] = r] => resp'[w] = r
    BY DEF TypeInv, TypeOK, WorkTypeOK
  <1>2. ASSUME NEW S, Advance(w, S) \/ Finish(w) PROVE Goal
    BY <1>1, <1>2 DEF Advance, Finish
  <1>3. CASE Fetch(w)
    BY <1>1, <1>3 DEF Fetch
  <1>4. CASE AddFetch(w)
    <2>1. CASE Finish(w)
      BY <1>2, <2>1
    <2>2. CASE \E r \in Answers(None) : r.kind = "ok" /\ resp' = [resp EXCEPT ![w] = r]
      BY <1>1, <2>2
    <2> QED
      BY <1>4, <2>1, <2>2 DEF AddFetch
  <1> HIDE DEF Goal
  <1>5. CASE UNCHANGED <<cur, resp>>
    BY <1>5 DEF Goal
  <1>6. CASE resp' = [resp EXCEPT ![w] = None]
    BY <1>1, <1>6 DEF Goal
  <1>7. \/ Fetch(w) \/ AddFetch(w) \/ UNCHANGED <<cur, resp>>
        \/ resp' = [resp EXCEPT ![w] = None]
        \/ \E S : Advance(w, S) \/ Finish(w)
    BY Zenon DEF WorkerStep, StartCheck, SelectDue, Apply, Report, Commit, Reload,
           Cancel, StartAdd, AddPut, AddCreate, Remove, IOError, Crash, workVars
  <1> QED
    BY <1>2, <1>3, <1>4, <1>5, <1>6, <1>7 DEF Goal

LEMMA AnswersTruthful ==
    ASSUME TypeOK, NEW tag, NEW r \in Answers(tag)
    PROVE  /\ r.kind \in {"ok", "notModified"} => r.tag \in {None, r.content}
           /\ r.kind = "notModified" => r.content = tag /\ tag \in Contents
  BY DEF Answers, Failed, TypeOK

LEMMA TruthfulStep ==
    ASSUME Core, Honest, NEW w \in Workers, WorkerStep(w), HoldsKnown(w)
    PROVE  \A v \in Workers : Truthful(v)'
  <1>1. TypeInv /\ TypeOK
    BY DEF Core, TypeInv
  <1>2. ASSUME NEW v \in Workers \ {w} PROVE Truthful(v)'
    <2>1. cur'[v] = cur[v] /\ todo'[v] = todo[v] /\ resp'[v] = resp[v]
      BY <1>1, OthersKeep
    <2>2. Truthful(v)
      BY DEF Honest
    <2> QED
      BY <2>1, <2>2 DEF Truthful, Held
  <1>3. \A c \in Held(w)' : OwnTag(c)
    BY DEF HoldsKnown, Honest, Truthful
  <1>4. Truthful(w)'
    <2>1. CASE resp'[w] = None
      BY <1>3, <2>1 DEF Truthful
    <2>2. CASE resp'[w] = resp[w] /\ cur'[w] = cur[w]
      BY <1>3, <2>2 DEF Truthful, Honest
    <2>3. CASE pc[w] = "fetch" /\ cur'[w] = cur[w] /\ resp'[w] \in Answers(cur[w].tag)
      <3>1. cur[w] \in Target /\ cur[w] \in Held(w)
        BY <1>1, <2>3, NoneAssumption DEF TypeInv, Shape, Held
      <3>2. cur[w].tag \in {None, cur[w].hash} /\ None \notin Contents
        BY <3>1, StoreAssumption DEF Honest, Truthful, OwnTag
      <3> QED
        BY <1>1, <1>3, <2>3, <3>1, <3>2, AnswersTruthful DEF Truthful
    <2>4. CASE resp'[w] \in Answers(None) /\ resp'[w].kind = "ok"
      BY <1>1, <1>3, <2>4, AnswersTruthful DEF Truthful
    <2> QED
      BY <1>1, <2>1, <2>2, <2>3, <2>4, ResponseStep
  <1> QED
    BY <1>2, <1>4

(* What a commit stores carries its own validator.                          *)
LEMMA UpdatedHonest ==
    ASSUME Core, Honest, NEW w \in Workers, pc[w] = "commit", cur[w] \in Target,
           stamp[w] \in Nat
    PROVE  OwnTag(Updated(cur[w], resp[w], stamp[w]))
  <1> DEFINE t == cur[w]
             r == resp[w]
             u == Updated(t, r, stamp[w])
  <1>1. t \in Held(w) /\ r \in Response /\ r # None
    BY NoneAssumption DEF Held, Core, TypeInv, Shape
  <1>2. /\ OwnTag(t)
        /\ r.kind \in {"ok", "notModified"} => r.tag \in {None, r.content}
        /\ r.kind = "notModified" => t.hash = r.content
    BY <1>1 DEF Honest, Truthful
  <1>3. /\ r.kind = "error" => u.hash = t.hash /\ u.tag = t.tag
        /\ r.kind = "notModified" => u.hash = t.hash /\ u.tag = Or(r.tag, t.tag)
        /\ r.kind = "ok" => u.hash = r.content /\ u.tag = r.tag
    BY <1>1, UpdatedParts
  <1>4. r.kind \in {"ok", "notModified", "error"}
    BY <1>1 DEF Response, Failed
  <1> HIDE DEF u, t, r
  <1> QED
    BY <1>2, <1>3, <1>4 DEF OwnTag, Or, u, t, r

LEMMA WorkerHonest ==
    ASSUME Core, Honest, NEW w \in Workers, WorkerStep(w), HoldsKnown(w)
    PROVE  Honest'
  <1>1. \A v \in Workers : Truthful(v)'
    BY TruthfulStep
  <1>2. CASE UNCHANGED targets
    BY <1>1, <1>2 DEF Honest, Live
  <1>3. CASE Commit(w) /\ ~UNCHANGED storeVars
    <2> DEFINE u == Updated(cur[w], resp[w], stamp[w])
    <2>1. /\ cur[w] \in Target /\ stamp[w] \in Nat /\ pc[w] = "commit"
          /\ targets' = [targets EXCEPT ![cur[w].id] = u] /\ Live' = Live
      BY <1>3, CommitFacts DEF Commit
    <2>2. OwnTag(u)
      BY <2>1, UpdatedHonest
    <2> HIDE DEF u
    <2> QED
      BY <1>1, <2>1, <2>2 DEF Honest, Live, Core, TypeInv, TypeOK, StoreTypeOK
  <1>4. CASE AddCreate(w) /\ ~UNCHANGED storeVars
    <2>1. PICK id \in Ids \ used :
            CreateTarget(Baseline(id, adding[w], resp[w], stamp[w]),
                         BaselineEntry(id, resp[w], stamp[w]))
      BY <1>4 DEF AddCreate
    <2> DEFINE u == Baseline(id, adding[w], resp[w], stamp[w])
    <2>2. resp[w] \in Response /\ resp[w].kind = "ok"
      BY <1>4 DEF AddCreate, Core, TypeInv, Shape
    <2>3. resp[w].tag \in {None, resp[w].content}
      BY <2>2, NoneAssumption DEF Honest, Truthful
    <2>4. OwnTag(u) /\ targets' = [targets EXCEPT ![id] = u]
      BY <2>1, <2>3 DEF Baseline, CreateTarget, OwnTag
    <2> HIDE DEF u
    <2> QED
      BY <1>1, <2>4 DEF Honest, Live, Core, TypeInv, TypeOK, StoreTypeOK
  <1>5. CASE Remove(w)
    <2>1. PICK n \in Names : DeleteTarget(n)
      BY <1>5 DEF Remove
    <2> QED
      BY <1>1, <2>1 DEF DeleteTarget, Honest, Live, Core, TypeInv, TypeOK, StoreTypeOK
  <1>6. CASE Quiet(w) \/ UNCHANGED storeVars
    BY <1>2, <1>6, QuietFrame DEF storeVars
  <1> QED
    BY <1>3, <1>4, <1>5, <1>6 DEF WorkerStep, Quiet

(* Every step of a worker leaves it with copies it held or that are current.*)
LEMMA StepHolds ==
    ASSUME TypeInv, NEW w \in Workers, WorkerStep(w)
    PROVE  HoldsKnown(w)
  <1>1. CASE Quiet(w)
    BY <1>1, QuietHolds
  <1>2. CASE Commit(w)
    BY <1>2, ShrinkHolds, SameHolds DEF Commit
  <1>3. CASE AddCreate(w)
    BY <1>3, FinishHolds DEF AddCreate, HoldsKnown, TypeInv, TypeOK
  <1>4. CASE Remove(w)
    BY <1>4, SameHolds DEF Remove, workVars
  <1> QED
    BY <1>1, <1>2, <1>3, <1>4 DEF WorkerStep, Quiet

LEMMA HonestHolds == Spec => []Honest
  <1>1. Init => Honest
    BY DEF Init, StoreInit, Honest, Truthful, Held, Live
  <1>2. Core /\ Honest /\ [Next]_vars => Honest'
    <2> SUFFICES ASSUME Core, Honest, [Next]_vars PROVE Honest'
      OBVIOUS
    <2>1. CASE UNCHANGED vars \/ Publish \/ Tick
      BY <2>1 DEF vars, Publish, Tick, storeVars, workVars, Honest, Truthful, Held, Live
    <2>2. ASSUME NEW w \in Workers, WorkerStep(w) PROVE Honest'
      BY <2>2, StepHolds, WorkerHonest DEF Core
    <2> QED
      BY <2>1, <2>2 DEF Next
  <1> QED
    BY <1>1, <1>2, CoreHolds, PTL DEF Spec

(* A 304 never hides a change: the validator of a request belongs to the    *)
(* snapshot of the copy it is sent for, however old that copy, and what is  *)
(* stored after any answer carries the validator of its own snapshot        *)
(* (applyValidators and the three branches of check).                       *)
THEOREM NoChangeMissed == Spec => []NoMissedChange
  <1>1. Honest => NoMissedChange
    BY DEF Honest, OwnTag, Truthful, NoMissedChange
  <1> QED
    BY <1>1, HonestHolds, PTL

--------------------------------------------------------------------------------
(* The run of failures at the end of a history.  a is the last success of   *)
(* target i: it set the effective URL, and its failures are counted from it.*)
LastSuccess(i, a) ==
    /\ a.target = i /\ a.outcome # "failure"
    /\ a.url = targets[i].url
    /\ a.rev + targets[i].fails = targets[i].rev
    /\ \A g \in history : g.target = i /\ a.rev < g.rev => g.outcome = "failure"

Anchored == \A i \in Live : \E a \in history : LastSuccess(i, a)

Alarmed ==
    \A i \in Live : targets[i].reported <=> targets[i].fails >= FailureThreshold

(* A notice is of a revision already committed, and a target starts with    *)
(* its baseline.                                                            *)
NoticesPast == \A q \in queue : q.rev <= targets[q.target].rev

StartsPlain ==
    \A e \in history : e.outcome = "baseline" <=> e.rev = 1

Ledger ==
    /\ Anchored /\ Alarmed /\ NoticesPast /\ StartsPlain
    /\ RedirectChain /\ OneAlarmPerOutage

(* The stored counter is the length of the run of failures that ends the    *)
(* history.                                                                 *)
Counted ==
    TypeOK /\ Past /\ Anchored =>
        \A i \in Live : \A n \in Nat :
            FailedRun(i, targets[i].rev, n) <=> n <= targets[i].fails

LEMMA RunsCounted == Counted
  <1> SUFFICES ASSUME TypeOK, Past, Anchored, NEW i \in Live, NEW n \in Nat
               PROVE  FailedRun(i, targets[i].rev, n) <=> n <= targets[i].fails
    BY DEF Counted
  <1> DEFINE r == targets[i].rev
             f == targets[i].fails
  <1>1. r \in Nat /\ f \in Nat /\ \A e \in history : e.rev \in Nat
    BY DEF TypeOK, StoreTypeOK, Live, Target, Entry
  <1>2. PICK a \in history : LastSuccess(i, a)
    BY DEF Anchored
  <1>3. a.target = i /\ a.outcome # "failure" /\ a.rev + f = r /\ a.rev \in 1..r
    BY <1>2 DEF LastSuccess, Past, Recorded
  <1> HIDE DEF r, f
  <1>4. ASSUME n <= f, NEW k \in 1..n
        PROVE  \E e \in history : e.target = i /\ e.rev + k = r + 1 /\ e.outcome = "failure"
    <2>1. (r + 1) - k \in 1..r /\ a.rev < (r + 1) - k
      BY <1>1, <1>3, <1>4
    <2>2. PICK e \in history : e.target = i /\ e.rev = (r + 1) - k
      BY <2>1 DEF Past, Complete, r
    <2>3. e.outcome = "failure"
      BY <1>2, <2>1, <2>2 DEF LastSuccess
    <2> QED
      BY <1>1, <2>1, <2>2, <2>3
  <1>5. ASSUME FailedRun(i, r, n), ~(n <= f) PROVE FALSE
    <2>1. f + 1 \in 1..n
      BY <1>1, <1>5
    <2>2. PICK e \in history :
            e.target = i /\ e.rev + (f + 1) = r + 1 /\ e.outcome = "failure"
      BY <1>5, <2>1 DEF FailedRun
    <2>3. e.rev = a.rev
      BY <1>1, <1>3, <2>2
    <2> QED
      BY <1>3, <2>2, <2>3 DEF Past, Linked
  <1> QED
    BY <1>4, <1>5 DEF FailedRun, r, f

(* An entry of another target, or ahead of r, is no part of a run that ends *)
(* at r.                                                                    *)
LEMMA RunKept ==
    ASSUME NEW e, history' = history \cup {e}, NEW i, NEW r \in Nat, NEW n \in Nat,
           e.target # i \/ (e.rev \in Nat /\ r < e.rev)
    PROVE  FailedRun(i, r, n)' <=> FailedRun(i, r, n)
  <1>1. ASSUME NEW k \in 1..n PROVE ~(e.target = i /\ e.rev + k = r + 1)
    OBVIOUS
  <1> QED
    BY <1>1 DEF FailedRun

--------------------------------------------------------------------------------
(* A transaction that moves target i one revision on, with one entry.       *)
Continues(i, u, e) ==
    /\ u.rev = targets[i].rev + 1
    /\ e.target = i /\ e.rev = u.rev /\ e.prevUrl = targets[i].url
    /\ e.outcome # "baseline"
    /\ e.outcome = "failure" =>
         /\ u.url = targets[i].url /\ u.fails = targets[i].fails + 1
         /\ u.reported <=> targets[i].reported \/ u.fails >= FailureThreshold
    /\ e.outcome # "failure" =>
         /\ u.url = e.url /\ u.fails = 0 /\ ~u.reported
         /\ e.recovered <=> targets[i].reported

LEMMA AppendLedger ==
    ASSUME TypeInv, TypeInv', Past, Past', Ledger,
           NEW i \in Live, NEW u \in Target, NEW e \in Entry, Continues(i, u, e),
           targets' = [targets EXCEPT ![i] = u], Live' = Live,
           history' = history \cup {e},
           \A q \in queue' : \/ q \in queue
                             \/ /\ q.target = i /\ q.rev = u.rev
                                /\ q.kind = "failure" => u.fails = FailureThreshold
    PROVE  Ledger'
  <1> DEFINE t == targets[i]
             T == FailureThreshold
  <1>1. /\ targets'[i] = u /\ \A j \in Live \ {i} : targets'[j] = targets[j]
        /\ \A j \in Live : targets[j] \in Target /\ targets[j].rev \in Nat
                          /\ targets[j].fails \in Nat
    BY DEF TypeInv, TypeOK, StoreTypeOK, Live, Target
  <1>2. /\ \A f \in history : f.rev \in Nat /\ f.target \in Live
                              /\ f.rev \in 1..targets[f.target].rev
        /\ \A q \in queue : q.rev \in Nat /\ q.target \in Live
        /\ u.rev \in Nat /\ u.fails \in Nat /\ T \in Nat \ {0}
    BY MonitorAssumption
       DEF TypeInv, TypeOK, StoreTypeOK, Entry, Notice, Target, Past, NoOrphans, Recorded
  <1>3. e.rev = t.rev + 1 /\ e.target = i
    BY DEF Continues
  <1>4. Anchored'
    <2>1. ASSUME NEW j \in Live \ {i} PROVE \E a \in history' : LastSuccess(j, a)'
      <3>1. PICK a \in history : LastSuccess(j, a)
        BY DEF Ledger, Anchored
      <3> QED
        BY <1>1, <1>3, <3>1 DEF LastSuccess
    <2>2. ASSUME e.outcome = "failure" PROVE \E a \in history' : LastSuccess(i, a)'
      <3>1. PICK a \in history : LastSuccess(i, a)
        BY DEF Ledger, Anchored
      <3>2. a.rev \in Nat
        BY <1>2
      <3>3. a.rev + u.fails = u.rev
        BY <1>1, <1>2, <2>2, <3>1, <3>2 DEF LastSuccess, Continues
      <3> QED
        BY <1>1, <2>2, <3>1, <3>3 DEF LastSuccess, Continues
    <2>3. ASSUME e.outcome # "failure" PROVE \E a \in history' : LastSuccess(i, a)'
      <3>1. \A g \in history' : g.target = i => g.rev <= e.rev /\ g.rev \in Nat
        BY <1>1, <1>2, <1>3
      <3>2. LastSuccess(i, e)'
        BY <1>1, <1>2, <2>3, <3>1 DEF LastSuccess, Continues
      <3> QED
        BY <3>2
    <2> QED
      BY <2>1, <2>2, <2>3 DEF Anchored
  <1>5. Alarmed'
    <2>1. u.reported <=> u.fails >= T
      BY <1>1, <1>2 DEF Continues, Ledger, Alarmed
    <2> QED
      BY <1>1, <2>1 DEF Ledger, Alarmed
  <1>6. NoticesPast'
    BY <1>1, <1>2, <1>3 DEF Ledger, NoticesPast, Continues
  <1>7. StartsPlain'
    <2>1. PICK a \in history : LastSuccess(i, a)
      BY DEF Ledger, Anchored
    <2>2. t.rev >= 1
      BY <1>1, <1>2, <2>1 DEF LastSuccess
    <2> QED
      BY <1>1, <1>3, <2>2 DEF Ledger, StartsPlain, Continues
  <1>8. \A j \in Live : \A n \in Nat :
          (FailedRun(j, targets[j].rev, n) <=> n <= targets[j].fails)'
    <2>1. Counted'
      BY RunsCounted, PTL
    <2> QED
      BY <1>4, <2>1 DEF Counted, TypeInv
  <1>9. \A n \in Nat : FailedRun(i, t.rev, n) <=> n <= t.fails
    BY RunsCounted DEF Counted, TypeInv, Ledger
  <1>10. ASSUME NEW j, NEW r \in Nat, NEW n \in Nat, j # i \/ r <= t.rev
         PROVE  FailedRun(j, r, n)' <=> FailedRun(j, r, n)
    <2>1. e.target # j \/ (e.rev \in Nat /\ r < e.rev)
      BY <1>1, <1>3, <1>10
    <2> QED
      BY <2>1, RunKept
  <1>11. RedirectChain'
    <2>1. ASSUME NEW f \in history, f.outcome \notin {"failure", "baseline"}
          PROVE  \E a \in history' :
                   /\ a.target = f.target /\ a.rev < f.rev /\ a.outcome # "failure"
                   /\ a.url = f.prevUrl
                   /\ \A g \in history' : g.target = f.target /\ a.rev < g.rev
                        /\ g.rev < f.rev => g.outcome = "failure"
      <3>1. PICK a \in history :
                   /\ a.target = f.target /\ a.rev < f.rev /\ a.outcome # "failure"
                   /\ a.url = f.prevUrl
                   /\ \A g \in history : g.target = f.target /\ a.rev < g.rev
                        /\ g.rev < f.rev => g.outcome = "failure"
        BY <2>1 DEF Ledger, RedirectChain
      <3>2. e.target = f.target => ~(e.rev < f.rev)
        BY <1>1, <1>2, <1>3
      <3> QED
        BY <3>1, <3>2
    <2>2. ASSUME e.outcome # "failure"
          PROVE  \E a \in history' :
                   /\ a.target = e.target /\ a.rev < e.rev /\ a.outcome # "failure"
                   /\ a.url = e.prevUrl
                   /\ \A g \in history' : g.target = e.target /\ a.rev < g.rev
                        /\ g.rev < e.rev => g.outcome = "failure"
      <3>1. PICK a \in history : LastSuccess(i, a)
        BY DEF Ledger, Anchored
      <3>2. a.rev < e.rev
        BY <1>1, <1>2, <1>3, <3>1 DEF LastSuccess
      <3>3. ~(e.rev < e.rev)
        BY <1>1, <1>3
      <3> QED
        BY <1>3, <3>1, <3>2, <3>3 DEF LastSuccess, Continues
    <2> QED
      BY <2>1, <2>2 DEF RedirectChain
  <1>12. OneAlarmPerOutage'
    <2>1. \A n \in Nat : FailedRun(i, u.rev, n)' <=> n <= u.fails
      BY <1>1, <1>8
    <2>2. ASSUME NEW q \in queue', q.kind = "failure"
          PROVE  FailedRun(q.target, q.rev, T)' /\ ~FailedRun(q.target, q.rev, T + 1)'
      <3>1. CASE q \in queue
        <4>1. q.rev <= targets[q.target].rev /\ q.rev \in Nat /\ q.target \in Live
          BY <1>2, <3>1 DEF Ledger, NoticesPast
        <4>2. FailedRun(q.target, q.rev, T) /\ ~FailedRun(q.target, q.rev, T + 1)
          BY <2>2, <3>1 DEF Ledger, OneAlarmPerOutage
        <4> QED
          BY <1>2, <1>10, <4>1, <4>2
      <3>2. CASE q.target = i /\ q.rev = u.rev /\ u.fails = T
        BY <1>2, <2>1, <3>2
      <3> QED
        BY <2>2, <3>1, <3>2
    <2>3. ASSUME NEW f \in history', f.outcome # "failure"
          PROVE  f.recovered <=> FailedRun(f.target, f.rev - 1, T)'
      <3>1. CASE f \in history
        <4>1. f.rev - 1 <= targets[f.target].rev /\ f.rev - 1 \in Nat
          BY <1>1, <1>2, <3>1
        <4>2. f.recovered <=> FailedRun(f.target, f.rev - 1, T)
          BY <2>3, <3>1 DEF Ledger, OneAlarmPerOutage
        <4> QED
          BY <1>2, <1>10, <4>1, <4>2
      <3>2. CASE f = e
        <4>1. f.rev - 1 = t.rev /\ t.rev \in Nat /\ t.rev <= t.rev
          BY <1>1, <1>3, <3>2
        <4>2. f.recovered <=> t.reported
          BY <2>3, <3>2 DEF Continues
        <4>3. t.reported <=> T <= t.fails
          BY <1>1, <1>2 DEF Ledger, Alarmed
        <4> QED
          BY <1>2, <1>3, <1>9, <1>10, <3>2, <4>1, <4>2, <4>3
      <3> QED
        BY <3>1, <3>2
    <2> QED
      BY <2>2, <2>3 DEF OneAlarmPerOutage
  <1> QED
    BY <1>4, <1>5, <1>6, <1>7, <1>11, <1>12 DEF Ledger

LEMMA CommitContinues ==
    ASSUME Core, Ledger, NEW w \in Workers, pc[w] = "commit",
           CommitTarget(Updated(cur[w], resp[w], stamp[w]), cur[w].rev,
                        EntryOf(cur[w], resp[w], stamp[w]),
                        Notices(w, cur[w], resp[w], stamp[w]))
    PROVE  LET i == cur[w].id
               u == Updated(cur[w], resp[w], stamp[w])
               e == EntryOf(cur[w], resp[w], stamp[w])
           IN  /\ u \in Target /\ e \in Entry /\ Continues(i, u, e)
               /\ targets' = [targets EXCEPT ![i] = u] /\ Live' = Live /\ i \in Live
               /\ history' = history \cup {e}
               /\ \A q \in queue' : \/ q \in queue
                                    \/ /\ q.target = i /\ q.rev = u.rev
                                       /\ q.kind = "failure" => u.fails = FailureThreshold
  <1> DEFINE t == cur[w]
             r == resp[w]
             now == stamp[w]
             u == Updated(t, r, now)
             e == EntryOf(t, r, now)
  <1>1. /\ t \in Target /\ r \in Response /\ now \in Nat
        /\ t.id \in Live /\ targets[t.id] = t
        /\ u \in Target /\ u.rev = t.rev + 1
        /\ targets' = [targets EXCEPT ![t.id] = u] /\ Live' = Live
    BY CommitFacts DEF Successor
  <1>2. e \in Entry
    BY <1>1, EntryType
  <1>3. t.fails \in Nat /\ FailureThreshold \in Nat /\ (t.reported <=> t.fails >= FailureThreshold)
    BY <1>1, MonitorAssumption DEF Target, Ledger, Alarmed
  <1>4. r.kind \in {"error", "notModified", "ok"}
    BY <1>1 DEF Response, Failed
  <1>5. /\ r.kind = "error" => u.url = t.url /\ u.fails = t.fails + 1
                               /\ (u.reported <=> t.reported \/ Reached(t))
        /\ r.kind # "error" => u.fails = 0 /\ ~u.reported
    BY <1>1, <1>4, UpdatedParts
  <1>6. /\ e.target = t.id /\ e.rev = t.rev + 1 /\ e.prevUrl = t.url
        /\ e.outcome # "baseline" /\ (e.outcome = "failure" <=> r.kind = "error")
        /\ e.recovered <=> r.kind # "error" /\ t.reported
        /\ r.kind # "error" => e.url = u.url
    BY DEF EntryOf, Outcome
  <1>7. Continues(t.id, u, e)
    <2> HIDE DEF u, e, t, r, now
    <2> QED
      BY <1>1, <1>3, <1>5, <1>6 DEF Continues, Reached
  <1>8. \A q \in Notices(w, t, r, now) :
          /\ q.target = t.id /\ q.rev = u.rev
          /\ q.kind = "failure" => u.fails = FailureThreshold
    <2>1. "failure" \in NoticeKinds(t, r) => r.kind = "error" /\ Reached(t)
      BY DEF NoticeKinds
    <2>2. "failure" \in NoticeKinds(t, r) => u.fails = FailureThreshold
      <3> HIDE DEF u, t, r, now
      <3> QED
        BY <1>3, <1>5, <2>1 DEF Reached
    <2> HIDE DEF u
    <2> QED
      BY <1>1, <2>2 DEF Notices
  <1>9. /\ history' = history \cup {e}
        /\ \A q \in queue' : q \in queue \/ q \in Notices(w, t, r, now)
    BY DEF CommitTarget
  <1> HIDE DEF u, e, t, r, now
  <1> QED
    BY <1>1, <1>2, <1>7, <1>8, <1>9 DEF u, e, t, r, now

LEMMA CommitLedger ==
    ASSUME Core, TypeInv', Past, Past', Ledger, NEW w \in Workers, Commit(w),
           ~UNCHANGED storeVars
    PROVE  Ledger'
  <1> DEFINE i == cur[w].id
             u == Updated(cur[w], resp[w], stamp[w])
             e == EntryOf(cur[w], resp[w], stamp[w])
  <1>1. /\ u \in Target /\ e \in Entry /\ Continues(i, u, e)
        /\ targets' = [targets EXCEPT ![i] = u] /\ Live' = Live /\ i \in Live
        /\ history' = history \cup {e}
        /\ \A q \in queue' : \/ q \in queue
                             \/ /\ q.target = i /\ q.rev = u.rev
                                /\ q.kind = "failure" => u.fails = FailureThreshold
    BY CommitContinues DEF Commit
  <1> HIDE DEF i, u, e
  <1> QED
    BY <1>1, AppendLedger DEF Core

(* A target begins with its baseline, of which nothing is left from a       *)
(* target before it: IDs are not used again.                                *)
LEMMA AddCreateLedger ==
    ASSUME Core, Past, Ledger, NEW w \in Workers, AddCreate(w), ~UNCHANGED storeVars
    PROVE  Ledger'
  <1>1. PICK id \in Ids \ used :
          CreateTarget(Baseline(id, adding[w], resp[w], stamp[w]),
                       BaselineEntry(id, resp[w], stamp[w]))
    BY DEF AddCreate
  <1> DEFINE u == Baseline(id, adding[w], resp[w], stamp[w])
             e == BaselineEntry(id, resp[w], stamp[w])
             T == FailureThreshold
  <1>2. u \in Target /\ e \in Entry
    BY BaselineType DEF AddCreate, Core, TypeInv, TypeOK, WorkTypeOK, Shape
  <1>3. /\ u.id = id /\ u.rev = 1 /\ u.fails = 0 /\ ~u.reported /\ u.url = e.url
        /\ e.target = id /\ e.rev = 1 /\ e.outcome = "baseline" /\ ~e.recovered
    BY DEF Baseline, BaselineEntry
  <1>4. /\ targets' = [targets EXCEPT ![id] = u] /\ history' = history \cup {e}
        /\ queue' = queue
    BY <1>1, <1>3 DEF CreateTarget
  <1> HIDE DEF u, e
  <1>5. id \notin Live
    BY DEF Core, Identity
  <1>6. /\ targets'[id] = u /\ \A j \in Live : targets'[j] = targets[j]
        /\ Live' = Live \cup {id}
    BY <1>2, <1>4, <1>5, NoneAssumption DEF Live, Core, TypeInv, TypeOK, StoreTypeOK
  <1>7. /\ \A f \in history : f.target \in Live /\ f.target # id
                              /\ f.rev \in Nat /\ f.rev \in 1..targets[f.target].rev
        /\ \A q \in queue : q.target \in Live /\ q.rev \in Nat
        /\ T \in Nat \ {0}
    BY <1>5, MonitorAssumption DEF Past, NoOrphans, Recorded, Core, TypeInv, TypeOK,
                                   StoreTypeOK, Entry, Notice
  <1>8. Anchored'
    <2>1. ASSUME NEW j \in Live PROVE \E a \in history' : LastSuccess(j, a)'
      <3>1. PICK a \in history : LastSuccess(j, a)
        BY DEF Ledger, Anchored
      <3> QED
        BY <1>3, <1>4, <1>5, <1>6, <3>1 DEF LastSuccess
    <2>2. \E a \in history' : LastSuccess(id, a)'
      <3>1. PICK a : a = e
        OBVIOUS
      <3>2. LastSuccess(id, a)'
        BY <1>3, <1>4, <1>6, <1>7, <3>1 DEF LastSuccess
      <3> QED
        BY <1>4, <3>1, <3>2
    <2> QED
      BY <1>6, <2>1, <2>2 DEF Anchored
  <1>9. Alarmed' /\ NoticesPast' /\ StartsPlain'
    BY <1>3, <1>4, <1>6, <1>7 DEF Ledger, Alarmed, NoticesPast, StartsPlain
  <1>10. RedirectChain'
    BY <1>3, <1>4, <1>7 DEF Ledger, RedirectChain
  <1>11. OneAlarmPerOutage'
    <2>1. ASSUME NEW j \in Live, NEW r \in Nat, NEW n \in Nat
          PROVE  FailedRun(j, r, n)' <=> FailedRun(j, r, n)
      BY <1>3, <1>4, <1>5, RunKept
    <2>2. ~FailedRun(id, 0, T)'
      BY <1>3, <1>4, <1>7 DEF FailedRun
    <2>3. ASSUME NEW q \in queue', q.kind = "failure"
          PROVE  FailedRun(q.target, q.rev, T)' /\ ~FailedRun(q.target, q.rev, T + 1)'
      BY <1>4, <1>7, <2>1, <2>3 DEF Ledger, OneAlarmPerOutage
    <2>4. ASSUME NEW f \in history', f.outcome # "failure"
          PROVE  f.recovered <=> FailedRun(f.target, f.rev - 1, T)'
      <3>1. CASE f \in history
        <4>1. f.rev - 1 \in Nat
          BY <1>7, <3>1
        <4> QED
          BY <1>7, <2>1, <2>4, <3>1, <4>1 DEF Ledger, OneAlarmPerOutage
      <3>2. CASE f = e
        BY <1>3, <2>2, <3>2
      <3> QED
        BY <1>4, <3>1, <3>2
    <2> QED
      BY <2>3, <2>4 DEF OneAlarmPerOutage
  <1> QED
    BY <1>8, <1>9, <1>10, <1>11 DEF Ledger

LEMMA RemoveLedger ==
    ASSUME Core, Past, Ledger, NEW w \in Workers, Remove(w)
    PROVE  Ledger'
  <1>1. PICK n \in Names : DeleteTarget(n)
    BY DEF Remove
  <1> DEFINE id == names[Key[n]]
  <1>2. /\ history' = {e \in history : e.target # id}
        /\ queue' = {q \in queue : q.target # id}
        /\ Live' = Live \ {id} /\ \A j \in Live' : targets'[j] = targets[j]
    BY <1>1 DEF DeleteTarget, Live, Core, TypeInv, TypeOK, StoreTypeOK
  <1> HIDE DEF id
  <1>3. \A q \in queue : q.target \in Live
    BY DEF Past, NoOrphans
  <1>4. Anchored'
    <2> SUFFICES ASSUME NEW j \in Live \ {id} PROVE \E a \in history' : LastSuccess(j, a)'
      BY <1>2 DEF Anchored
    <2>1. PICK a \in history : LastSuccess(j, a)
      BY DEF Ledger, Anchored
    <2> QED
      BY <1>2, <2>1 DEF LastSuccess
  <1>5. Alarmed' /\ NoticesPast' /\ StartsPlain' /\ RedirectChain'
    BY <1>2, <1>3 DEF Ledger, Alarmed, NoticesPast, StartsPlain, RedirectChain
  <1>6. OneAlarmPerOutage'
    <2>1. ASSUME NEW j, j # id, NEW r, NEW k
          PROVE  FailedRun(j, r, k)' <=> FailedRun(j, r, k)
      BY <1>2, <2>1 DEF FailedRun
    <2> QED
      BY <1>2, <2>1 DEF Ledger, OneAlarmPerOutage
  <1> QED
    BY <1>4, <1>5, <1>6 DEF Ledger

LEMMA NextLedger ==
    TypeInv' /\ Core /\ Past /\ Past' /\ Ledger /\ [Next]_vars => Ledger'
  <1> SUFFICES ASSUME TypeInv', Core, Past, Past', Ledger, [Next]_vars PROVE Ledger'
    OBVIOUS
  <1>1. ASSUME UNCHANGED <<targets, history, queue>> PROVE Ledger'
    BY <1>1 DEF Ledger, Anchored, LastSuccess, Alarmed, NoticesPast, StartsPlain,
                RedirectChain, OneAlarmPerOutage, FailedRun, Live
  <1>2. CASE UNCHANGED vars \/ Publish \/ Tick \/ UNCHANGED storeVars
    BY <1>1, <1>2 DEF vars, Publish, Tick, storeVars
  <1>3. ASSUME NEW w \in Workers, Quiet(w) PROVE Ledger'
    BY <1>1, <1>3, QuietFrame
  <1>4. ASSUME NEW w \in Workers, WorkerStep(w) PROVE Ledger'
    BY <1>2, <1>3, <1>4, CommitLedger, AddCreateLedger, RemoveLedger
       DEF WorkerStep, Quiet
  <1> QED
    BY <1>2, <1>4 DEF Next

LEMMA TypeHolds == Spec => []TypeInv
  BY CoreHolds, PTL DEF Core

LEMMA LedgerHolds == Spec => []Ledger
  <1>1. Init => Ledger
    BY DEF Init, StoreInit, Ledger, Anchored, LastSuccess, Alarmed, NoticesPast,
           StartsPlain, RedirectChain, OneAlarmPerOutage, Live
  <1> QED
    BY <1>1, NextLedger, TypeHolds, CoreHolds, PastHolds, PTL DEF Spec

(* The effective URL a check reports as previous is the one the last        *)
(* success before it recorded, whatever failed in between and whichever     *)
(* processes checked (EffectiveURL in applyFailure, applyNotModified).      *)
THEOREM RedirectsChained == Spec => []RedirectChain
  BY LedgerHolds, PTL DEF Ledger

(* One alarm per outage, at the FailureThreshold-th failure in a row, and   *)
(* one all-clear after it, for any number of processes that take turns at   *)
(* the target (FailureNotified and ConsecutiveFailures of the record).      *)
THEOREM OutageAlarmedOnce == Spec => []OneAlarmPerOutage
  BY LedgerHolds, PTL DEF Ledger

--------------------------------------------------------------------------------
(* The transaction that records an event queues its notice.                 *)
LEMMA AnnouncedKept ==
    ASSUME NEW x, history' = history \cup {x}, NEW e \in Entry,
           x.target # e.target \/ (x.rev \in Nat /\ e.rev < x.rev)
    PROVE  Announced(e)' <=> Announced(e)
  <1>1. e.rev \in Nat /\ FailureThreshold \in Nat /\ FailureThreshold + 1 \in Nat
    BY MonitorAssumption DEF Entry
  <1>2. \A n \in Nat : FailedRun(e.target, e.rev, n)' <=> FailedRun(e.target, e.rev, n)
    BY <1>1, RunKept
  <1> QED
    BY <1>1, <1>2 DEF Announced

LEMMA CommitNotices ==
    ASSUME Core, TypeInv', Past, Past', Ledger, Ledger', NEW w \in Workers, Commit(w),
           Configured[w] # {}, NEW e \in history' \ history, Announced(e)'
    PROVE  \E q \in queue' :
             q.target = e.target /\ q.rev = e.rev /\ q.to = Configured[w]
  <1> DEFINE i == cur[w].id
             t == cur[w]
             r == resp[w]
             now == stamp[w]
             u == Updated(t, r, now)
             T == FailureThreshold
  <1>1. /\ pc[w] = "commit"
        /\ CommitTarget(u, t.rev, EntryOf(t, r, now), Notices(w, t, r, now))
    BY DEF Commit, storeVars
  <1>2. /\ u \in Target /\ Continues(i, u, EntryOf(t, r, now))
        /\ targets' = [targets EXCEPT ![i] = u] /\ Live' = Live /\ i \in Live
        /\ history' = history \cup {EntryOf(t, r, now)}
    BY <1>1, CommitContinues
  <1>3. /\ t \in Target /\ r \in Response /\ now \in Nat /\ targets[i] = t
    BY <1>1, CommitFacts
  <1>4. e = EntryOf(t, r, now)
    BY <1>2
  <1>5. /\ e.target = i /\ e.rev = t.rev + 1 /\ e.prevUrl = t.url /\ e.rev = u.rev
        /\ e.recovered <=> r.kind # "error" /\ t.reported
        /\ r.kind # "error" => e.url = u.url
        /\ e.outcome = "changed" => Changed(t, r)
        /\ e.outcome = "failure" <=> r.kind = "error"
    BY <1>2, <1>3, <1>4 DEF EntryOf, Outcome, Changed, Continues
  <1>6. /\ r.kind = "error" => u.fails = t.fails + 1
        /\ r.kind = "notModified" => u.url = Or(r.url, t.url) /\ u.fails = 0
        /\ r.kind = "ok" => u.url = r.url /\ u.fails = 0 /\ r.url \in Urls
    BY <1>3, UpdatedParts DEF Response, Failed
  <1>7. r.kind \in {"error", "notModified", "ok"}
    BY <1>3 DEF Response, Failed
  <1>8. (FailedRun(e.target, e.rev, T) /\ ~FailedRun(e.target, e.rev, T + 1))'
          => u.fails = T
    <2>1. Counted'
      BY RunsCounted, PTL
    <2>2. targets'[i] = u /\ u.fails \in Nat /\ T \in Nat /\ T + 1 \in Nat
      BY <1>2, MonitorAssumption DEF Core, TypeInv, TypeOK, StoreTypeOK, Target, Live
    <2> HIDE DEF i, u
    <2>3. \A n \in Nat : (FailedRun(e.target, targets[e.target].rev, n)
                            <=> n <= targets[e.target].fails)'
      BY <1>2, <1>5, <2>1 DEF Counted, TypeInv, Ledger
    <2>4. targets'[e.target] = u
      BY <1>5, <2>2
    <2>5. \A n \in Nat : FailedRun(e.target, e.rev, n)' <=> n <= u.fails
      BY <1>5, <2>3, <2>4
    <2> QED
      BY <2>2, <2>5
  <1>9. NoticeKinds(t, r) # {}
    <2>1. t.fails \in Nat /\ T \in Nat \ {0} /\ (t.reported <=> t.fails >= T)
          /\ None \notin Urls
      BY <1>2, <1>3, MonitorAssumption, StoreAssumption DEF Target, Ledger, Alarmed
    <2> HIDE DEF u, t, r, now, i
    <2>2. CASE r.kind = "error"
      <3>1. u.fails = T
        BY <1>5, <1>8, <2>2 DEF Announced
      <3>2. Reached(t)
        BY <1>6, <2>1, <2>2, <3>1 DEF Reached
      <3> QED
        BY <2>2, <3>2 DEF NoticeKinds
    <2>3. CASE r.kind # "error" /\ (Changed(t, r) \/ t.reported)
      BY <2>3 DEF NoticeKinds
    <2>4. CASE r.kind # "error" /\ ~Changed(t, r) /\ ~t.reported
      <3>1. u.fails # T
        BY <1>6, <1>7, <2>1, <2>4
      <3>2. u.url # t.url
        BY <1>5, <1>8, <2>4, <3>1 DEF Announced
      <3>3. MetadataDiffers(t, r)
        BY <1>6, <1>7, <2>1, <2>4, <3>2 DEF MetadataDiffers, Or
      <3> QED
        BY <2>4, <3>3 DEF NoticeKinds
    <2> QED
      BY <2>2, <2>3, <2>4
  <1>10. PICK k \in NoticeKinds(t, r) : TRUE
    BY <1>9
  <1> DEFINE q == [target |-> i, rev |-> t.rev + 1, kind |-> k, at |-> now,
                   to |-> Configured[w]]
  <1>11. q \in Notices(w, t, r, now)
    BY <1>10 DEF Notices
  <1>12. q \in queue'
    BY <1>1, <1>11 DEF CommitTarget
  <1> QED
    BY <1>5, <1>12

LEMMA NextAnnounced ==
    /\ Core /\ TypeInv' /\ Past /\ Past' /\ Ledger /\ Ledger'
    /\ EventsAnnounced /\ [Next]_vars
    => EventsAnnounced'
  <1> SUFFICES ASSUME Core, TypeInv', Past, Past', Ledger, Ledger', EventsAnnounced,
                      [Next]_vars, \A w \in Workers : Configured[w] # {},
                      NEW e \in history', Announced(e)'
               PROVE  \E q \in queue' : q.target = e.target /\ q.rev = e.rev
    BY DEF EventsAnnounced
  <1>1. e \in history /\ Announced(e) =>
          \E q \in queue : q.target = e.target /\ q.rev = e.rev
    BY DEF EventsAnnounced
  <1>2. \A f \in history : f \in Entry /\ f.target \in Live /\ f.rev \in Nat
                           /\ f.rev \in 1..targets[f.target].rev
    BY DEF Core, TypeInv, TypeOK, StoreTypeOK, Entry, Past, NoOrphans, Recorded
  <1>3. CASE UNCHANGED <<history, queue>>
    BY <1>1, <1>3 DEF Announced, FailedRun
  <1>4. CASE UNCHANGED vars \/ Publish \/ Tick \/ UNCHANGED storeVars
    BY <1>3, <1>4 DEF vars, Publish, Tick, storeVars
  <1>5. ASSUME NEW w \in Workers, Quiet(w)
        PROVE  \E q \in queue' : q.target = e.target /\ q.rev = e.rev
    BY <1>3, <1>5, QuietFrame
  <1>6. ASSUME NEW w \in Workers, Commit(w), ~UNCHANGED storeVars
        PROVE  \E q \in queue' : q.target = e.target /\ q.rev = e.rev
    <2>1. CASE e \in history
      <3> DEFINE x == EntryOf(cur[w], resp[w], stamp[w])
      <3>1. /\ history' = history \cup {x} /\ queue \subseteq queue'
            /\ x.target = cur[w].id /\ x.rev = cur[w].rev + 1
        BY <1>6 DEF Commit, CommitTarget, EntryOf
      <3>2. /\ cur[w] \in Target /\ cur[w].id \in Live /\ targets[cur[w].id] = cur[w]
        BY <1>6, CommitFacts DEF Commit
      <3> HIDE DEF x
      <3>3. x.target # e.target \/ (x.rev \in Nat /\ e.rev < x.rev)
        BY <1>2, <2>1, <3>1, <3>2 DEF Target
      <3> QED
        BY <1>1, <1>2, <2>1, <3>1, <3>3, AnnouncedKept
    <2>2. CASE e \notin history
      BY <1>6, <2>2, CommitNotices
    <2> QED
      BY <2>1, <2>2
  <1>7. ASSUME NEW w \in Workers, AddCreate(w), ~UNCHANGED storeVars
        PROVE  \E q \in queue' : q.target = e.target /\ q.rev = e.rev
    <2>1. PICK id \in Ids \ used :
            CreateTarget(Baseline(id, adding[w], resp[w], stamp[w]),
                         BaselineEntry(id, resp[w], stamp[w]))
      BY <1>7 DEF AddCreate
    <2> DEFINE x == BaselineEntry(id, resp[w], stamp[w])
    <2>2. /\ history' = history \cup {x} /\ queue' = queue
          /\ x.target = id /\ x.rev = 1 /\ x.outcome = "baseline" /\ ~x.recovered
      BY <2>1 DEF CreateTarget, BaselineEntry
    <2>3. id \notin Live
      BY DEF Core, Identity
    <2> HIDE DEF x
    <2>4. CASE e \in history
      BY <1>1, <1>2, <2>2, <2>3, <2>4, AnnouncedKept
    <2>5. CASE e = x
      <3>1. ~FailedRun(e.target, e.rev, FailureThreshold)'
        BY <1>2, <2>2, <2>3, <2>5, MonitorAssumption DEF FailedRun
      <3> QED
        BY <2>2, <2>5, <3>1 DEF Announced
    <2> QED
      BY <2>2, <2>4, <2>5
  <1>8. ASSUME NEW w \in Workers, Remove(w)
        PROVE  \E q \in queue' : q.target = e.target /\ q.rev = e.rev
    <2>1. PICK n \in Names : DeleteTarget(n)
      BY <1>8 DEF Remove
    <2> DEFINE id == names[Key[n]]
    <2>2. /\ history' = {f \in history : f.target # id}
          /\ queue' = {q \in queue : q.target # id}
      BY <2>1 DEF DeleteTarget
    <2> HIDE DEF id
    <2>3. Announced(e)' <=> Announced(e)
      BY <2>2 DEF Announced, FailedRun
    <2> QED
      BY <1>1, <2>2, <2>3
  <1> QED
    BY <1>4, <1>5, <1>6, <1>7, <1>8 DEF Next, WorkerStep, Quiet

(* When every process has destinations no event passes unannounced: the     *)
(* transaction that records a change, a recovery, a redirect or the failure *)
(* that reaches the threshold queues its notice (CommitTarget).             *)
THEOREM NoEventUnannounced == Spec => []EventsAnnounced
  <1>1. Init => EventsAnnounced
    BY DEF Init, StoreInit, EventsAnnounced
  <1> QED
    BY <1>1, NextAnnounced, TypeHolds, CoreHolds, PastHolds, LedgerHolds, PTL DEF Spec

(* What a process with destinations records it announces to them in the     *)
(* same transaction, whatever the other processes are configured with.      *)
THEOREM RecordedWithNotice == Spec => AnnouncedWithRecord
  <1> DEFINE A == \A w \in Workers : Configured[w] # {} /\ Commit(w) =>
                    \A e \in history' \ history : Announced(e)' =>
                      \E q \in queue' :
                        q.target = e.target /\ q.rev = e.rev /\ q.to = Configured[w]
  <1>1. /\ Core /\ TypeInv' /\ Past /\ Past' /\ Ledger /\ Ledger' /\ [Next]_vars
        => [A]_vars
    BY CommitNotices
  <1> QED
    BY <1>1, TypeHolds, CoreHolds, PastHolds, LedgerHolds, PTL DEF Spec, AnnouncedWithRecord

--------------------------------------------------------------------------------
(* The diff command beside the processes.                                   *)
LEMMA ReadersKeep == [ReadersNext]_allVars => [Next]_vars
  BY DEF ReadersNext, allVars, Read, Look, Leave, Choose, ChooseLatest, ChooseByID,
         ReadSnapshot, ReadOld, ReadNew, Done

LEMMA ReadersRefine == ReadersSpec => Spec
  <1>1. ReadersInit => Init
    BY DEF ReadersInit
  <1> QED
    BY <1>1, ReadersKeep, PTL DEF ReadersSpec, Spec

(* What no step takes away from a reader.                                   *)
LEMMA StepKeeps ==
    Core /\ [Next]_vars =>
        /\ blobs \subseteq blobs' /\ used \subseteq used'
        /\ Live' \subseteq Live \cup (Ids \ used)
  <1> DEFINE Keeps == /\ blobs \subseteq blobs' /\ used \subseteq used'
                      /\ Live' \subseteq Live \cup (Ids \ used)
  <1> SUFFICES ASSUME Core, [Next]_vars PROVE Keeps
    OBVIOUS
  <1>1. ASSUME UNCHANGED <<targets, used>>, blobs \subseteq blobs' PROVE Keeps
    BY <1>1 DEF Live
  <1>2. CASE UNCHANGED vars \/ Publish \/ Tick \/ UNCHANGED storeVars
    BY <1>1, <1>2 DEF vars, Publish, Tick, storeVars
  <1>3. ASSUME NEW w \in Workers, Quiet(w) PROVE Keeps
    BY <1>1, <1>3, QuietFrame, BlobsGrow DEF WorkerStep, Quiet
  <1>4. ASSUME NEW w \in Workers, Commit(w), ~UNCHANGED storeVars PROVE Keeps
    <2>1. Live' = Live
      BY <1>4, CommitFacts DEF Commit
    <2> QED
      BY <1>4, <2>1 DEF Commit, CommitTarget
  <1>5. ASSUME NEW w \in Workers, AddCreate(w), ~UNCHANGED storeVars PROVE Keeps
    <2>1. PICK id \in Ids \ used :
            CreateTarget(Baseline(id, adding[w], resp[w], stamp[w]),
                         BaselineEntry(id, resp[w], stamp[w]))
      BY <1>5 DEF AddCreate
    <2> QED
      BY <2>1 DEF CreateTarget, Baseline, Live, Core, TypeInv, TypeOK, StoreTypeOK
  <1>6. ASSUME NEW w \in Workers, Remove(w) PROVE Keeps
    <2>1. PICK n \in Names : DeleteTarget(n)
      BY <1>6 DEF Remove
    <2> QED
      BY <2>1 DEF DeleteTarget, Live, Core, TypeInv, TypeOK, StoreTypeOK
  <1> HIDE DEF Keeps
  <1> QED
    BY <1>2, <1>3, <1>4, <1>5, <1>6 DEF Next, WorkerStep, Quiet

(* A change a reader may show: recorded for its subject, both snapshots on  *)
(* disk, and still recorded unless the subject is gone for good.            *)
Chosen(c) ==
    /\ subject \in used
    /\ c.outcome = "changed" /\ c.target = subject
    /\ {c.prev, c.hash} \subseteq blobs
    /\ subject \in Live => c \in history

ReaderInv ==
    /\ ChangesShowable
    /\ stage = "history" => subject \in used
    /\ stage \in {"idle", "history"} => change = None
    /\ stage \in {"old", "new"} => Chosen(change)
    /\ change # None => Chosen(change)

LEMMA NextReader ==
    /\ Core /\ Timely /\ Stored /\ ReaderInv /\ [ReadersNext]_allVars
    => ReaderInv'
  <1> SUFFICES ASSUME Core, Timely, Stored, ReaderInv, [ReadersNext]_allVars
               PROVE  ReaderInv'
    OBVIOUS
  <1>1. CASE UNCHANGED vars /\ UNCHANGED readVars
    BY <1>1 DEF vars, storeVars, readVars, ReaderInv, ChangesShowable, Chosen, Live
  <1>2. CASE Next /\ UNCHANGED readVars
    <2>1. /\ blobs \subseteq blobs' /\ used \subseteq used'
          /\ Live' \subseteq Live \cup (Ids \ used)
      BY <1>2, StepKeeps
    <2>2. [Forward]_vars
      BY <1>2, StepForward
    <2>3. \A i \in Live \cap Live' : \A e \in history : e.target = i => e \in history'
      BY <2>2 DEF Forward, vars, storeVars
    <2>4. Chosen(change) => Chosen(change)'
      BY <1>2, <2>1, <2>3 DEF Chosen, readVars
    <2> QED
      BY <1>2, <2>1, <2>4 DEF ReaderInv, ChangesShowable, readVars
  <1>3. CASE Look
    <2>1. PICK n \in Names : Taken(n) /\ subject' = names[Key[n]]
      BY <1>3 DEF Look
    <2>2. subject' \in used
      BY <2>1, StoreAssumption DEF Taken, Core, NamesIndexed, Identity, Live, TypeInv,
                                   TypeOK, StoreTypeOK
    <2>3. stage = "idle" /\ stage' = "history" /\ used' = used /\ change' = change
      BY <1>3 DEF Look, vars, storeVars
    <2> QED
      BY <2>2, <2>3 DEF ReaderInv, ChangesShowable
  <1>4. ASSUME NEW S \in SUBSET Changes(subject), Choose(S) PROVE ReaderInv'
    <2>1. CASE Leave
      BY <2>1 DEF Leave, ReaderInv, ChangesShowable
    <2>2. ASSUME NEW e \in S, change' = e, stage' = "old", UNCHANGED subject
          PROVE  ReaderInv'
      <3>1. /\ e \in history /\ e.target = subject /\ e.outcome = "changed"
            /\ e.prev # None /\ e.hash \in Contents
        BY DEF Changes, Core, TypeInv, TypeOK, StoreTypeOK, Entry
      <3>2. {e.prev, e.hash} \subseteq blobs
        BY <3>1, StoreAssumption DEF Stored, SnapshotsPresent
      <3>3. UNCHANGED <<targets, history, blobs, used>> /\ subject \in used
        BY <1>4 DEF Choose, vars, storeVars, ReaderInv
      <3>4. Chosen(change)'
        BY <2>2, <3>1, <3>2, <3>3 DEF Chosen
      <3> QED
        BY <2>2, <3>4 DEF ReaderInv, ChangesShowable
    <2> QED
      BY <1>4, <2>1, <2>2 DEF Choose
  <1>5. CASE ReadOld \/ ReadNew
    <2>1. /\ stage' \in {"new", "shown"} /\ Chosen(change)
          /\ UNCHANGED <<targets, history, blobs, used, subject, change>>
      BY <1>5 DEF ReadOld, ReadNew, ReadSnapshot, ReaderInv, Chosen, vars, storeVars
    <2>2. Chosen(change)'
      BY <2>1 DEF Chosen, Live
    <2> QED
      BY <2>1, <2>2 DEF ReaderInv, ChangesShowable
  <1>6. CASE Done
    BY <1>6 DEF Done, Leave, ReaderInv, ChangesShowable
  <1>7. ChooseLatest \/ ChooseByID => \E S \in SUBSET Changes(subject) : Choose(S)
    BY DEF ChooseLatest, ChooseByID, Newest
  <1> QED
    BY <1>1, <1>2, <1>3, <1>4, <1>5, <1>6, <1>7 DEF ReadersNext, Read, allVars

LEMMA ReaderHolds == ReadersSpec => []ReaderInv
  <1>1. ReadersInit => ReaderInv
    BY DEF ReadersInit, ReaderInv, ChangesShowable
  <1> QED
    BY <1>1, NextReader, ReadersRefine, CoreHolds, TimelyHolds, StoredHolds, PTL
       DEF ReadersSpec

(* A change that was recorded can be shown, whatever happens to its target  *)
(* between the reads of the diff command: no step removes a snapshot file.  *)
THEOREM ChangesStayShowable == ReadersSpec => []ChangesShowable
  BY ReaderHolds, PTL DEF ReaderInv

(* What is shown as old is what the entry before the change left, and an    *)
(* entry a reader holds is not rewritten while its target lives.            *)
THEOREM ChangesConnected == ReadersSpec => []ChangeConnected
  <1>1. Core /\ Past /\ Ledger /\ ReaderInv => ChangeConnected
    <2> SUFFICES ASSUME Core, Past, Ledger, ReaderInv, change # None, subject \in Live
                 PROVE  /\ change \in history
                        /\ \E e \in history :
                             /\ e.target = subject
                             /\ e.rev + 1 = change.rev
                             /\ e.hash = change.prev
      BY DEF ChangeConnected
    <2>1. change \in history /\ change.outcome = "changed" /\ change.target = subject
      BY DEF ReaderInv, Chosen
    <2>2. change.rev \in 1..targets[subject].rev /\ targets[subject].rev \in Nat
      BY <2>1 DEF Past, Recorded, Core, TypeInv, TypeOK, StoreTypeOK, Live, Target
    <2>3. change.rev # 1
      BY <2>1 DEF Ledger, StartsPlain
    <2>4. change.rev - 1 \in 1..targets[subject].rev
      BY <2>2, <2>3
    <2>5. PICK e \in history : e.target = subject /\ e.rev = change.rev - 1
      BY <2>4 DEF Past, Complete
    <2>6. e.rev + 1 = change.rev
      BY <2>2, <2>5
    <2> QED
      BY <2>1, <2>5, <2>6 DEF Past, Linked
  <1> QED
    BY <1>1, ReadersRefine, ReaderHolds, CoreHolds, PastHolds, LedgerHolds, PTL

LEMMA LeastExists ==
    ASSUME NEW S \in SUBSET Nat, S # {}
    PROVE  \E x \in S : \A y \in S : x <= y
  <1>1. PICK x \in S : \A y \in S : ~(<<y, x>> \in OpToRel(<, Nat))
    BY NatLessThanWellFounded, WFMin
  <1>2. ASSUME NEW y \in S PROVE x <= y
    <2>1. x \in Nat /\ y \in Nat /\ ~(y < x)
      BY <1>1 DEF OpToRel
    <2> QED
      BY <2>1
  <1> QED
    BY <1>2

LEMMA GreatestExists ==
    ASSUME NEW S \in SUBSET Nat, S # {}, NEW b \in Nat, \A y \in S : y <= b
    PROVE  \E x \in S : \A y \in S : y <= x
  <1> DEFINE D == {b - y : y \in S}
  <1>1. D \in SUBSET Nat /\ D # {}
    <2>1. \A y \in S : b - y \in Nat
      OBVIOUS
    <2>2. PICK y \in S : TRUE
      OBVIOUS
    <2>3. b - y \in D
      OBVIOUS
    <2> QED
      BY <2>1, <2>3
  <1>2. PICK m \in D : \A n \in D : m <= n
    <2> HIDE DEF D
    <2> QED
      BY <1>1, LeastExists
  <1>3. PICK x \in S : m = b - x
    OBVIOUS
  <1>4. ASSUME NEW y \in S PROVE y <= x
    <2>1. b - x <= b - y
      BY <1>2, <1>3
    <2>2. b \in Int /\ x \in Int /\ y \in Int
      OBVIOUS
    <2> QED
      BY <2>1, <2>2
  <1> QED
    BY <1>4

(* The history of a target is bounded in time, so it has a newest change.   *)
LEMMA NewestExists ==
    ASSUME TypeOK, Past, NEW i, Changes(i) # {}
    PROVE  Newest(Changes(i)) # {}
  <1> DEFINE S == {e.at : e \in Changes(i)}
  <1>1. \A e \in Changes(i) : /\ e.at \in Nat /\ i \in Live
                              /\ e.at <= targets[i].checked
    BY DEF Changes, TypeOK, StoreTypeOK, Entry, Past, NoOrphans, Recorded
  <1>2. i \in Live => targets[i].checked \in Nat
    BY DEF TypeOK, StoreTypeOK, Live, Target
  <1>3. S \in SUBSET Nat /\ S # {} /\ \A y \in S : y <= targets[i].checked
    BY <1>1
  <1>4. PICK x \in S : \A y \in S : y <= x
    <2>1. i \in Live
      BY <1>1
    <2> HIDE DEF S
    <2> QED
      BY <1>2, <1>3, <2>1, GreatestExists
  <1>5. PICK e \in Changes(i) : e.at = x
    OBVIOUS
  <1> QED
    BY <1>4, <1>5 DEF Newest

(* The change shown by default is the last one committed, but for changes   *)
(* of the same time: the order of CheckedAt by which History() sorts is the *)
(* commit order.                                                            *)
THEOREM LatestIsChosen == ReadersSpec => LatestChosen
  <1> DEFINE A == ChooseLatest => \A e \in Changes(subject) :
                    change'.rev < e.rev => e.at = change'.at
  <1>1. Core /\ Past => A
    <2> SUFFICES ASSUME Core, Past, ChooseLatest, NEW e \in Changes(subject),
                        change'.rev < e.rev
                 PROVE  e.at = change'.at
      OBVIOUS
    <2>1. Newest(Changes(subject)) # {}
      BY NewestExists DEF Core, TypeInv
    <2>2. PICK g \in Newest(Changes(subject)) : change' = g
      BY <2>1 DEF ChooseLatest, Choose
    <2>3. g \in Changes(subject) /\ e.at <= g.at
      BY <2>2 DEF Newest
    <2>4. g.at <= e.at
      BY <2>2, <2>3 DEF Changes, Past, HistoryTimeOrdered
    <2>5. e.at \in Nat /\ g.at \in Nat
      BY <2>3 DEF Changes, Core, TypeInv, TypeOK, StoreTypeOK, Entry
    <2> QED
      BY <2>2, <2>3, <2>4, <2>5
  <1>2. Core /\ Past /\ [ReadersNext]_allVars => [A]_allVars
    BY <1>1
  <1> QED
    BY <1>2, ReadersRefine, CoreHolds, PastHolds, PTL DEF ReadersSpec, LatestChosen

================================================================================
