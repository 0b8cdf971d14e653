----------------------------- MODULE MonitorHistory -----------------------------
(****************************************************************************)
(* Proofs about what Monitor stores over time: the snapshot files, and the  *)
(* history and queue of each target.                                        *)
(****************************************************************************)
EXTENDS MonitorProofs

(* A step of one worker leaves the others where they are.                   *)
LEMMA OthersKeep ==
    ASSUME TypeInv, NEW w \in Workers, WorkerStep(w)
    PROVE  \A v \in Workers \ {w} :
             /\ pc'[v] = pc[v] /\ cur'[v] = cur[v] /\ todo'[v] = todo[v]
             /\ resp'[v] = resp[v] /\ stamp'[v] = stamp[v]
  <1> DEFINE Kept == \A v \in Workers \ {w} :
             /\ pc'[v] = pc[v] /\ cur'[v] = cur[v] /\ todo'[v] = todo[v]
             /\ resp'[v] = resp[v] /\ stamp'[v] = stamp[v]
  <1>1. CASE Finish(w)
    BY <1>1 DEF Finish, TypeInv, TypeOK, WorkTypeOK
  <1>2. ASSUME NEW S, Advance(w, S) PROVE Kept
    BY <1>1, <1>2 DEF Advance, TypeInv, TypeOK, WorkTypeOK
  <1> HIDE DEF Kept
  <1>3. CASE StartCheck(w)
    BY <1>2, <1>3 DEF StartCheck, Goto, TypeInv, TypeOK, WorkTypeOK, Kept
  <1>4. CASE SelectDue(w) \/ IOError(w)
    <2>1. PICK S : Advance(w, S)
      BY <1>4, Zenon DEF SelectDue, IOError
    <2>2. Kept
      BY <1>2, <2>1
    <2> QED
      BY <2>2 DEF Kept
  <1>5. CASE Cancel(w) \/ Crash(w) \/ AddCreate(w)
    BY <1>1, <1>5 DEF Cancel, Crash, AddCreate, Kept
  <1>6. CASE Fetch(w) \/ Apply(w) \/ StartAdd(w) \/ AddPut(w)
    BY <1>6 DEF Fetch, Apply, StartAdd, AddPut, Goto, TypeInv, TypeOK, WorkTypeOK, Kept
  <1>7. CASE Report(w) \/ Commit(w) \/ Reload(w)
    <2>1. \/ Advance(w, todo[w])
          \/ \E l : Goto(w, l) /\ UNCHANGED <<cur, todo, resp, stamp>>
          \/ /\ Goto(w, "fetch")
             /\ cur' = [cur EXCEPT ![w] = targets[cur[w].id]]
             /\ resp' = [resp EXCEPT ![w] = None]
             /\ stamp' = [stamp EXCEPT ![w] = 0]
             /\ UNCHANGED todo
      BY <1>7, Zenon DEF Report, Commit, Reload
    <2> QED
      BY <1>2, <2>1 DEF Goto, TypeInv, TypeOK, WorkTypeOK, Kept
  <1>8. CASE AddFetch(w)
    BY <1>1, <1>8 DEF AddFetch, Goto, TypeInv, TypeOK, WorkTypeOK, Kept
  <1>9. CASE Remove(w)
    BY <1>9 DEF Remove, workVars, Kept
  <1> QED
    BY <1>3, <1>4, <1>5, <1>6, <1>7, <1>8, <1>9 DEF WorkerStep, Kept

--------------------------------------------------------------------------------
(* Snapshots.  What a worker may yet commit has its file already: the copy  *)
(* it works from, and past Apply (AddPut) the content it fetched.           *)
Backed(w) ==
    /\ \A c \in Held(w) : c.hash \in blobs
    /\ pc[w] \in {"report", "commit"} /\ Changed(cur[w], resp[w])
         => resp[w].content \in blobs
    /\ pc[w] = "addCreate" => resp[w].content \in blobs

Stored == SnapshotsPresent /\ \A w \in Workers : Backed(w)

(* No step removes a snapshot file.                                         *)
LEMMA BlobsGrow ==
    ASSUME NEW w \in Workers, WorkerStep(w)
    PROVE  blobs \subseteq blobs'
  BY DEF WorkerStep, StartCheck, SelectDue, Fetch, Apply, Report, Commit, Reload,
         Cancel, StartAdd, AddFetch, AddPut, AddCreate, Remove, IOError, Crash,
         PutSnapshot, CommitTarget, CreateTarget, DeleteTarget, storeVars

LEMMA BackedOthers ==
    ASSUME TypeInv, NEW w \in Workers, WorkerStep(w),
           NEW v \in Workers \ {w}, Backed(v)
    PROVE  Backed(v)'
  <1>1. /\ pc'[v] = pc[v] /\ cur'[v] = cur[v] /\ todo'[v] = todo[v]
        /\ resp'[v] = resp[v]
    BY OthersKeep
  <1>2. blobs \subseteq blobs'
    BY BlobsGrow
  <1> QED
    BY <1>1, <1>2 DEF Backed, Held, Changed

(* Where a worker that finishes or moves on stands.                         *)
LEMMA AdvancePoint ==
    ASSUME TypeInv, NEW w \in Workers, NEW S, Advance(w, S) \/ Finish(w)
    PROVE  pc'[w] \in {"idle", "fetch"}
  BY DEF Advance, Finish, TypeInv, TypeOK, WorkTypeOK

LEMMA BackedQuiet ==
    ASSUME Core, Stored, NEW w \in Workers, Quiet(w)
    PROVE  Backed(w)'
  <1>1. TypeInv /\ WorkerStep(w)
    BY DEF Core, Quiet, WorkerStep
  <1>2. blobs \subseteq blobs'
    BY <1>1, BlobsGrow
  <1>3. \A c \in Held(w)' : c.hash \in blobs'
    BY <1>1, <1>2, QuietHolds DEF HoldsKnown, Stored, Backed, SnapshotsPresent
  <1>4. CASE pc'[w] \notin {"report", "commit", "addCreate"}
    BY <1>3, <1>4 DEF Backed
  <1>5. CASE Apply(w)
    BY <1>3, <1>5 DEF Apply, PutSnapshot, Goto, Backed, Changed, TypeInv, TypeOK,
                      WorkTypeOK, Core
  <1>6. CASE AddPut(w)
    BY <1>3, <1>6 DEF AddPut, PutSnapshot, Goto, Backed, Core, TypeInv, TypeOK,
                      WorkTypeOK
  <1>7. CASE Report(w) /\ UNCHANGED <<cur, resp>>
    <2>1. pc[w] = "report" /\ (pc'[w] = "commit" \/ pc'[w] \in {"idle", "fetch"})
      BY <1>1, <1>7, AdvancePoint DEF Report, Goto, TypeInv, TypeOK, WorkTypeOK
    <2> QED
      BY <1>2, <1>3, <1>7, <2>1 DEF Backed, Stored, Changed
  <1>8. \/ pc'[w] \notin {"report", "commit", "addCreate"}
        \/ Apply(w) \/ AddPut(w) \/ (Report(w) /\ UNCHANGED <<cur, resp>>)
    <2>1. \/ pc'[w] \notin {"report", "commit", "addCreate"}
          \/ Advance(w, todo[w]) \/ Finish(w)
          \/ (\E S : Advance(w, S))
          \/ Apply(w) \/ AddPut(w) \/ (Report(w) /\ UNCHANGED <<cur, resp>>)
      BY <1>1 DEF Quiet, StartCheck, SelectDue, Fetch, Report, Reload, Cancel,
                  StartAdd, AddFetch, IOError, Crash, Goto, TypeInv, TypeOK, WorkTypeOK
    <2> QED
      BY <1>1, <2>1, AdvancePoint
  <1> QED
    BY <1>4, <1>5, <1>6, <1>7, <1>8

LEMMA QuietStored ==
    ASSUME Core, Stored, NEW w \in Workers, Quiet(w)
    PROVE  Stored'
  <1>1. TypeInv /\ WorkerStep(w)
    BY DEF Core, Quiet, WorkerStep
  <1>2. \A v \in Workers : Backed(v)'
    BY <1>1, BackedQuiet, BackedOthers DEF Stored
  <1>3. SnapshotsPresent'
    BY <1>1, BlobsGrow, QuietFrame DEF Stored, SnapshotsPresent, Live
  <1> QED
    BY <1>2, <1>3 DEF Stored

(* What a committing check and its record have to do with each other.       *)
LEMMA CommitFacts ==
    ASSUME Core, NEW w \in Workers, pc[w] = "commit",
           CommitTarget(Updated(cur[w], resp[w], stamp[w]), cur[w].rev,
                        EntryOf(cur[w], resp[w], stamp[w]),
                        Notices(w, cur[w], resp[w], stamp[w]))
    PROVE  /\ cur[w] \in Held(w) /\ cur[w] \in Target /\ resp[w] \in Response
           /\ stamp[w] \in Nat
           /\ cur[w].id \in Live /\ targets[cur[w].id] = cur[w]
           /\ Successor(Updated(cur[w], resp[w], stamp[w]), cur[w], stamp[w],
                        IF Changed(cur[w], resp[w]) THEN resp[w].content
                        ELSE cur[w].hash)
           /\ targets' = [targets EXCEPT ![cur[w].id] =
                            Updated(cur[w], resp[w], stamp[w])]
           /\ Live' = Live
  <1> DEFINE u == Updated(cur[w], resp[w], stamp[w])
  <1>1. cur[w] \in Target /\ resp[w] \in Response /\ stamp[w] \in Nat
    BY DEF Core, TypeInv, TypeOK, WorkTypeOK, Shape
  <1>2. Successor(u, cur[w], stamp[w],
                  IF Changed(cur[w], resp[w]) THEN resp[w].content ELSE cur[w].hash)
    BY <1>1, UpdatedType
  <1>3. cur[w].id \in Live /\ targets[cur[w].id] = cur[w]
    BY <1>2, CommitReplaces DEF Successor
  <1>4. targets' = [targets EXCEPT ![cur[w].id] = u]
    BY <1>2 DEF CommitTarget, Successor
  <1>5. u \in Target
    BY <1>2 DEF Successor
  <1> HIDE DEF u
  <1>6. Live' = Live
    BY <1>3, <1>4, <1>5, NoneAssumption DEF Live, Core, TypeInv, TypeOK, StoreTypeOK
  <1>7. cur[w] \in Held(w)
    BY <1>1, NoneAssumption DEF Held
  <1> QED
    BY <1>1, <1>2, <1>3, <1>4, <1>6, <1>7 DEF u

LEMMA CommitStored ==
    ASSUME Core, Stored, NEW w \in Workers, Commit(w)
    PROVE  Stored'
  <1> DEFINE t == cur[w]
             r == resp[w]
             now == stamp[w]
  <1>1. TypeInv /\ WorkerStep(w)
    BY DEF Core, WorkerStep
  <1>2. blobs' = blobs
    BY DEF Commit, CommitTarget, storeVars
  <1>3. Backed(w)'
    <2>1. CASE Advance(w, todo[w])
      <3>1. HoldsKnown(w) /\ pc'[w] \in {"idle", "fetch"}
        BY <1>1, <2>1, ShrinkHolds, AdvancePoint
      <3> QED
        BY <1>2, <3>1 DEF Backed, HoldsKnown, Stored, SnapshotsPresent
    <2>2. CASE Goto(w, "reload") /\ UNCHANGED <<cur, todo, resp>>
      <3>1. pc'[w] = "reload"
        BY <1>1, <2>2 DEF Goto, TypeInv, TypeOK, WorkTypeOK
      <3> QED
        BY <1>2, <2>2, <3>1 DEF Backed, Held, Stored
    <2> QED
      BY <2>1, <2>2 DEF Commit
  <1>4. \A v \in Workers : Backed(v)'
    BY <1>1, <1>3, BackedOthers DEF Stored
  <1>5. SnapshotsPresent'
    <2>1. CASE UNCHANGED storeVars
      BY <2>1 DEF Stored, SnapshotsPresent, Live, storeVars
    <2>2. CASE CommitTarget(Updated(t, r, now), t.rev, EntryOf(t, r, now),
                            Notices(w, t, r, now))
      <3> DEFINE u == Updated(t, r, now)
                 e == EntryOf(t, r, now)
      <3>1. /\ t \in Held(w) /\ u.hash = (IF Changed(t, r) THEN r.content ELSE t.hash)
            /\ targets' = [targets EXCEPT ![t.id] = u] /\ Live' = Live
            /\ t.id \in Live
        BY <2>2, CommitFacts DEF Commit, Successor
      <3>2. u.hash \in blobs /\ t.hash \in blobs
        BY <3>1 DEF Stored, Backed, Commit
      <3>3. history' = history \cup {e} /\ e.hash = u.hash /\ e.prev \in {None, t.hash}
        BY <2>2 DEF CommitTarget, EntryOf
      <3> HIDE DEF u, e
      <3>4. \A i \in Live' : targets'[i].hash \in blobs
        BY <3>1, <3>2 DEF Stored, SnapshotsPresent, Live, TypeInv, TypeOK,
                          StoreTypeOK, Core
      <3>5. \A f \in history' : {f.hash, f.prev} \ {None} \subseteq blobs
        BY <3>2, <3>3 DEF Stored, SnapshotsPresent
      <3> QED
        BY <1>2, <3>4, <3>5 DEF SnapshotsPresent
    <2> QED
      BY <2>1, <2>2 DEF Commit
  <1> QED
    BY <1>4, <1>5 DEF Stored

LEMMA AddCreateStored ==
    ASSUME Core, Stored, NEW w \in Workers, AddCreate(w)
    PROVE  Stored'
  <1>1. TypeInv /\ WorkerStep(w)
    BY DEF Core, WorkerStep
  <1>2. blobs' = blobs
    BY DEF AddCreate, CreateTarget, storeVars
  <1>3. Backed(w)'
    <2>1. Held(w)' = {} /\ pc'[w] \in {"idle", "fetch"}
      BY <1>1, FinishHolds, AdvancePoint DEF AddCreate, TypeInv, TypeOK
    <2> QED
      BY <2>1 DEF Backed
  <1>4. \A v \in Workers : Backed(v)'
    BY <1>1, <1>3, BackedOthers DEF Stored
  <1>5. SnapshotsPresent'
    <2>1. CASE UNCHANGED storeVars
      BY <2>1 DEF Stored, SnapshotsPresent, Live, storeVars
    <2>2. ASSUME NEW id \in Ids \ used,
                 CreateTarget(Baseline(id, adding[w], resp[w], stamp[w]),
                              BaselineEntry(id, resp[w], stamp[w]))
          PROVE  SnapshotsPresent'
      <3> DEFINE u == Baseline(id, adding[w], resp[w], stamp[w])
                 e == BaselineEntry(id, resp[w], stamp[w])
      <3>1. u.hash = resp[w].content /\ e.hash = u.hash /\ e.prev = None /\ u.id = id
        BY DEF Baseline, BaselineEntry
      <3>2. u.hash \in blobs
        BY <3>1 DEF Stored, Backed, AddCreate
      <3>3. history' = history \cup {e} /\ targets' = [targets EXCEPT ![id] = u]
        BY <2>2, <3>1 DEF CreateTarget
      <3> HIDE DEF u, e
      <3>4. \A i \in Live' : targets'[i].hash \in blobs
        BY <3>2, <3>3 DEF Stored, SnapshotsPresent, Live, TypeInv, TypeOK,
                          StoreTypeOK, Core
      <3> QED
        BY <1>2, <3>1, <3>2, <3>3, <3>4 DEF Stored, SnapshotsPresent
    <2> QED
      BY <2>1, <2>2 DEF AddCreate
  <1> QED
    BY <1>4, <1>5 DEF Stored

LEMMA RemoveStored ==
    ASSUME Core, Stored, NEW w \in Workers, Remove(w)
    PROVE  Stored'
  <1>1. PICK n \in Names : DeleteTarget(n)
    BY DEF Remove
  <1>2. /\ blobs' = blobs /\ history' \subseteq history
        /\ \A i \in Live' : i \in Live /\ targets'[i] = targets[i]
    BY <1>1 DEF DeleteTarget, Live, Core, TypeInv, TypeOK, StoreTypeOK
  <1>3. SnapshotsPresent'
    BY <1>2 DEF Stored, SnapshotsPresent
  <1>4. \A v \in Workers : Backed(v)'
    BY <1>2 DEF Remove, workVars, Stored, Backed, Held, Changed
  <1> QED
    BY <1>3, <1>4 DEF Stored

LEMMA NextStored == Core /\ Stored /\ [Next]_vars => Stored'
  <1> SUFFICES ASSUME Core, Stored, [Next]_vars PROVE Stored'
    OBVIOUS
  <1>1. CASE UNCHANGED vars \/ Publish \/ Tick
    BY <1>1 DEF vars, Publish, Tick, storeVars, workVars, Stored, Backed, Held,
                Changed, SnapshotsPresent, Live
  <1>2. ASSUME NEW w \in Workers, WorkerStep(w) PROVE Stored'
    BY <1>2, QuietStored, CommitStored, AddCreateStored, RemoveStored
       DEF WorkerStep, Quiet
  <1> QED
    BY <1>1, <1>2 DEF Next

LEMMA StoredHolds == Spec => []Stored
  <1>1. Init => Stored
    BY DEF Init, StoreInit, Stored, Backed, Held, SnapshotsPresent, Live
  <1> QED
    BY <1>1, NextStored, CoreHolds, PTL DEF Spec

(* Every hash in a target or in the history has its snapshot file: the file *)
(* is written before the commit that refers to it (PutSnapshot in check and *)
(* Add), and no command deletes one.                                        *)
THEOREM SnapshotsStay == Spec => []SnapshotsPresent
  BY StoredHolds, PTL DEF Stored

--------------------------------------------------------------------------------
(* Time.  Nothing is stamped in the future, and a check is stamped after    *)
(* the record it works from, which is why the order of revisions is also    *)
(* the order of time.                                                       *)
Timed(w) ==
    /\ stamp[w] <= clock
    /\ \A c \in Held(w) : c.checked <= clock
    /\ pc[w] \in {"report", "commit"} => cur[w].checked <= stamp[w]

Timely ==
    /\ \A i \in Live : targets[i].checked <= clock
    /\ \A w \in Workers : Timed(w)

LEMMA TimedOthers ==
    ASSUME TypeInv, NEW w \in Workers, WorkerStep(w), clock' = clock,
           NEW v \in Workers \ {w}, Timed(v)
    PROVE  Timed(v)'
  <1>1. /\ pc'[v] = pc[v] /\ cur'[v] = cur[v] /\ todo'[v] = todo[v]
        /\ stamp'[v] = stamp[v]
    BY OthersKeep
  <1> QED
    BY <1>1 DEF Timed, Held

LEMMA AdvanceStamp ==
    ASSUME TypeInv, NEW w \in Workers, NEW S, Advance(w, S) \/ Finish(w)
    PROVE  stamp'[w] = 0
  BY DEF Advance, Finish, TypeInv, TypeOK, WorkTypeOK

LEMMA MoveTimed ==
    ASSUME TypeInv, Timely, NEW w \in Workers, HoldsKnown(w), clock' = clock,
           NEW S, Advance(w, S) \/ Finish(w)
    PROVE  Timed(w)'
  <1>1. stamp'[w] = 0 /\ pc'[w] \in {"idle", "fetch"}
    BY AdvanceStamp, AdvancePoint
  <1>2. clock \in Nat
    BY DEF TypeInv, TypeOK
  <1> QED
    BY <1>1, <1>2 DEF Timed, Timely, HoldsKnown

LEMMA QuietTimed ==
    ASSUME Core, Timely, NEW w \in Workers, Quiet(w)
    PROVE  Timed(w)'
  <1>1. TypeInv /\ WorkerStep(w) /\ clock' = clock /\ targets' = targets
    BY QuietFrame DEF Core, Quiet, WorkerStep
  <1>2. HoldsKnown(w)
    BY <1>1, QuietHolds
  <1>3. \A c \in Held(w)' : c.checked <= clock
    BY <1>2 DEF HoldsKnown, Timely, Timed
  <1>4. stamp[w] \in Nat /\ clock \in Nat /\ stamp \in [Workers -> Nat]
        /\ pc \in [Workers -> Labels]
    BY <1>1 DEF TypeInv, TypeOK, WorkTypeOK
  <1>5. CASE \E S : Advance(w, S) \/ Finish(w)
    BY <1>1, <1>2, <1>5, MoveTimed
  <1>6. CASE UNCHANGED stamp /\ pc'[w] \notin {"report", "commit"}
    BY <1>1, <1>3, <1>6 DEF Timed, Timely
  <1>7. CASE Apply(w)
    <2>1. stamp'[w] = clock
      BY <1>4, <1>7 DEF Apply
    <2>2. cur' = cur /\ cur[w] \in Held(w)
      BY <1>1, <1>7, NoneAssumption DEF Apply, Held, TypeInv, Shape
    <2>3. cur[w].checked <= clock
      BY <2>2 DEF Timely, Timed
    <2> QED
      BY <1>1, <1>3, <1>4, <2>1, <2>2, <2>3 DEF Timed
  <1>8. CASE AddPut(w)
    <2>1. stamp'[w] = clock /\ pc'[w] = "addCreate"
      BY <1>4, <1>8 DEF AddPut, Goto
    <2> QED
      BY <1>1, <1>3, <1>4, <2>1 DEF Timed
  <1>9. CASE pc[w] = "report" /\ UNCHANGED <<cur, stamp>>
    BY <1>1, <1>3, <1>9 DEF Timed, Timely
  <1>10. CASE Reload(w) /\ stamp' = [stamp EXCEPT ![w] = 0] /\ Goto(w, "fetch")
    <2>1. stamp'[w] = 0 /\ pc'[w] = "fetch"
      BY <1>4, <1>10 DEF Goto
    <2> QED
      BY <1>1, <1>3, <1>4, <2>1 DEF Timed
  <1>11. \/ \E S : Advance(w, S) \/ Finish(w)
         \/ UNCHANGED stamp /\ pc'[w] \notin {"report", "commit"}
         \/ Apply(w) \/ AddPut(w)
         \/ pc[w] = "report" /\ UNCHANGED <<cur, stamp>>
         \/ Reload(w) /\ stamp' = [stamp EXCEPT ![w] = 0] /\ Goto(w, "fetch")
    <2>1. CASE StartCheck(w)
      BY <1>4, <2>1 DEF StartCheck, Goto
    <2>2. CASE SelectDue(w) \/ Cancel(w) \/ IOError(w) \/ Crash(w) \/ Reload(w)
               \/ Report(w)
      BY <2>2, Zenon DEF SelectDue, Cancel, IOError, Crash, Reload, Report
    <2>3. CASE Fetch(w) \/ StartAdd(w) \/ AddFetch(w)
      BY <1>4, <2>3 DEF Fetch, StartAdd, AddFetch, Goto
    <2> QED
      BY <2>1, <2>2, <2>3 DEF Quiet
  <1> QED
    BY <1>5, <1>6, <1>7, <1>8, <1>9, <1>10, <1>11

LEMMA QuietTimely ==
    ASSUME Core, Timely, NEW w \in Workers, Quiet(w)
    PROVE  Timely'
  <1>1. TypeInv /\ WorkerStep(w) /\ clock' = clock /\ targets' = targets
    BY QuietFrame DEF Core, Quiet, WorkerStep
  <1>2. \A v \in Workers : Timed(v)'
    BY <1>1, QuietTimed, TimedOthers DEF Timely
  <1> QED
    BY <1>1, <1>2 DEF Timely, Live

LEMMA StoreTimely ==
    ASSUME Core, Timely, NEW w \in Workers,
           Commit(w) \/ AddCreate(w) \/ Remove(w)
    PROVE  Timely'
  <1>1. TypeInv /\ WorkerStep(w) /\ clock' = clock
    BY DEF Core, WorkerStep, Commit, AddCreate, Remove
  <1>2. Timed(w)'
    <2>1. CASE Commit(w)
      <3>1. CASE Advance(w, todo[w])
        BY <1>1, <3>1, ShrinkHolds, MoveTimed
      <3>2. CASE Goto(w, "reload") /\ UNCHANGED <<cur, todo, stamp>>
        <4>1. pc'[w] = "reload"
          BY <1>1, <3>2 DEF Goto, TypeInv, TypeOK, WorkTypeOK
        <4> QED
          BY <1>1, <3>2, <4>1 DEF Timed, Timely, Held
      <3> QED
        BY <2>1, <3>1, <3>2 DEF Commit
    <2>2. CASE AddCreate(w)
      <3>1. Finish(w) /\ HoldsKnown(w)
        BY <1>1, <2>2, FinishHolds DEF AddCreate, HoldsKnown, TypeInv, TypeOK
      <3> QED
        BY <1>1, <3>1, MoveTimed
    <2>3. CASE Remove(w)
      BY <2>3 DEF Remove, workVars, Timed, Timely, Held
    <2> QED
      BY <2>1, <2>2, <2>3
  <1>3. \A v \in Workers : Timed(v)'
    BY <1>1, <1>2, TimedOthers DEF Timely
  <1>4. \A i \in Live' : targets'[i].checked <= clock
    <2>1. CASE UNCHANGED storeVars
      BY <2>1 DEF storeVars, Timely, Live
    <2>2. CASE Commit(w) /\ ~UNCHANGED storeVars
      <3> DEFINE u == Updated(cur[w], resp[w], stamp[w])
      <3>1. /\ Successor(u, cur[w], stamp[w],
                         IF Changed(cur[w], resp[w]) THEN resp[w].content
                         ELSE cur[w].hash)
            /\ targets' = [targets EXCEPT ![cur[w].id] = u] /\ Live' = Live
        BY <2>2, CommitFacts DEF Commit
      <3>2. u.checked <= clock
        BY <3>1 DEF Successor, Timely, Timed
      <3> HIDE DEF u
      <3> QED
        BY <3>1, <3>2 DEF Timely, Live, Core, TypeInv, TypeOK, StoreTypeOK
    <2>3. CASE AddCreate(w) /\ ~UNCHANGED storeVars
      <3>1. PICK id \in Ids \ used :
              CreateTarget(Baseline(id, adding[w], resp[w], stamp[w]),
                           BaselineEntry(id, resp[w], stamp[w]))
        BY <2>3 DEF AddCreate
      <3> DEFINE u == Baseline(id, adding[w], resp[w], stamp[w])
      <3>2. u.checked <= clock /\ u.id = id
        BY DEF Baseline, Timely, Timed
      <3>3. targets' = [targets EXCEPT ![id] = u]
        BY <3>1, <3>2 DEF CreateTarget
      <3> HIDE DEF u
      <3> QED
        BY <3>2, <3>3 DEF Timely, Live, Core, TypeInv, TypeOK, StoreTypeOK
    <2>4. CASE Remove(w)
      <3>1. PICK n \in Names : DeleteTarget(n)
        BY <2>4 DEF Remove
      <3> QED
        BY <3>1 DEF DeleteTarget, Timely, Live, Core, TypeInv, TypeOK, StoreTypeOK
    <2> QED
      BY <2>1, <2>2, <2>3, <2>4
  <1> QED
    BY <1>1, <1>3, <1>4 DEF Timely

LEMMA NextTimely == Core /\ Timely /\ [Next]_vars => Timely'
  <1> SUFFICES ASSUME Core, Timely, [Next]_vars PROVE Timely'
    OBVIOUS
  <1>1. CASE UNCHANGED vars \/ Publish
    BY <1>1 DEF vars, Publish, storeVars, workVars, Timely, Timed, Held, Live
  <1>2. CASE Tick
    <2>1. /\ clock \in Nat /\ stamp \in [Workers -> Nat]
          /\ \A i \in Live : targets[i].checked \in Nat
          /\ \A w \in Workers : \A c \in Held(w) : c.checked \in Nat
      BY DEF Core, TypeInv, TypeOK, StoreTypeOK, WorkTypeOK, Live, Held, Target
    <2> QED
      BY <1>2, <2>1 DEF Tick, storeVars, workVars, Timely, Timed, Held, Live
  <1>3. ASSUME NEW w \in Workers, WorkerStep(w) PROVE Timely'
    BY <1>3, QuietTimely, StoreTimely DEF WorkerStep, Quiet
  <1> QED
    BY <1>1, <1>2, <1>3 DEF Next

LEMMA TimelyHolds == Spec => []Timely
  <1>1. Init => Timely
    BY DEF Init, StoreInit, Timely, Timed, Held, Live
  <1> QED
    BY <1>1, NextTimely, CoreHolds, PTL DEF Spec

--------------------------------------------------------------------------------
(* History.  The parts of HistoryChain one by one, with what keeps them     *)
(* true: no entry is ahead of its target, in revision or in time.           *)
Recorded ==
    \A e \in history :
        /\ e.rev \in 1..targets[e.target].rev
        /\ e.at <= targets[e.target].checked

Complete ==
    \A i \in Live : \A k \in 1..targets[i].rev :
        \E e \in history : e.target = i /\ e.rev = k

Latest ==
    \A i \in Live : \A e \in history : e.target = i /\ e.rev = targets[i].rev =>
        e.hash = targets[i].hash /\ e.at = targets[i].checked

Linked ==
    \A e, f \in history : e.target = f.target =>
        /\ e.rev = f.rev => e = f
        /\ f.rev = e.rev + 1 =>
             IF f.outcome = "failure" THEN f.hash = e.hash ELSE f.prev = e.hash

Past ==
    /\ NoOrphans /\ Recorded /\ Complete /\ Latest /\ Linked
    /\ HistoryTimeOrdered

LEMMA PastChain == TypeOK /\ Past => HistoryChain
  <1> SUFFICES ASSUME TypeOK, Past PROVE HistoryChain
    OBVIOUS
  <1>1. ASSUME NEW i \in Live
        PROVE  {e.rev : e \in {h \in history : h.target = i}} = 1..targets[i].rev
    <2>1. \A e \in history : e.target = i => e.rev \in 1..targets[i].rev
      BY DEF Past, Recorded
    <2>2. \A k \in 1..targets[i].rev : \E e \in history : e.target = i /\ e.rev = k
      BY DEF Past, Complete
    <2> QED
      BY <2>1, <2>2
  <1> QED
    BY <1>1 DEF Past, Latest, Linked, HistoryChain

(* A transaction that moves target i one revision on, with one entry.       *)
LEMMA AppendPast ==
    ASSUME Core, Past, NEW i \in Live, NEW u \in Target, NEW e \in Entry,
           targets' = [targets EXCEPT ![i] = u], Live' = Live,
           history' = history \cup {e},
           \A q \in queue' : q \in queue \/ q.target = i,
           e.target = i, u.rev = targets[i].rev + 1, e.rev = u.rev,
           e.at = u.checked, targets[i].checked <= e.at, e.hash = u.hash,
           IF e.outcome = "failure" THEN e.hash = targets[i].hash
                                    ELSE e.prev = targets[i].hash
    PROVE  Past'
  <1>1. /\ targets'[i] = u /\ \A j \in Live \ {i} : targets'[j] = targets[j]
        /\ \A j \in Live : targets[j] \in Target /\ targets[j].rev \in Nat
                          /\ targets[j].checked \in Nat
    BY DEF Core, TypeInv, TypeOK, StoreTypeOK, Live, Target
  <1>2. /\ \A f \in history : f \in Entry /\ f.rev \in Nat /\ f.at \in Nat
        /\ u.rev \in Nat /\ u.checked \in Nat
    BY DEF Core, TypeInv, TypeOK, StoreTypeOK, Entry, Target
  <1>3. \A f \in history : f.target \in Live
    BY DEF Past, NoOrphans
  <1>4. \A f \in history : f.target = i =>
          f.rev <= targets[i].rev /\ f.rev < e.rev /\ f.at <= e.at
    BY <1>1, <1>2 DEF Past, Recorded
  <1>5. NoOrphans'
    BY DEF Past, NoOrphans
  <1>6. Recorded'
    BY <1>1, <1>2, <1>3, <1>4 DEF Past, Recorded
  <1>7. Complete'
    <2>1. ASSUME NEW j \in Live, NEW k \in 1..targets'[j].rev
          PROVE  \E f \in history' : f.target = j /\ f.rev = k
      <3>1. CASE j = i /\ k = u.rev
        BY <3>1
      <3>2. CASE k \in 1..targets[j].rev
        BY <3>2 DEF Past, Complete
      <3> QED
        BY <1>1, <1>2, <3>1, <3>2
    <2> QED
      BY <2>1 DEF Complete
  <1>8. Latest'
    BY <1>1, <1>2, <1>4 DEF Past, Latest
  <1>9. Linked'
    <2>1. ASSUME NEW f \in history, f.target = i PROVE f.rev # e.rev
      BY <1>2, <1>4, <2>1
    <2>2. ASSUME NEW f \in history, f.target = i, e.rev = f.rev + 1
          PROVE  IF e.outcome = "failure" THEN e.hash = f.hash ELSE e.prev = f.hash
      <3>1. f.rev = targets[i].rev
        BY <1>1, <1>2, <2>2
      <3>2. f.hash = targets[i].hash
        BY <2>2, <3>1 DEF Past, Latest
      <3> QED
        BY <3>2
    <2>3. ASSUME NEW f \in history, f.target = i PROVE f.rev # e.rev + 1
      BY <1>2, <1>4, <2>3
    <2> QED
      BY <1>2, <2>1, <2>2, <2>3 DEF Past, Linked
  <1>10. HistoryTimeOrdered'
    BY <1>2, <1>4 DEF Past, HistoryTimeOrdered
  <1> QED
    BY <1>5, <1>6, <1>7, <1>8, <1>9, <1>10 DEF Past

LEMMA CommitPast ==
    ASSUME Core, Timely, Past, NEW w \in Workers, Commit(w), ~UNCHANGED storeVars
    PROVE  Past'
  <1> DEFINE t == cur[w]
             r == resp[w]
             now == stamp[w]
             u == Updated(t, r, now)
             e == EntryOf(t, r, now)
  <1>1. CommitTarget(u, t.rev, e, Notices(w, t, r, now)) /\ pc[w] = "commit"
    BY DEF Commit
  <1>2. /\ t \in Target /\ r \in Response /\ now \in Nat
        /\ t.id \in Live /\ targets[t.id] = t
        /\ Successor(u, t, now, IF Changed(t, r) THEN r.content ELSE t.hash)
        /\ targets' = [targets EXCEPT ![t.id] = u] /\ Live' = Live
    BY <1>1, CommitFacts
  <1>3. u \in Target /\ u.rev = t.rev + 1 /\ u.checked = now
    BY <1>2 DEF Successor
  <1>4. e \in Entry
    BY <1>2, EntryType
  <1>5. e.target = t.id /\ e.rev = t.rev + 1 /\ e.at = now /\ e.hash = u.hash
    BY DEF EntryOf
  <1>6. t.checked <= now
    BY <1>1 DEF Timely, Timed
  <1>7. IF e.outcome = "failure" THEN e.hash = t.hash ELSE e.prev = t.hash
    <2>1. CASE r.kind = "error"
      <3>1. e.outcome = "failure" /\ u.hash = t.hash
        BY <1>2, <2>1 DEF EntryOf, Outcome, Changed, Successor
      <3> QED
        BY <1>5, <3>1
    <2>2. CASE r.kind # "error"
      BY <2>2 DEF EntryOf, Outcome
    <2> QED
      BY <2>1, <2>2
  <1>8. /\ history' = history \cup {e}
        /\ \A q \in queue' : q \in queue \/ q.target = t.id
    BY <1>1 DEF CommitTarget, Notices
  <1> HIDE DEF u, e, t, r, now
  <1> QED
    BY <1>2, <1>3, <1>4, <1>5, <1>6, <1>7, <1>8, AppendPast

LEMMA AddCreatePast ==
    ASSUME Core, Past, NEW w \in Workers, AddCreate(w), ~UNCHANGED storeVars
    PROVE  Past'
  <1>1. PICK id \in Ids \ used :
          CreateTarget(Baseline(id, adding[w], resp[w], stamp[w]),
                       BaselineEntry(id, resp[w], stamp[w]))
    BY DEF AddCreate
  <1> DEFINE u == Baseline(id, adding[w], resp[w], stamp[w])
             e == BaselineEntry(id, resp[w], stamp[w])
  <1>2. u \in Target /\ e \in Entry
    BY BaselineType DEF AddCreate, Core, TypeInv, TypeOK, WorkTypeOK, Shape
  <1>3. /\ u.id = id /\ u.rev = 1 /\ e.target = id /\ e.rev = 1
        /\ e.at = u.checked /\ e.hash = u.hash
    BY DEF Baseline, BaselineEntry
  <1>4. /\ targets' = [targets EXCEPT ![id] = u] /\ history' = history \cup {e}
        /\ queue' = queue
    BY <1>1, <1>3 DEF CreateTarget
  <1> HIDE DEF u, e
  <1>5. id \notin Live
    BY DEF Core, Identity
  <1>6. /\ targets'[id] = u /\ \A j \in Live : targets'[j] = targets[j]
        /\ Live' = Live \cup {id}
    BY <1>2, <1>4, <1>5, NoneAssumption DEF Live, Core, TypeInv, TypeOK, StoreTypeOK
  <1>7. /\ \A f \in history : f.target \in Live /\ f.target # id
        /\ \A q \in queue : q.target \in Live
    BY <1>5 DEF Past, NoOrphans
  <1>8. u.checked \in Nat
    BY <1>2 DEF Target
  <1>9. NoOrphans'
    BY <1>3, <1>4, <1>6, <1>7 DEF NoOrphans
  <1>10. Recorded'
    BY <1>3, <1>4, <1>6, <1>7, <1>8 DEF Past, Recorded
  <1>11. Complete'
    BY <1>3, <1>4, <1>6 DEF Past, Complete
  <1>12. Latest'
    BY <1>3, <1>4, <1>6, <1>7 DEF Past, Latest
  <1>13. Linked'
    BY <1>3, <1>4, <1>7 DEF Past, Linked
  <1>14. HistoryTimeOrdered'
    BY <1>3, <1>4, <1>7 DEF Past, HistoryTimeOrdered
  <1> QED
    BY <1>9, <1>10, <1>11, <1>12, <1>13, <1>14 DEF Past

LEMMA RemovePast ==
    ASSUME Core, Past, NEW w \in Workers, Remove(w)
    PROVE  Past'
  <1>1. PICK n \in Names : DeleteTarget(n)
    BY DEF Remove
  <1> DEFINE id == names[Key[n]]
  <1>2. /\ history' = {e \in history : e.target # id}
        /\ queue' = {q \in queue : q.target # id}
        /\ Live' = Live \ {id} /\ \A j \in Live' : targets'[j] = targets[j]
    BY <1>1 DEF DeleteTarget, Live, Core, TypeInv, TypeOK, StoreTypeOK
  <1> HIDE DEF id
  <1>3. NoOrphans'
    BY <1>2 DEF Past, NoOrphans
  <1>4. Recorded' /\ Complete' /\ Latest' /\ Linked' /\ HistoryTimeOrdered'
    BY <1>2, <1>3 DEF NoOrphans, Past, Recorded, Complete, Latest, Linked,
                      HistoryTimeOrdered
  <1> QED
    BY <1>3, <1>4 DEF Past

LEMMA NextPast == Core /\ Timely /\ Past /\ [Next]_vars => Past'
  <1> SUFFICES ASSUME Core, Timely, Past, [Next]_vars PROVE Past'
    OBVIOUS
  <1>1. ASSUME UNCHANGED <<targets, history, queue>> PROVE Past'
    BY <1>1 DEF Past, NoOrphans, Recorded, Complete, Latest, Linked,
                HistoryTimeOrdered, Live
  <1>2. CASE UNCHANGED vars \/ Publish \/ Tick \/ UNCHANGED storeVars
    BY <1>1, <1>2 DEF vars, Publish, Tick, storeVars
  <1>3. ASSUME NEW w \in Workers, Quiet(w) PROVE Past'
    BY <1>1, <1>3, QuietFrame
  <1>4. ASSUME NEW w \in Workers, WorkerStep(w) PROVE Past'
    BY <1>2, <1>3, <1>4, CommitPast, AddCreatePast, RemovePast DEF WorkerStep, Quiet
  <1> QED
    BY <1>2, <1>4 DEF Next

LEMMA PastHolds == Spec => []Past
  <1>1. Init => Past
    BY DEF Init, StoreInit, Past, NoOrphans, Recorded, Complete, Latest, Linked,
           HistoryTimeOrdered, Live
  <1> QED
    BY <1>1, NextPast, CoreHolds, TimelyHolds, PTL DEF Spec

(* A check in flight while its target is removed leaves no history and no   *)
(* notification behind (CommitTarget finds no target).                      *)
THEOREM NothingOrphaned == Spec => []NoOrphans
  BY PastHolds, PTL DEF Past

(* Each revision of a target has exactly one entry, and each entry goes on  *)
(* from the one before it, though it was computed from a copy read without  *)
(* a lock (the compare-and-swap of CommitTarget).                           *)
THEOREM HistoryLinked == Spec => []HistoryChain
  BY PastHolds, TypeCorrect, PastChain, PTL

(* The order of CheckedAt, by which History() sorts, is the commit order.   *)
THEOREM HistoryInOrder == Spec => []HistoryTimeOrdered
  BY PastHolds, PTL DEF Past

--------------------------------------------------------------------------------
LEMMA StepForward == Core /\ Timely /\ [Next]_vars => [Forward]_vars
  <1> SUFFICES ASSUME Core, Timely, [Next]_vars PROVE Forward \/ UNCHANGED vars
    OBVIOUS
  <1>1. \A i \in Live : /\ targets[i] \in Target
                        /\ targets[i].rev \in Nat /\ targets[i].checked \in Nat
    BY DEF Core, TypeInv, TypeOK, StoreTypeOK, Live, Target
  <1>2. ASSUME UNCHANGED <<targets, history>> PROVE Forward
    BY <1>1, <1>2 DEF Forward
  <1>3. CASE Publish \/ Tick \/ UNCHANGED storeVars
    BY <1>2, <1>3 DEF Publish, Tick, storeVars
  <1>4. ASSUME NEW w \in Workers, Quiet(w) PROVE Forward
    BY <1>2, <1>4, QuietFrame
  <1>5. ASSUME NEW w \in Workers, Commit(w), ~UNCHANGED storeVars PROVE Forward
    <2> DEFINE t == cur[w]
               u == Updated(t, resp[w], stamp[w])
    <2>1. /\ t \in Target /\ t.id \in Live /\ targets[t.id] = t
          /\ targets' = [targets EXCEPT ![t.id] = u] /\ Live' = Live
          /\ u.rev = t.rev + 1 /\ u.checked = stamp[w]
          /\ stamp[w] \in Nat /\ t.checked <= stamp[w]
      BY <1>5, CommitFacts DEF Commit, Successor, Timely, Timed
    <2>2. history \subseteq history'
      BY <1>5 DEF Commit, CommitTarget
    <2> HIDE DEF u
    <2>3. /\ targets'[t.id] = u
          /\ \A j \in Live \ {t.id} : targets'[j] = targets[j]
      BY <2>1 DEF Core, TypeInv, TypeOK, StoreTypeOK, Live
    <2> QED
      BY <1>1, <2>1, <2>2, <2>3 DEF Forward
  <1>6. ASSUME NEW w \in Workers, AddCreate(w), ~UNCHANGED storeVars PROVE Forward
    <2>1. PICK id \in Ids \ used :
            CreateTarget(Baseline(id, adding[w], resp[w], stamp[w]),
                         BaselineEntry(id, resp[w], stamp[w]))
      BY <1>6 DEF AddCreate
    <2>2. \A j \in Live : targets'[j] = targets[j]
      BY <2>1 DEF CreateTarget, Baseline, Core, Identity, Live, TypeInv, TypeOK,
                  StoreTypeOK
    <2>3. history \subseteq history'
      BY <2>1 DEF CreateTarget
    <2> QED
      BY <1>1, <2>2, <2>3 DEF Forward
  <1>7. ASSUME NEW w \in Workers, Remove(w) PROVE Forward
    <2>1. PICK n \in Names : DeleteTarget(n)
      BY <1>7 DEF Remove
    <2> QED
      BY <1>1, <2>1 DEF DeleteTarget, Forward, Live, Core, TypeInv, TypeOK, StoreTypeOK
  <1> QED
    BY <1>3, <1>4, <1>5, <1>6, <1>7 DEF Next, WorkerStep, Quiet

(* No step of any process takes a target back to an older state, changes it *)
(* without a new revision, or drops an entry of a target that stays.        *)
THEOREM NeverRollsBack == Spec => NoRollback
  BY CoreHolds, TimelyHolds, StepForward, PTL DEF Spec, NoRollback

================================================================================
