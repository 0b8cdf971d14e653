----------------------------- MODULE MonitorProofs -----------------------------
(****************************************************************************)
(* Proofs about Monitor, for any number of processes, names, targets and    *)
(* contents: type correctness, then the invariants of the names and of the  *)
(* revisions.                                                               *)
(****************************************************************************)
EXTENDS Monitor, TLAPS

(* What a worker holds at each point of its command.                        *)
Shape ==
    \A w \in Workers :
        /\ pc[w] \in {"fetch", "apply", "report", "commit", "reload"}
              => cur[w] \in Target
        /\ pc[w] \in {"apply", "report", "commit", "addPut", "addCreate"}
              => resp[w] \in Response
        /\ pc[w] \in {"addPut", "addCreate"} => resp[w].kind = "ok"
        /\ pc[w] \in {"addFetch", "addPut", "addCreate"} => adding[w] \in Names

TypeInv == TypeOK /\ Shape

--------------------------------------------------------------------------------
(* The pure part of a check *)

(* A page answers with a well-formed response, whatever the request.        *)
LEMMA AnswersType ==
    ASSUME page \in Contents, NEW tag, NEW r \in Answers(tag)
    PROVE  r \in Response
  BY DEF Answers, Response, Failed

(* u is the record of t's target one revision on, checked now, with hash h. *)
Successor(u, t, now, h) ==
    /\ u \in Target /\ u.id = t.id /\ u.name = t.name
    /\ u.rev = t.rev + 1 /\ u.checked = now /\ u.hash = h

LEMMA StampedType ==
    ASSUME NEW t \in Target, NEW now \in Nat
    PROVE  Successor(Stamped(t, now), t, now, t.hash)
  <1> DEFINE a == [t EXCEPT !.rev = t.rev + 1]
             b == [a EXCEPT !.checked = now]
             c == [b EXCEPT !.next = now + Every]
  <1>1. /\ a \in Target /\ a.id = t.id /\ a.name = t.name
        /\ a.rev = t.rev + 1 /\ a.hash = t.hash
    BY DEF Target, Successor
  <1>2. Successor(b, t, now, t.hash)
    <2> HIDE DEF a
    <2> QED BY <1>1 DEF Target, Successor
  <1>3. Successor(c, t, now, t.hash)
    <2> HIDE DEF b
    <2> QED BY <1>2, MonitorAssumption DEF Target, Successor
  <1>4. Stamped(t, now) = c
    BY Zenon DEF Stamped
  <1> QED
    BY <1>3, <1>4

(* The record a check commits: the same target one revision on, with the    *)
(* snapshot replaced exactly when the content changed.                      *)
LEMMA UpdatedType ==
    ASSUME NEW t \in Target, NEW r \in Response, NEW now \in Nat
    PROVE  Successor(Updated(t, r, now), t, now,
                     IF Changed(t, r) THEN r.content ELSE t.hash)
  <1> DEFINE s == Stamped(t, now)
  <1>1. Successor(s, t, now, t.hash)
    BY StampedType
  <1> HIDE DEF s
  <1>2. CASE r.kind = "error"
    <2>1. Updated(t, r, now) =
            [s EXCEPT !.fails = @ + 1, !.reported = @ \/ Reached(t)]
      BY <1>2 DEF Updated, AfterFailure, s
    <2>2. ~Changed(t, r)
      BY <1>2 DEF Changed
    <2> DEFINE a == [s EXCEPT !.fails = s.fails + 1]
               b == [a EXCEPT !.reported = s.reported \/ Reached(t)]
    <2>3. Successor(a, t, now, t.hash)
      BY <1>1 DEF Target, Successor
    <2>4. (s.reported \/ Reached(t)) \in BOOLEAN
      OBVIOUS
    <2>5. Successor(b, t, now, t.hash)
      <3> HIDE DEF a
      <3> QED BY <2>3, <2>4 DEF Target, Successor
    <2>6. Updated(t, r, now) = b
      BY <2>1, Zenon
    <2> QED
      BY <2>2, <2>5, <2>6
  <1>3. CASE r.kind = "notModified"
    <2>1. Updated(t, r, now) =
            [s EXCEPT !.fails = 0, !.reported = FALSE,
                      !.tag = Or(r.tag, @), !.url = Or(r.url, @)]
      BY <1>3 DEF Updated, AfterNotModified, s
    <2>2. ~Changed(t, r)
      BY <1>3 DEF Changed
    <2>3. r.tag \in Contents \cup {None} /\ r.url \in Urls
      BY <1>3 DEF Response, Failed
    <2>4. Or(r.tag, s.tag) \in Contents \cup {None} /\ Or(r.url, s.url) \in Urls
      BY <1>1, <2>3 DEF Or, Target, Successor
    <2> DEFINE a == [s EXCEPT !.fails = 0]
               b == [a EXCEPT !.reported = FALSE]
               c == [b EXCEPT !.tag = Or(r.tag, s.tag)]
               d == [c EXCEPT !.url = Or(r.url, s.url)]
    <2>5. Successor(a, t, now, t.hash)
      BY <1>1 DEF Target, Successor
    <2>6. Successor(b, t, now, t.hash)
      <3> HIDE DEF a
      <3> QED BY <2>5 DEF Target, Successor
    <2>7. Successor(c, t, now, t.hash)
      <3> HIDE DEF b
      <3> QED BY <2>4, <2>6 DEF Target, Successor
    <2>8. Successor(d, t, now, t.hash)
      <3> HIDE DEF c
      <3> QED BY <2>4, <2>7 DEF Target, Successor
    <2>9. Updated(t, r, now) = d
      BY <2>1, Zenon
    <2> QED
      BY <2>2, <2>8, <2>9
  <1>4. CASE r.kind = "ok"
    <2>1. Updated(t, r, now) =
            [s EXCEPT !.fails = 0, !.reported = FALSE, !.hash = r.content,
                      !.tag = r.tag, !.url = r.url, !.status = r.status]
      BY <1>4 DEF Updated, AfterContent, s
    <2>2. r.content \in Contents /\ r.tag \in Contents \cup {None}
          /\ r.url \in Urls /\ r.status \in Statuses
      BY <1>4 DEF Response, Failed
    <2>3. r.content = IF Changed(t, r) THEN r.content ELSE t.hash
      BY <1>4 DEF Changed
    <2> DEFINE a == [s EXCEPT !.fails = 0]
               b == [a EXCEPT !.reported = FALSE]
               c == [b EXCEPT !.hash = r.content]
               d == [c EXCEPT !.tag = r.tag]
               e == [d EXCEPT !.url = r.url]
               f == [e EXCEPT !.status = r.status]
    <2>4. Successor(a, t, now, a.hash)
      BY <1>1 DEF Target, Successor
    <2>5. Successor(b, t, now, b.hash)
      <3> HIDE DEF a
      <3> QED BY <2>4 DEF Target, Successor
    <2>6. Successor(c, t, now, r.content)
      <3> HIDE DEF b
      <3> QED BY <2>2, <2>5 DEF Target, Successor
    <2>7. Successor(d, t, now, r.content)
      <3> HIDE DEF c
      <3> QED BY <2>2, <2>6 DEF Target, Successor
    <2>8. Successor(e, t, now, r.content)
      <3> HIDE DEF d
      <3> QED BY <2>2, <2>7 DEF Target, Successor
    <2>9. Successor(f, t, now, r.content)
      <3> HIDE DEF e
      <3> QED BY <2>2, <2>8 DEF Target, Successor
    <2>10. Updated(t, r, now) = f
      BY <2>1, Zenon
    <2> QED
      BY <2>3, <2>9, <2>10
  <1> QED
    BY <1>2, <1>3, <1>4 DEF Response, Failed

LEMMA EntryType ==
    ASSUME NEW t \in Target, NEW r \in Response, NEW now \in Nat
    PROVE  EntryOf(t, r, now) \in Entry
  <1>1. Updated(t, r, now) \in Target
    BY UpdatedType DEF Successor
  <1>2. Outcome(t, r) \in Outcomes
    BY DEF Outcome, Outcomes
  <1>3. (r.kind # "error" /\ t.reported) \in BOOLEAN
    OBVIOUS
  <1> QED
    BY <1>1, <1>2, <1>3 DEF EntryOf, Entry, Target

LEMMA NoticesType ==
    ASSUME NEW w \in Workers, NEW t \in Target, NEW r \in Response, NEW now \in Nat
    PROVE  Notices(w, t, r, now) \subseteq Notice
  <1>1. NoticeKinds(t, r) \subseteq Kinds
    BY DEF NoticeKinds, Kinds
  <1> QED
    BY <1>1, MonitorAssumption DEF Notices, Notice, Target

--------------------------------------------------------------------------------
(* Type correctness *)

LEMMA FinishType ==
    ASSUME WorkTypeOK, Shape, NEW w \in Workers, Finish(w)
    PROVE  WorkTypeOK' /\ Shape'
  <1>1. WorkTypeOK'
    BY DEF WorkTypeOK, Finish, Labels
  <1>2. Shape'
    BY DEF WorkTypeOK, Finish, Shape
  <1> QED
    BY <1>1, <1>2

LEMMA AdvanceType ==
    ASSUME WorkTypeOK, Shape, NEW w \in Workers, NEW S \in SUBSET Target,
           Advance(w, S)
    PROVE  WorkTypeOK' /\ Shape'
  <1>1. CASE Finish(w)
    BY <1>1, FinishType
  <1>2. ASSUME NEW t \in S,
               pc' = [pc EXCEPT ![w] = "fetch"], cur' = [cur EXCEPT ![w] = t],
               todo' = [todo EXCEPT ![w] = S \ {t}],
               resp' = [resp EXCEPT ![w] = None], stamp' = [stamp EXCEPT ![w] = 0],
               attempt' = [attempt EXCEPT ![w] = 1], UNCHANGED adding
        PROVE  WorkTypeOK' /\ Shape'
    <2>1. WorkTypeOK'
      BY <1>2 DEF WorkTypeOK, Labels
    <2>2. Shape'
      BY <1>2 DEF WorkTypeOK, Shape
    <2> QED
      BY <2>1, <2>2
  <1> QED
    BY <1>1, <1>2 DEF Advance

LEMMA InitType == Init => TypeInv
  <1> SUFFICES ASSUME Init PROVE TypeInv
    OBVIOUS
  <1>1. StoreTypeOK
    BY DEF Init, StoreInit, StoreTypeOK
  <1>2. WorkTypeOK
    BY DEF Init, WorkTypeOK, Labels
  <1>3. Shape
    BY DEF Init, Shape
  <1> QED
    BY <1>1, <1>2, <1>3 DEF Init, TypeInv, TypeOK

(* A step that leaves the store, the clock and the page alone.              *)
LocalFrame == UNCHANGED <<storeVars, clock, page>>

LEMMA LocalType ==
    ASSUME TypeInv, LocalFrame, WorkTypeOK', Shape'
    PROVE  TypeInv'
  BY DEF TypeInv, TypeOK, StoreTypeOK, LocalFrame, storeVars

LEMMA StartCheckType ==
    ASSUME TypeInv, NEW w \in Workers, StartCheck(w)
    PROVE  TypeInv'
  <1>1. PICK ids \in {Live} \cup {{i} : i \in Live} :
          LET copies == {targets[i] : i \in ids} IN
          \/ Advance(w, copies)
          \/ /\ Goto(w, "due")
             /\ todo' = [todo EXCEPT ![w] = copies]
             /\ UNCHANGED <<cur, resp, stamp, attempt, adding>>
    BY DEF StartCheck
  <1> DEFINE copies == {targets[i] : i \in ids}
  <1>2. copies \in SUBSET Target
    BY DEF TypeInv, TypeOK, StoreTypeOK, Live
  <1>3. CASE Advance(w, copies)
    <2>1. WorkTypeOK' /\ Shape'
      BY <1>2, <1>3, AdvanceType DEF TypeInv, TypeOK
    <2> QED
      BY <2>1, LocalType DEF StartCheck, LocalFrame
  <1>4. CASE /\ Goto(w, "due")
             /\ todo' = [todo EXCEPT ![w] = copies]
             /\ UNCHANGED <<cur, resp, stamp, attempt, adding>>
    <2> HIDE DEF copies
    <2>1. WorkTypeOK'
      BY <1>2, <1>4 DEF TypeInv, TypeOK, WorkTypeOK, Goto, Labels
    <2>2. Shape'
      BY <1>4 DEF TypeInv, TypeOK, WorkTypeOK, Shape, Goto
    <2> QED
      BY <2>1, <2>2, LocalType DEF StartCheck, LocalFrame
  <1> QED
    BY <1>1, <1>3, <1>4

LEMMA SelectDueType ==
    ASSUME TypeInv, NEW w \in Workers, SelectDue(w)
    PROVE  TypeInv'
  <1> DEFINE S == {t \in todo[w] : Due(t, clock)}
  <1>1. S \in SUBSET Target
    BY DEF TypeInv, TypeOK, WorkTypeOK
  <1>2. WorkTypeOK' /\ Shape'
    <2> HIDE DEF S
    <2>1. Advance(w, S)
      BY DEF SelectDue, S
    <2> QED
      BY <1>1, <2>1, AdvanceType DEF TypeInv, TypeOK
  <1> QED
    BY <1>2, LocalType DEF SelectDue, LocalFrame

LEMMA FetchType ==
    ASSUME TypeInv, NEW w \in Workers, Fetch(w)
    PROVE  TypeInv'
  <1>1. PICK r \in Answers(cur[w].tag) : resp' = [resp EXCEPT ![w] = r]
    BY DEF Fetch
  <1>2. r \in Response
    BY AnswersType DEF TypeInv, TypeOK
  <1>3. WorkTypeOK'
    BY <1>1, <1>2 DEF Fetch, Goto, TypeInv, TypeOK, WorkTypeOK, Labels
  <1>4. Shape'
    BY <1>1, <1>2 DEF Fetch, Goto, TypeInv, TypeOK, WorkTypeOK, Shape
  <1> QED
    BY <1>3, <1>4, LocalType DEF Fetch, LocalFrame

LEMMA ApplyType ==
    ASSUME TypeInv, NEW w \in Workers, Apply(w)
    PROVE  TypeInv'
  <1>1. cur[w] \in Target /\ resp[w] \in Response
    BY DEF Apply, TypeInv, Shape
  <1>2. \E l \in {"commit", "report"} : pc' = [pc EXCEPT ![w] = l]
    BY DEF Apply, Goto
  <1>3. WorkTypeOK'
    BY <1>2 DEF Apply, TypeInv, TypeOK, WorkTypeOK, Labels
  <1>4. Shape'
    BY <1>1, <1>2 DEF Apply, TypeInv, TypeOK, WorkTypeOK, Shape
  <1>5. StoreTypeOK'
    <2>1. CASE Changed(cur[w], resp[w])
      <3>1. resp[w].content \in Contents
        BY <1>1, <2>1 DEF Changed, Response, Failed
      <3> QED
        BY <2>1, <3>1 DEF Apply, PutSnapshot, TypeInv, TypeOK, StoreTypeOK
    <2>2. CASE ~Changed(cur[w], resp[w])
      BY <2>2 DEF Apply, TypeInv, TypeOK, StoreTypeOK, storeVars
    <2> QED
      BY <2>1, <2>2
  <1> QED
    BY <1>3, <1>4, <1>5 DEF Apply, TypeInv, TypeOK

LEMMA ReportType ==
    ASSUME TypeInv, NEW w \in Workers, Report(w)
    PROVE  TypeInv'
  <1>1. todo[w] \in SUBSET Target
    BY DEF TypeInv, TypeOK, WorkTypeOK
  <1>2. CASE Advance(w, todo[w])
    <2>1. WorkTypeOK' /\ Shape'
      BY <1>1, <1>2, AdvanceType DEF TypeInv, TypeOK
    <2> QED
      BY <2>1, LocalType DEF Report, LocalFrame
  <1>3. CASE Goto(w, "commit") /\ UNCHANGED <<cur, todo, resp, stamp, attempt, adding>>
    <2>1. WorkTypeOK'
      BY <1>3 DEF Goto, TypeInv, TypeOK, WorkTypeOK, Labels
    <2>2. Shape'
      BY <1>3 DEF Report, Goto, TypeInv, TypeOK, WorkTypeOK, Shape
    <2> QED
      BY <2>1, <2>2, LocalType DEF Report, LocalFrame
  <1> QED
    BY <1>2, <1>3 DEF Report

LEMMA CommitTargetType ==
    ASSUME StoreTypeOK, NEW t \in Target, NEW expected, NEW e \in Entry,
           NEW N \in SUBSET Notice, CommitTarget(t, expected, e, N)
    PROVE  StoreTypeOK'
  BY DEF CommitTarget, StoreTypeOK, Target

LEMMA CommitType ==
    ASSUME TypeInv, NEW w \in Workers, Commit(w)
    PROVE  TypeInv'
  <1> DEFINE t == cur[w]
             r == resp[w]
             now == stamp[w]
  <1>1. t \in Target /\ r \in Response /\ now \in Nat /\ todo[w] \in SUBSET Target
    BY DEF Commit, TypeInv, TypeOK, WorkTypeOK, Shape
  <1>2. CASE /\ CommitTarget(Updated(t, r, now), t.rev, EntryOf(t, r, now),
                             Notices(w, t, r, now))
             /\ Advance(w, todo[w])
    <2>1. WorkTypeOK' /\ Shape'
      BY <1>1, <1>2, AdvanceType DEF TypeInv, TypeOK
    <2>2. /\ Updated(t, r, now) \in Target /\ EntryOf(t, r, now) \in Entry
          /\ Notices(w, t, r, now) \in SUBSET Notice
      BY <1>1, UpdatedType, EntryType, NoticesType DEF Successor
    <2>3. StoreTypeOK'
      BY <1>2, <2>2, CommitTargetType DEF TypeInv, TypeOK
    <2> QED
      BY <2>1, <2>3 DEF Commit, TypeInv, TypeOK
  <1>3. CASE /\ Goto(w, "reload")
             /\ UNCHANGED <<storeVars, cur, todo, resp, stamp, attempt, adding>>
    <2>1. WorkTypeOK'
      BY <1>3 DEF Goto, TypeInv, TypeOK, WorkTypeOK, Labels
    <2>2. Shape'
      BY <1>1, <1>3 DEF Goto, TypeInv, TypeOK, WorkTypeOK, Shape
    <2> QED
      BY <1>3, <2>1, <2>2, LocalType DEF Commit, LocalFrame
  <1>4. CASE Advance(w, todo[w]) /\ UNCHANGED storeVars
    <2>1. WorkTypeOK' /\ Shape'
      BY <1>1, <1>4, AdvanceType DEF TypeInv, TypeOK
    <2> QED
      BY <1>4, <2>1, LocalType DEF Commit, LocalFrame
  <1> QED
    BY <1>2, <1>3, <1>4 DEF Commit

LEMMA ReloadType ==
    ASSUME TypeInv, NEW w \in Workers, Reload(w)
    PROVE  TypeInv'
  <1>1. cur[w] \in Target /\ todo[w] \in SUBSET Target /\ attempt[w] \in 0..2
    BY DEF Reload, TypeInv, TypeOK, WorkTypeOK, Shape
  <1>2. CASE Exists(cur[w].id) /\ attempt[w] < 2
    <2>1. targets[cur[w].id] \in Target
      BY <1>1, <1>2 DEF Exists, TypeInv, TypeOK, StoreTypeOK, Target
    <2>2. /\ pc' = [pc EXCEPT ![w] = "fetch"]
          /\ cur' = [cur EXCEPT ![w] = targets[cur[w].id]]
          /\ resp' = [resp EXCEPT ![w] = None]
          /\ stamp' = [stamp EXCEPT ![w] = 0]
          /\ attempt' = [attempt EXCEPT ![w] = @ + 1]
          /\ UNCHANGED <<todo, adding>>
      BY <1>2 DEF Reload, Goto
    <2>3. attempt[w] + 1 \in 0..2
      BY <1>1, <1>2
    <2>4. WorkTypeOK'
      BY <2>1, <2>2, <2>3 DEF TypeInv, TypeOK, WorkTypeOK, Labels
    <2>5. Shape'
      BY <2>1, <2>2 DEF TypeInv, TypeOK, WorkTypeOK, Shape
    <2> QED
      BY <2>4, <2>5, LocalType DEF Reload, LocalFrame
  <1>3. CASE Advance(w, todo[w])
    <2>1. WorkTypeOK' /\ Shape'
      BY <1>1, <1>3, AdvanceType DEF TypeInv, TypeOK
    <2> QED
      BY <2>1, LocalType DEF Reload, LocalFrame
  <1> QED
    BY <1>2, <1>3 DEF Reload

(* Every step that ends a command, or moves on, without touching the store. *)
LEMMA EndType ==
    ASSUME TypeInv, NEW w \in Workers, Cancel(w) \/ IOError(w) \/ Crash(w)
    PROVE  TypeInv'
  <1>1. todo[w] \in SUBSET Target
    BY DEF TypeInv, TypeOK, WorkTypeOK
  <1>2. Finish(w) \/ Advance(w, todo[w])
    BY DEF Cancel, IOError, Crash
  <1>3. WorkTypeOK' /\ Shape'
    BY <1>1, <1>2, FinishType, AdvanceType DEF TypeInv, TypeOK
  <1> QED
    BY <1>3, LocalType DEF Cancel, IOError, Crash, LocalFrame

LEMMA StartAddType ==
    ASSUME TypeInv, NEW w \in Workers, StartAdd(w)
    PROVE  TypeInv'
  <1>1. PICK n \in Names : adding' = [adding EXCEPT ![w] = n]
    BY DEF StartAdd
  <1>2. WorkTypeOK'
    BY <1>1 DEF StartAdd, Goto, TypeInv, TypeOK, WorkTypeOK, Labels
  <1>3. Shape'
    BY <1>1 DEF StartAdd, Goto, TypeInv, TypeOK, WorkTypeOK, Shape
  <1> QED
    BY <1>2, <1>3, LocalType DEF StartAdd, LocalFrame

LEMMA AddFetchType ==
    ASSUME TypeInv, NEW w \in Workers, AddFetch(w)
    PROVE  TypeInv'
  <1>1. CASE Finish(w)
    <2>1. WorkTypeOK' /\ Shape'
      BY <1>1, FinishType DEF TypeInv, TypeOK
    <2> QED
      BY <2>1, LocalType DEF AddFetch, LocalFrame
  <1>2. ASSUME NEW r \in Answers(None), r.kind = "ok",
               resp' = [resp EXCEPT ![w] = r], Goto(w, "addPut"),
               UNCHANGED <<cur, todo, stamp, attempt, adding>>
        PROVE  TypeInv'
    <2>1. r \in Response
      BY AnswersType DEF TypeInv, TypeOK
    <2>2. WorkTypeOK'
      BY <1>2, <2>1 DEF Goto, TypeInv, TypeOK, WorkTypeOK, Labels
    <2>3. Shape'
      BY <1>2, <2>1 DEF AddFetch, Goto, TypeInv, TypeOK, WorkTypeOK, Shape
    <2> QED
      BY <2>2, <2>3, LocalType DEF AddFetch, LocalFrame
  <1> QED
    BY <1>1, <1>2 DEF AddFetch

LEMMA AddPutType ==
    ASSUME TypeInv, NEW w \in Workers, AddPut(w)
    PROVE  TypeInv'
  <1>1. resp[w] \in Response /\ resp[w].kind = "ok"
    BY DEF AddPut, TypeInv, Shape
  <1>2. resp[w].content \in Contents
    BY <1>1 DEF Response, Failed
  <1>3. StoreTypeOK'
    BY <1>2 DEF AddPut, PutSnapshot, TypeInv, TypeOK, StoreTypeOK
  <1>4. WorkTypeOK'
    BY DEF AddPut, Goto, TypeInv, TypeOK, WorkTypeOK, Labels
  <1>5. Shape'
    BY <1>1 DEF AddPut, Goto, TypeInv, TypeOK, WorkTypeOK, Shape
  <1> QED
    BY <1>3, <1>4, <1>5 DEF AddPut, TypeInv, TypeOK

LEMMA BaselineType ==
    ASSUME NEW id \in Ids, NEW n \in Names, NEW now \in Nat,
           NEW r \in Response, r.kind = "ok"
    PROVE  /\ Baseline(id, n, r, now) \in Target
           /\ BaselineEntry(id, r, now) \in Entry
  <1>1. /\ r.content \in Contents /\ r.tag \in Contents \cup {None}
        /\ r.url \in Urls /\ r.status \in Statuses
    BY DEF Response, Failed
  <1>2. now + Every \in Nat
    BY MonitorAssumption
  <1> QED
    BY <1>1, <1>2 DEF Baseline, BaselineEntry, Target, Entry, Outcomes

LEMMA CreateTargetType ==
    ASSUME StoreTypeOK, NEW t \in Target, NEW e \in Entry, CreateTarget(t, e)
    PROVE  StoreTypeOK'
  <1>1. t.id \in Ids /\ t.name \in Names
    BY DEF Target
  <1>2. Key[t.name] \in Keys
    BY <1>1, StoreAssumption
  <1> QED
    BY <1>1, <1>2 DEF CreateTarget, StoreTypeOK

LEMMA AddCreateType ==
    ASSUME TypeInv, NEW w \in Workers, AddCreate(w)
    PROVE  TypeInv'
  <1>1. /\ resp[w] \in Response /\ resp[w].kind = "ok"
        /\ adding[w] \in Names /\ stamp[w] \in Nat
    BY DEF AddCreate, TypeInv, TypeOK, WorkTypeOK, Shape
  <1>2. WorkTypeOK' /\ Shape'
    BY FinishType DEF AddCreate, TypeInv, TypeOK
  <1>3. CASE UNCHANGED storeVars
    BY <1>2, <1>3, LocalType DEF AddCreate, LocalFrame
  <1>4. ASSUME NEW id \in Ids \ used,
               CreateTarget(Baseline(id, adding[w], resp[w], stamp[w]),
                            BaselineEntry(id, resp[w], stamp[w]))
        PROVE  TypeInv'
    <2>1. StoreTypeOK'
      BY <1>1, <1>4, BaselineType, CreateTargetType DEF TypeInv, TypeOK
    <2> QED
      BY <1>2, <2>1 DEF AddCreate, TypeInv, TypeOK
  <1> QED
    BY <1>3, <1>4 DEF AddCreate

LEMMA RemoveType ==
    ASSUME TypeInv, NEW w \in Workers, Remove(w)
    PROVE  TypeInv'
  <1>1. PICK n \in Names : DeleteTarget(n)
    BY DEF Remove
  <1>2. StoreTypeOK'
    BY <1>1, StoreAssumption DEF DeleteTarget, TypeInv, TypeOK, StoreTypeOK
  <1>3. WorkTypeOK' /\ Shape'
    BY DEF Remove, workVars, TypeInv, TypeOK, WorkTypeOK, Shape
  <1> QED
    BY <1>2, <1>3 DEF Remove, TypeInv, TypeOK

LEMMA EnvironmentType ==
    ASSUME TypeInv, Publish \/ Tick
    PROVE  TypeInv'
  BY DEF Publish, Tick, TypeInv, TypeOK, StoreTypeOK, WorkTypeOK, Shape,
         storeVars, workVars

LEMMA NextType == TypeInv /\ [Next]_vars => TypeInv'
  <1> SUFFICES ASSUME TypeInv, [Next]_vars PROVE TypeInv'
    OBVIOUS
  <1>1. CASE UNCHANGED vars
    BY <1>1 DEF vars, storeVars, workVars, TypeInv, TypeOK, StoreTypeOK,
                WorkTypeOK, Shape
  <1>2. ASSUME NEW w \in Workers, WorkerStep(w) PROVE TypeInv'
    BY <1>2, StartCheckType, SelectDueType, FetchType, ApplyType, ReportType,
       CommitType, ReloadType, EndType, StartAddType, AddFetchType, AddPutType,
       AddCreateType, RemoveType DEF WorkerStep
  <1>3. CASE Publish \/ Tick
    BY <1>3, EnvironmentType
  <1> QED
    BY <1>1, <1>2, <1>3 DEF Next

(* Every reachable state is well typed: in particular no commit writes a    *)
(* record with a missing snapshot, status or URL, no worker passes the      *)
(* second attempt of the conflict loop, and revisions stay numbers.         *)
THEOREM TypeCorrect == Spec => []TypeOK
  <1>1. TypeInv => TypeOK
    BY DEF TypeInv
  <1> QED
    BY <1>1, InitType, NextType, PTL DEF Spec

--------------------------------------------------------------------------------
(* The safety invariants, from type correctness.                            *)

(* Identity: a live target sits under its own ID, which newID will not      *)
(* return again, and so does every copy; names never change.                *)
Identity ==
    /\ \A i \in Live : i \in used /\ targets[i].id = i
    /\ \A w \in Workers : \A c \in Held(w) :
         /\ c.id \in used
         /\ c.id \in Live => c.name = targets[c.id].name

Core == TypeInv /\ Identity /\ NamesIndexed /\ CopiesFaithful

--------------------------------------------------------------------------------
(* The worker that moves on holds no more than before.                      *)
LEMMA FinishHolds ==
    ASSUME WorkTypeOK, NEW w \in Workers, Finish(w)
    PROVE  /\ Held(w)' = {}
           /\ \A v \in Workers \ {w} : Held(v)' = Held(v)
  BY DEF Finish, WorkTypeOK, Held

LEMMA AdvanceHolds ==
    ASSUME WorkTypeOK, NEW w \in Workers, NEW S \in SUBSET Target, Advance(w, S)
    PROVE  /\ Held(w)' \subseteq S
           /\ \A v \in Workers \ {w} : Held(v)' = Held(v)
  <1>1. CASE S = {} /\ Finish(w)
    BY <1>1, FinishHolds
  <1>2. ASSUME NEW t \in S, cur' = [cur EXCEPT ![w] = t],
               todo' = [todo EXCEPT ![w] = S \ {t}]
        PROVE  /\ Held(w)' \subseteq S
               /\ \A v \in Workers \ {w} : Held(v)' = Held(v)
    BY <1>2 DEF WorkTypeOK, Held
  <1> QED
    BY <1>1, <1>2 DEF Advance

(* What a worker may come to hold: what it held, or current records.        *)
HoldsKnown(w) ==
    /\ \A c \in Held(w)' : c \in Held(w) \/ (c \in Target /\ c \in {targets[i] : i \in Live})
    /\ \A v \in Workers \ {w} : Held(v)' = Held(v)

LEMMA KeptCore ==
    ASSUME Core, TypeInv', UNCHANGED <<targets, names, used>>,
           NEW w \in Workers, HoldsKnown(w)
    PROVE  Core'
  <1>1. targets' = targets /\ names' = names /\ used' = used
    OBVIOUS
  <1>2. Live' = Live
    BY <1>1 DEF Live
  <1>3. \A v \in Workers : \A c \in Held(v)' :
          c \in Held(v) \/ \E i \in Live : c = targets[i]
    BY DEF HoldsKnown
  <1>4. Identity'
    BY <1>1, <1>2, <1>3 DEF Core, Identity
  <1>5. NamesIndexed'
    BY <1>1, <1>2 DEF Core, NamesIndexed
  <1>6. CopiesFaithful'
    BY <1>1, <1>2, <1>3 DEF Core, CopiesFaithful, Identity, TypeInv, TypeOK,
                          StoreTypeOK, Target, Live
  <1> QED
    BY <1>4, <1>5, <1>6 DEF Core

(* The copies a worker works from are in its hands until it moves on.       *)
LEMMA SameHolds ==
    ASSUME NEW w \in Workers, UNCHANGED <<cur, todo>>
    PROVE  HoldsKnown(w)
  BY DEF HoldsKnown, Held

LEMMA ShrinkHolds ==
    ASSUME TypeInv, NEW w \in Workers, NEW S \in SUBSET todo[w], Advance(w, S)
    PROVE  HoldsKnown(w)
  <1>1. WorkTypeOK /\ S \in SUBSET Target /\ None \notin Target
    BY NoneAssumption DEF TypeInv, TypeOK, WorkTypeOK
  <1>2. Held(w)' \subseteq S /\ \A v \in Workers \ {w} : Held(v)' = Held(v)
    BY <1>1, AdvanceHolds
  <1>3. S \subseteq Held(w)
    BY <1>1 DEF Held
  <1> QED
    BY <1>2, <1>3 DEF HoldsKnown

LEMMA StartCheckHolds ==
    ASSUME TypeInv, NEW w \in Workers, StartCheck(w)
    PROVE  HoldsKnown(w)
  <1>1. PICK ids \in {Live} \cup {{i} : i \in Live} :
          LET copies == {targets[i] : i \in ids} IN
          \/ Advance(w, copies)
          \/ /\ Goto(w, "due")
             /\ todo' = [todo EXCEPT ![w] = copies]
             /\ UNCHANGED <<cur, resp, stamp, attempt, adding>>
    BY DEF StartCheck
  <1> DEFINE copies == {targets[i] : i \in ids}
  <1>2. /\ copies \subseteq Target
        /\ \A c \in copies : c \in {targets[i] : i \in Live}
    BY DEF TypeInv, TypeOK, StoreTypeOK, Live
  <1>3. WorkTypeOK
    BY DEF TypeInv, TypeOK
  <1> HIDE DEF copies
  <1>4. CASE Advance(w, copies)
    BY <1>2, <1>3, <1>4, AdvanceHolds DEF HoldsKnown
  <1>5. CASE todo' = [todo EXCEPT ![w] = copies] /\ UNCHANGED cur
    <2>1. \A v \in Workers \ {w} : Held(v)' = Held(v)
      BY <1>3, <1>5 DEF Held, WorkTypeOK
    <2>2. Held(w)' \subseteq Held(w) \cup copies
      BY <1>3, <1>5 DEF Held, WorkTypeOK
    <2> QED
      BY <1>2, <2>1, <2>2 DEF HoldsKnown
  <1> QED
    BY <1>1, <1>4, <1>5 DEF copies

LEMMA ReloadHolds ==
    ASSUME TypeInv, NEW w \in Workers, Reload(w)
    PROVE  HoldsKnown(w)
  <1>1. cur[w] \in Target
    BY DEF Reload, TypeInv, Shape
  <1>2. CASE Advance(w, todo[w])
    BY <1>2, ShrinkHolds
  <1>3. CASE /\ Exists(cur[w].id)
             /\ cur' = [cur EXCEPT ![w] = targets[cur[w].id]]
             /\ UNCHANGED todo
    <2>1. cur[w].id \in Live /\ targets[cur[w].id] \in Target
      BY <1>1, <1>3 DEF Exists, Live, TypeInv, TypeOK, StoreTypeOK, Target
    <2>2. Held(w)' \subseteq Held(w) \cup {targets[cur[w].id]}
      BY <1>3 DEF Held, TypeInv, TypeOK, WorkTypeOK
    <2>3. \A v \in Workers \ {w} : Held(v)' = Held(v)
      BY <1>3 DEF Held, TypeInv, TypeOK, WorkTypeOK
    <2> QED
      BY <2>1, <2>2, <2>3 DEF HoldsKnown
  <1> QED
    BY <1>2, <1>3 DEF Reload

(* The steps of a worker that change no target and no name.                 *)
Quiet(w) ==
    \/ StartCheck(w) \/ SelectDue(w) \/ Fetch(w) \/ Apply(w) \/ Report(w)
    \/ Reload(w) \/ Cancel(w) \/ StartAdd(w) \/ AddFetch(w) \/ AddPut(w)
    \/ IOError(w) \/ Crash(w)

LEMMA QuietHolds ==
    ASSUME TypeInv, NEW w \in Workers, Quiet(w)
    PROVE  HoldsKnown(w)
  <1>1. CASE StartCheck(w)
    BY <1>1, StartCheckHolds
  <1>2. CASE SelectDue(w)
    <2> DEFINE S == {t \in todo[w] : Due(t, clock)}
    <2>1. Advance(w, S) /\ S \in SUBSET todo[w]
      BY <1>2 DEF SelectDue
    <2> HIDE DEF S
    <2> QED
      BY <2>1, ShrinkHolds
  <1>3. CASE Finish(w)
    BY <1>3, FinishHolds DEF HoldsKnown, TypeInv, TypeOK
  <1>4. CASE Advance(w, todo[w])
    BY <1>4, ShrinkHolds
  <1>5. CASE UNCHANGED <<cur, todo>>
    BY <1>5, SameHolds
  <1>6. CASE Reload(w)
    BY <1>6, ReloadHolds
  <1>7. \/ StartCheck(w) \/ SelectDue(w) \/ Finish(w) \/ Advance(w, todo[w])
        \/ UNCHANGED <<cur, todo>> \/ Reload(w)
    BY DEF Quiet, Fetch, Apply, Report, Cancel, StartAdd, AddFetch, AddPut,
           IOError, Crash
  <1> QED
    BY <1>1, <1>2, <1>3, <1>4, <1>5, <1>6, <1>7

LEMMA QuietFrame ==
    ASSUME NEW w \in Workers, Quiet(w)
    PROVE  UNCHANGED <<targets, names, used, history, queue, clock>>
  BY DEF Quiet, StartCheck, SelectDue, Fetch, Apply, Report, Reload, Cancel,
         StartAdd, AddFetch, AddPut, IOError, Crash, PutSnapshot, storeVars

--------------------------------------------------------------------------------
(* What the three transactions do to the database, as the proofs use it.    *)

(* A commit replaces exactly the record the check started from.             *)
LEMMA CommitReplaces ==
    ASSUME Core, NEW w \in Workers, pc[w] = "commit",
           NEW u, NEW e, NEW N, CommitTarget(u, cur[w].rev, e, N),
           u.id = cur[w].id
    PROVE  /\ cur[w] \in Target
           /\ cur[w].id \in Live
           /\ targets[cur[w].id] = cur[w]
  <1>1. cur[w] \in Target
    BY DEF Core, TypeInv, Shape
  <1>2. cur[w] # None /\ cur[w] \in Held(w)
    BY <1>1, NoneAssumption DEF Held
  <1>3. cur[w].id \in Live /\ targets[cur[w].id].rev = cur[w].rev
    BY <1>1 DEF CommitTarget, Exists, Unmoved, Live, Target
  <1> QED
    BY <1>1, <1>2, <1>3 DEF Core, CopiesFaithful

LEMMA CommitCore ==
    ASSUME Core, TypeInv', NEW w \in Workers, Commit(w)
    PROVE  Core'
  <1> DEFINE t == cur[w]
             r == resp[w]
             now == stamp[w]
  <1>1. t \in Target /\ r \in Response /\ now \in Nat
    BY DEF Commit, Core, TypeInv, TypeOK, WorkTypeOK, Shape
  <1>2. TypeInv
    BY DEF Core
  <1>3. CASE UNCHANGED storeVars
    <2>1. HoldsKnown(w)
      <3>1. CASE Advance(w, todo[w])
        BY <1>2, <3>1, ShrinkHolds
      <3>2. CASE UNCHANGED <<cur, todo>>
        BY <3>2, SameHolds
      <3> QED
        BY <3>1, <3>2 DEF Commit
    <2> QED
      BY <1>3, <2>1, KeptCore DEF storeVars
  <1>4. CASE /\ CommitTarget(Updated(t, r, now), t.rev, EntryOf(t, r, now),
                             Notices(w, t, r, now))
             /\ Advance(w, todo[w])
    <2> DEFINE u == Updated(t, r, now)
               i == t.id
    <2>1. u \in Target /\ u.id = i /\ u.name = t.name /\ u.rev = t.rev + 1
      BY <1>1, UpdatedType DEF Successor
    <2>2. i \in Live /\ targets[i] = t
      BY <1>4, <2>1, CommitReplaces DEF Commit
    <2>3. HoldsKnown(w)
      BY <1>2, <1>4, ShrinkHolds
    <2>4. /\ targets' = [targets EXCEPT ![i] = u]
          /\ names' = names /\ used' = used
      BY <1>4, <2>1 DEF CommitTarget
    <2> HIDE DEF u
    <2>5. /\ targets'[i] = u /\ targets[i].rev + 1 = u.rev
          /\ \A j \in Ids \ {i} : targets'[j] = targets[j]
      BY <1>1, <2>1, <2>2, <2>4 DEF Core, TypeInv, TypeOK, StoreTypeOK, Target
    <2>6. Live' = Live
      BY <2>1, <2>2, <2>5, NoneAssumption DEF Live
    <2>7. \A j \in Live : /\ targets[j] \in Target /\ targets'[j] \in Target
                          /\ targets'[j].id = targets[j].id
                          /\ targets'[j].name = targets[j].name
      BY <2>1, <2>2, <2>5, <1>1 DEF Live, Core, TypeInv, TypeOK, StoreTypeOK
    <2>8. \A v \in Workers : \A c \in Held(v)' :
            c \in Held(v) \/ \E j \in Live : c = targets[j]
      BY <2>3 DEF HoldsKnown
    <2>9. \A v \in Workers : \A c \in Held(v)' :
            /\ c \in Target /\ c.id \in used
            /\ c.id \in Live => /\ c.name = targets[c.id].name
                                /\ c.rev <= targets[c.id].rev
                                /\ c.rev = targets[c.id].rev => c = targets[c.id]
      <3>1. \A v \in Workers : \A c \in Held(v) : c \in Target
        BY DEF Core, TypeInv, TypeOK, WorkTypeOK, Held
      <3> QED
        BY <2>7, <2>8, <3>1 DEF Core, Identity, CopiesFaithful, Target
    <2>10. Identity'
      BY <2>4, <2>6, <2>7, <2>9 DEF Core, Identity
    <2>11. NamesIndexed'
      BY <2>4, <2>6, <2>7 DEF Core, NamesIndexed, Live, TypeInv, TypeOK, StoreTypeOK
    <2>12. CopiesFaithful'
      <3>1. \A c \in Target : c.id = i /\ c.rev <= targets[i].rev
              => c.rev < u.rev
        BY <1>1, <2>2, <2>5 DEF Target
      <3>2. \A c \in Target : c.rev \in Nat
        BY DEF Target
      <3> QED
        BY <2>1, <2>5, <2>6, <2>9, <3>1, <3>2 DEF CopiesFaithful, Live, Target
    <2> QED
      BY <2>10, <2>11, <2>12 DEF Core
  <1> QED
    BY <1>3, <1>4 DEF Commit

LEMMA AddCreateCore ==
    ASSUME Core, TypeInv', NEW w \in Workers, AddCreate(w)
    PROVE  Core'
  <1>1. TypeInv
    BY DEF Core
  <1>2. HoldsKnown(w)
    BY <1>1, FinishHolds DEF AddCreate, HoldsKnown, TypeInv, TypeOK
  <1>3. CASE UNCHANGED storeVars
    BY <1>2, <1>3, KeptCore DEF storeVars
  <1>4. ASSUME NEW id \in Ids \ used,
               CreateTarget(Baseline(id, adding[w], resp[w], stamp[w]),
                            BaselineEntry(id, resp[w], stamp[w]))
        PROVE  Core'
    <2> DEFINE u == Baseline(id, adding[w], resp[w], stamp[w])
               n == adding[w]
    <2>1. u \in Target /\ u.id = id /\ u.name = n
      <3>1. u \in Target
        BY <1>1, BaselineType DEF AddCreate, TypeInv, TypeOK, WorkTypeOK, Shape
      <3> QED
        BY <3>1 DEF Baseline
    <2>2. /\ targets' = [targets EXCEPT ![id] = u]
          /\ names' = [names EXCEPT ![Key[n]] = id]
          /\ used' = used \cup {id}
          /\ names[Key[n]] = None
      BY <1>4, <2>1 DEF CreateTarget, Taken
    <2> HIDE DEF u
    <2>3. n \in Names /\ Key[n] \in Keys
      BY <2>1, StoreAssumption DEF Target
    <2>4. id \notin Live /\ id \notin used /\ id # None
      BY StoreAssumption DEF Core, Identity
    <2>5. /\ targets'[id] = u
          /\ \A j \in Ids \ {id} : targets'[j] = targets[j]
          /\ Live' = Live \cup {id}
      BY <2>1, <2>2, NoneAssumption DEF Live, TypeInv, TypeOK, StoreTypeOK, Core
    <2>6. \A v \in Workers : \A c \in Held(v)' :
            c \in Held(v) \/ \E j \in Live : c = targets[j]
      BY <1>2 DEF HoldsKnown
    <2>7. \A v \in Workers : \A c \in Held(v)' :
            /\ c.id \in used /\ c.id # id
            /\ c.id \in Live => /\ c.name = targets[c.id].name
                                /\ c.rev <= targets[c.id].rev
                                /\ c.rev = targets[c.id].rev => c = targets[c.id]
      <3>1. \A j \in Live : targets[j] \in Target
        BY DEF Core, TypeInv, TypeOK, StoreTypeOK, Live
      <3> QED
        BY <2>4, <2>6, <3>1 DEF Core, Identity, CopiesFaithful, Target
    <2>8. Identity'
      BY <2>1, <2>2, <2>4, <2>5, <2>7 DEF Core, Identity, Live
    <2>9. NamesIndexed'
      <3>1. \A k \in Keys : names'[k] = IF k = Key[n] THEN id ELSE names[k]
        BY <2>2, <2>3 DEF Core, TypeInv, TypeOK, StoreTypeOK
      <3>2. \A k \in Keys : names[k] # None => names[k] \in Live
        BY DEF Core, NamesIndexed, Live, TypeInv, TypeOK, StoreTypeOK
      <3>3. \A j \in Live : Key[targets[j].name] # Key[n]
        BY <2>2, StoreAssumption DEF Core, NamesIndexed, Live
      <3>4. \A j \in Live : Key[targets[j].name] \in Keys
        BY StoreAssumption DEF Core, TypeInv, TypeOK, StoreTypeOK, Live, Target
      <3>5. \A k \in Keys : names'[k] # None =>
              targets'[names'[k]] # None /\ Key[targets'[names'[k]].name] = k
        BY <2>1, <2>2, <2>4, <2>5, <3>1, <3>2, NoneAssumption
           DEF Core, NamesIndexed, Live
      <3>6. \A j \in Live' : names'[Key[targets'[j].name]] = j
        BY <2>1, <2>3, <2>4, <2>5, <3>1, <3>3, <3>4 DEF Core, NamesIndexed, Live
      <3> QED
        BY <3>5, <3>6 DEF NamesIndexed
    <2>10. CopiesFaithful'
      BY <2>5, <2>7 DEF CopiesFaithful, Live
    <2> QED
      BY <2>8, <2>9, <2>10 DEF Core
  <1> QED
    BY <1>3, <1>4 DEF AddCreate

LEMMA RemoveCore ==
    ASSUME Core, TypeInv', NEW w \in Workers, Remove(w)
    PROVE  Core'
  <1>1. PICK n \in Names : DeleteTarget(n)
    BY DEF Remove
  <1> DEFINE k == Key[n]
             id == names[k]
  <1>2. k \in Keys /\ id \in Live /\ Key[targets[id].name] = k
    BY <1>1, StoreAssumption DEF DeleteTarget, Taken, Core, NamesIndexed, Live,
       TypeInv, TypeOK, StoreTypeOK
  <1>3. /\ targets' = [targets EXCEPT ![id] = None]
        /\ names' = [names EXCEPT ![k] = None] /\ used' = used
    BY <1>1 DEF DeleteTarget
  <1> HIDE DEF id, k
  <1>4. Live' = Live \ {id} /\ \A j \in Live' : targets'[j] = targets[j]
    BY <1>2, <1>3 DEF Live, Core, TypeInv, TypeOK, StoreTypeOK
  <1>5. \A v \in Workers : Held(v)' = Held(v)
    BY DEF Remove, workVars, Held
  <1>6. Identity'
    BY <1>3, <1>4, <1>5 DEF Core, Identity
  <1>7. NamesIndexed'
    <2>1. \A j \in Keys : names'[j] = IF j = k THEN None ELSE names[j]
      BY <1>2, <1>3 DEF Core, TypeInv, TypeOK, StoreTypeOK
    <2>2. \A j \in Live' : Key[targets[j].name] # k /\ Key[targets[j].name] \in Keys
      BY <1>2, <1>4, StoreAssumption
         DEF Core, NamesIndexed, Live, TypeInv, TypeOK, StoreTypeOK, Target, id
    <2>3. \A j \in Keys \ {k} : names[j] # None => names[j] \in Live'
      BY <1>2, <1>4 DEF Core, NamesIndexed, Live, TypeInv, TypeOK, StoreTypeOK
    <2>4. \A j \in Keys : names'[j] # None =>
            targets'[names'[j]] # None /\ Key[targets'[names'[j]].name] = j
      BY <1>4, <2>1, <2>3 DEF Core, NamesIndexed, Live
    <2>5. \A j \in Live' : names'[Key[targets'[j].name]] = j
      BY <1>4, <2>1, <2>2 DEF Core, NamesIndexed
    <2> QED
      BY <2>4, <2>5 DEF NamesIndexed
  <1>8. CopiesFaithful'
    BY <1>4, <1>5 DEF Core, CopiesFaithful
  <1> QED
    BY <1>6, <1>7, <1>8 DEF Core

--------------------------------------------------------------------------------
LEMMA InitCore == Init => Core
  <1> SUFFICES ASSUME Init PROVE Core
    OBVIOUS
  <1>1. Live = {} /\ \A w \in Workers : Held(w) = {}
    BY DEF Init, StoreInit, Live, Held
  <1>2. \A k \in Keys : names[k] = None
    BY DEF Init, StoreInit
  <1> QED
    BY <1>1, <1>2, InitType DEF Core, Identity, NamesIndexed, CopiesFaithful

LEMMA NextCore == Core /\ [Next]_vars => Core'
  <1> SUFFICES ASSUME Core, [Next]_vars PROVE Core'
    OBVIOUS
  <1>1. TypeInv'
    BY NextType DEF Core
  <1>2. ASSUME UNCHANGED <<targets, names, used, cur, todo>> PROVE Core'
    BY <1>1, <1>2 DEF Core, Identity, NamesIndexed, CopiesFaithful, Live, Held
  <1>3. CASE UNCHANGED vars
    BY <1>2, <1>3 DEF vars, storeVars, workVars
  <1>4. CASE Publish \/ Tick
    BY <1>2, <1>4 DEF Publish, Tick, storeVars, workVars
  <1>5. ASSUME NEW w \in Workers, WorkerStep(w) PROVE Core'
    <2>1. CASE Quiet(w)
      BY <1>1, <2>1, QuietHolds, QuietFrame, KeptCore DEF Core
    <2>2. CASE Commit(w)
      BY <1>1, <2>2, CommitCore
    <2>3. CASE AddCreate(w)
      BY <1>1, <2>3, AddCreateCore
    <2>4. CASE Remove(w)
      BY <1>1, <2>4, RemoveCore
    <2> QED
      BY <1>5, <2>1, <2>2, <2>3, <2>4 DEF WorkerStep, Quiet
  <1> QED
    BY <1>3, <1>4, <1>5 DEF Next

LEMMA CoreHolds == Spec => []Core
  BY InitCore, NextCore, PTL DEF Spec

(* Whatever adds and removes run concurrently, the names bucket and the     *)
(* targets bucket describe the same targets (CreateTarget tests the name    *)
(* again in its transaction; DeleteTarget removes both halves in one).      *)
THEOREM NamesStayIndexed == Spec => []NamesIndexed
  BY CoreHolds, PTL DEF Core

(* A copy held by a worker with the revision of the stored record is that   *)
(* record, which is what makes the compare-and-swap of CommitTarget sound.  *)
THEOREM RevisionsIdentify == Spec => []CopiesFaithful
  BY CoreHolds, PTL DEF Core
================================================================================
