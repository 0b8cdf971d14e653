-------------------------------- MODULE Monitor --------------------------------
(****************************************************************************)
(* The monitoring service, internal/app/service.go, over the store: several *)
(* fetchdiff processes (a watcher, one-shot check, add and remove commands) *)
(* that share one data directory.  A process reads a target, talks to the   *)
(* server with no lock held, and commits what it computed from the copy it  *)
(* read under a compare-and-swap on the target's revision.                  *)
(****************************************************************************)
EXTENDS Store

CONSTANTS
    Workers,           \* concurrent fetchdiff processes
    Configured,        \* worker -> destinations in the providers file it read
    Every,             \* the check interval
    FailureThreshold,  \* consecutive failures before one is reported
    MaxTime,           \* bound on the clock
    MaxRevision        \* bound: no check starts once a target got this far

ASSUME MonitorAssumption ==
    /\ Configured \in [Workers -> SUBSET Destinations]
    /\ Every \in Nat \ {0}
    /\ FailureThreshold \in Nat \ {0}
    /\ MaxTime \in Nat
    /\ MaxRevision \in Nat

VARIABLES
    clock,    \* the wall clock all processes share
    page,     \* what the server serves now
    pc,       \* worker -> where it is in its command
    cur,      \* worker -> its copy of the target it is checking
    todo,     \* worker -> copies of the targets it still has to check
    resp,     \* worker -> the response it got
    stamp,    \* worker -> the s.now() taken after the response
    attempt,  \* worker -> iteration of the conflict retry loop
    adding    \* worker -> the name an add command is creating

workVars == <<pc, cur, todo, resp, stamp, attempt, adding>>
vars == <<storeVars, clock, page, workVars>>

Labels == {"idle", "due", "fetch", "apply", "report", "commit", "reload",
           "addFetch", "addPut", "addCreate"}

(* A response.  tag is the validator (ETag or Last-Modified), a function of *)
(* the content; content is what the server held when it answered, which a   *)
(* 304 does not transmit.  Failed stands for every fetch error: the status  *)
(* and the URL some of them carry go no further than the history entry.     *)
Failed == [kind |-> "error", content |-> None, tag |-> None,
           url |-> None, status |-> None]

Response ==
    {Failed}
    \cup [kind: {"ok"}, content: Contents, tag: Contents \cup {None},
          url: Urls, status: Statuses]
    \cup [kind: {"notModified"}, content: Contents, tag: Contents \cup {None},
          url: Urls, status: {None}]

ASSUME NoneAssumption == None \notin Target \cup Response

WorkTypeOK ==
    /\ pc \in [Workers -> Labels]
    /\ cur \in [Workers -> Target \cup {None}]
    /\ todo \in [Workers -> SUBSET Target]
    /\ resp \in [Workers -> Response \cup {None}]
    /\ stamp \in [Workers -> Nat]
    /\ attempt \in [Workers -> 0..2]
    /\ adding \in [Workers -> Names \cup {None}]

TypeOK ==
    /\ StoreTypeOK
    /\ clock \in Nat
    /\ page \in Contents
    /\ WorkTypeOK

Init ==
    /\ StoreInit
    /\ clock = 0
    /\ page \in Contents
    /\ pc = [w \in Workers |-> "idle"]
    /\ cur = [w \in Workers |-> None]
    /\ todo = [w \in Workers |-> {}]
    /\ resp = [w \in Workers |-> None]
    /\ stamp = [w \in Workers |-> 0]
    /\ attempt = [w \in Workers |-> 0]
    /\ adding = [w \in Workers |-> None]

--------------------------------------------------------------------------------
(* The pure part of a check: from the copy t the worker read, a response r  *)
(* and the time now to the record, the history entry and the notice it will *)
(* try to commit.                                                           *)

Due(t, now) == t.next <= now

Or(new, old) == IF new # None THEN new ELSE old

Stamped(t, now) ==
    [t EXCEPT !.rev = @ + 1, !.checked = now, !.next = now + Every]

(* Faulty variants of the definitions below, which the runs must reject:    *)
(* an alarm for every failure past the threshold; a failed response that    *)
(* overwrites the effective URL; a content without a validator that keeps   *)
(* the validator of the content before; a redirect seen only on a 200; an   *)
(* alarm swallowed one failure late.                                        *)
ReachedAgain(t) == t.fails + 1 >= FailureThreshold

AfterFailureMoved(t, now) ==
    [Stamped(t, now) EXCEPT
        !.fails = @ + 1, !.url = None,
        !.reported = @ \/ t.fails + 1 >= FailureThreshold]

AfterContentSticky(t, r, now) ==
    [Stamped(t, now) EXCEPT !.fails = 0, !.reported = FALSE,
                            !.hash = r.content, !.tag = Or(r.tag, @),
                            !.url = r.url, !.status = r.status]

MetadataDiffersOnContent(t, r) ==
    r.kind = "ok" /\ (r.status # t.status \/ r.url # t.url)

ReachedOnce(t) == t.fails + 1 > FailureThreshold

Reached(t) == ~t.reported /\ t.fails + 1 >= FailureThreshold

AfterFailure(t, now) ==
    [Stamped(t, now) EXCEPT !.fails = @ + 1, !.reported = @ \/ Reached(t)]

(* A 304 keeps the snapshot and refreshes only the validators it carries.   *)
AfterNotModified(t, r, now) ==
    [Stamped(t, now) EXCEPT !.fails = 0, !.reported = FALSE,
                            !.tag = Or(r.tag, @), !.url = Or(r.url, @)]

AfterContent(t, r, now) ==
    [Stamped(t, now) EXCEPT !.fails = 0, !.reported = FALSE,
                            !.hash = r.content, !.tag = r.tag,
                            !.url = r.url, !.status = r.status]

Updated(t, r, now) ==
    CASE r.kind = "error"       -> AfterFailure(t, now)
      [] r.kind = "notModified" -> AfterNotModified(t, r, now)
      [] r.kind = "ok"          -> AfterContent(t, r, now)

Changed(t, r) == r.kind = "ok" /\ r.content # t.hash

Outcome(t, r) ==
    IF r.kind = "error" THEN "failure"
    ELSE IF Changed(t, r) THEN "changed"
    ELSE IF t.reported THEN "recovery" ELSE "unchanged"

EntryOf(t, r, now) ==
    [target |-> t.id, rev |-> t.rev + 1, at |-> now,
     outcome |-> Outcome(t, r), hash |-> Updated(t, r, now).hash,
     prev |-> IF r.kind = "error" THEN None ELSE t.hash,
     recovered |-> r.kind # "error" /\ t.reported,
     url |-> IF r.kind = "error" THEN None ELSE Updated(t, r, now).url,
     prevUrl |-> t.url]

MetadataDiffers(t, r) ==
    \/ r.kind = "ok" /\ r.status # t.status
    \/ r.url # None /\ r.url # t.url

(* The kinds of notification this check produces: at most one.              *)
NoticeKinds(t, r) ==
    IF r.kind = "error" THEN {k \in {"failure"} : Reached(t)}
    ELSE IF Changed(t, r) THEN {"changed"}
    ELSE IF t.reported THEN {"recovery"}
    ELSE {k \in {"metadata"} : MetadataDiffers(t, r)}

Notices(w, t, r, now) ==
    {[target |-> t.id, rev |-> t.rev + 1, kind |-> k, at |-> now,
      to |-> Configured[w]] : k \in NoticeKinds(t, r)}

--------------------------------------------------------------------------------
(* Control of a worker.                                                     *)

Finish(w) ==
    /\ pc' = [pc EXCEPT ![w] = "idle"]
    /\ cur' = [cur EXCEPT ![w] = None]
    /\ todo' = [todo EXCEPT ![w] = {}]
    /\ resp' = [resp EXCEPT ![w] = None]
    /\ stamp' = [stamp EXCEPT ![w] = 0]
    /\ attempt' = [attempt EXCEPT ![w] = 0]
    /\ adding' = [adding EXCEPT ![w] = None]

(* The loop of checkTargets moves to the next copy of its list S, in the    *)
(* order of the names; an error of one target does not stop the others.     *)
Advance(w, S) ==
    \/ S = {} /\ Finish(w)
    \/ \E t \in S :
         /\ \A u \in S : t.name <= u.name
         /\ pc' = [pc EXCEPT ![w] = "fetch"]
         /\ cur' = [cur EXCEPT ![w] = t]
         /\ todo' = [todo EXCEPT ![w] = S \ {t}]
         /\ resp' = [resp EXCEPT ![w] = None]
         /\ stamp' = [stamp EXCEPT ![w] = 0]
         /\ attempt' = [attempt EXCEPT ![w] = 1]
         /\ UNCHANGED adding

Goto(w, label) == pc' = [pc EXCEPT ![w] = label]

(* What Fetch may return for a request that carries the validator tag: 200  *)
(* with or without a validator, 304 only when the validator is that of the  *)
(* page, or an error.                                                       *)
Answers(tag) ==
    {Failed}
    \cup {[kind |-> "ok", content |-> page, tag |-> v, url |-> u, status |-> s] :
            v \in {page, None}, u \in Urls, s \in Statuses}
    \cup {[kind |-> "notModified", content |-> page, tag |-> v, url |-> u,
           status |-> None] :
            v \in {x \in {page, None} : tag = page}, u \in Urls}

--------------------------------------------------------------------------------
(* check and watch *)

(* store.Target or store.Targets: the copies this command will work from.   *)
StartCheck(w) ==
    /\ pc[w] = "idle"
    /\ \A i \in Live : targets[i].rev < MaxRevision
    /\ \E ids \in {Live} \cup {{i} : i \in Live} :
         LET copies == {targets[i] : i \in ids} IN
         \/ Advance(w, copies)                          \* --force
         \/ /\ Goto(w, "due")
            /\ todo' = [todo EXCEPT ![w] = copies]
            /\ UNCHANGED <<cur, resp, stamp, attempt, adding>>
    /\ UNCHANGED <<storeVars, clock, page>>

(* s.now() is read once, after the list, and decides for every copy.        *)
SelectDue(w) ==
    /\ pc[w] = "due"
    /\ Advance(w, {t \in todo[w] : Due(t, clock)})
    /\ UNCHANGED <<storeVars, clock, page>>

Fetch(w) ==
    /\ pc[w] = "fetch"
    /\ \E r \in Answers(cur[w].tag) : resp' = [resp EXCEPT ![w] = r]
    /\ Goto(w, "apply")
    /\ UNCHANGED <<storeVars, clock, page, cur, todo, stamp, attempt, adding>>

(* The context is cancelled before or during a fetch: nothing is recorded   *)
(* and no further target is checked.                                        *)
Cancel(w) ==
    /\ pc[w] \in {"fetch", "addFetch"}
    /\ Finish(w)
    /\ UNCHANGED <<storeVars, clock, page>>

(* The new content reaches the disk before the target refers to it.         *)
Apply(w) ==
    /\ pc[w] = "apply"
    /\ stamp' = [stamp EXCEPT ![w] = clock]
    /\ IF Changed(cur[w], resp[w])
       THEN /\ PutSnapshot(resp[w].content)
            /\ Goto(w, IF Configured[w] = {} THEN "commit" ELSE "report")
       ELSE /\ UNCHANGED storeVars
            /\ Goto(w, "commit")
    /\ UNCHANGED <<clock, page, cur, todo, resp, attempt, adding>>

(* successNotifications reads both snapshots; a missing one aborts the      *)
(* check before anything is committed.                                      *)
Report(w) ==
    /\ pc[w] = "report"
    /\ IF {cur[w].hash, resp[w].content} \subseteq blobs
       THEN Goto(w, "commit") /\ UNCHANGED <<cur, todo, resp, stamp, attempt, adding>>
       ELSE Advance(w, todo[w])
    /\ UNCHANGED <<storeVars, clock, page>>

Commit(w) ==
    /\ pc[w] = "commit"
    /\ LET t == cur[w]  r == resp[w]  now == stamp[w] IN
       \/ /\ CommitTarget(Updated(t, r, now), t.rev, EntryOf(t, r, now),
                          Notices(w, t, r, now))
          /\ Advance(w, todo[w])
       \/ /\ Exists(t.id) /\ ~Unmoved(t.id, t.rev)      \* ErrTargetChanged
          /\ Goto(w, "reload")
          /\ UNCHANGED <<storeVars, cur, todo, resp, stamp, attempt, adding>>
       \/ /\ ~Exists(t.id)                              \* not found
          /\ Advance(w, todo[w])
          /\ UNCHANGED storeVars
    /\ UNCHANGED <<clock, page>>

(* Faulty variant: checks again for as long as others interfere.            *)
ReloadForever(w) ==
    /\ pc[w] = "reload"
    /\ IF targets[cur[w].id] # None
       THEN /\ Goto(w, "fetch")
            /\ cur' = [cur EXCEPT ![w] = targets[cur[w].id]]
            /\ resp' = [resp EXCEPT ![w] = None]
            /\ stamp' = [stamp EXCEPT ![w] = 0]
            /\ attempt' = [attempt EXCEPT ![w] = @ + 1]
            /\ UNCHANGED <<todo, adding>>
       ELSE Advance(w, todo[w])
    /\ UNCHANGED <<storeVars, clock, page>>

(* checkWithConflictRetry: after a conflict the target is read again by ID, *)
(* and checked once more, due or not; the second conflict gives up.         *)
Reload(w) ==
    /\ pc[w] = "reload"
    /\ IF Exists(cur[w].id) /\ attempt[w] < 2
       THEN /\ Goto(w, "fetch")
            /\ cur' = [cur EXCEPT ![w] = targets[cur[w].id]]
            /\ resp' = [resp EXCEPT ![w] = None]
            /\ stamp' = [stamp EXCEPT ![w] = 0]
            /\ attempt' = [attempt EXCEPT ![w] = @ + 1]
            /\ UNCHANGED <<todo, adding>>
       ELSE Advance(w, todo[w])
    /\ UNCHANGED <<storeVars, clock, page>>

--------------------------------------------------------------------------------
(* add and remove *)

(* The early look-up of the name; a name already taken ends the command.    *)
StartAdd(w) ==
    /\ pc[w] = "idle"
    /\ Ids # used
    /\ \E n \in Names :
         /\ ~Taken(n)
         /\ adding' = [adding EXCEPT ![w] = n]
    /\ Goto(w, "addFetch")
    /\ UNCHANGED <<storeVars, clock, page, cur, todo, resp, stamp, attempt>>

(* The baseline request is unconditional; only a 200 continues.             *)
AddFetch(w) ==
    /\ pc[w] = "addFetch"
    /\ \E r \in Answers(None) :
         \/ /\ r.kind = "ok"
            /\ resp' = [resp EXCEPT ![w] = r]
            /\ Goto(w, "addPut")
            /\ UNCHANGED <<cur, todo, stamp, attempt, adding>>
         \/ r.kind # "ok" /\ Finish(w)
    /\ UNCHANGED <<storeVars, clock, page>>

AddPut(w) ==
    /\ pc[w] = "addPut"
    /\ stamp' = [stamp EXCEPT ![w] = clock]
    /\ PutSnapshot(resp[w].content)
    /\ Goto(w, "addCreate")
    /\ UNCHANGED <<clock, page, cur, todo, resp, attempt, adding>>

Baseline(id, n, r, now) ==
    [id |-> id, rev |-> 1, name |-> n, next |-> now + Every, checked |-> now,
     hash |-> r.content, tag |-> r.tag, url |-> r.url, status |-> r.status,
     fails |-> 0, reported |-> FALSE]

BaselineEntry(id, r, now) ==
    [target |-> id, rev |-> 1, at |-> now, outcome |-> "baseline",
     hash |-> r.content, prev |-> None, recovered |-> FALSE,
     url |-> r.url, prevUrl |-> None]

(* The name is tested again inside the creating transaction.                *)
AddCreate(w) ==
    /\ pc[w] = "addCreate"
    /\ \/ \E id \in Ids \ used :
            CreateTarget(Baseline(id, adding[w], resp[w], stamp[w]),
                         BaselineEntry(id, resp[w], stamp[w]))
       \/ /\ Taken(adding[w]) \/ Ids = used
          /\ UNCHANGED storeVars
    /\ Finish(w)
    /\ UNCHANGED <<clock, page>>

Remove(w) ==
    /\ pc[w] = "idle"
    /\ \E n \in Names : DeleteTarget(n)
    /\ UNCHANGED <<clock, page, workVars>>

--------------------------------------------------------------------------------
(* Failures and the environment *)

(* Any database or file operation of a check may return an error (the lock  *)
(* times out after two seconds, the disk is full): that check is abandoned  *)
(* without a commit, and the loop goes on.  An add gives up.                *)
IOError(w) ==
    /\ pc[w] \in {"apply", "report", "commit", "reload", "addPut", "addCreate"}
    /\ Advance(w, todo[w])
    /\ UNCHANGED <<storeVars, clock, page>>

(* The process is killed; what it wrote stays.                              *)
Crash(w) ==
    /\ pc[w] # "idle"
    /\ Finish(w)
    /\ UNCHANGED <<storeVars, clock, page>>

Publish ==
    /\ \E c \in Contents \ {page} : page' = c
    /\ UNCHANGED <<storeVars, clock, workVars>>

Tick ==
    /\ clock < MaxTime
    /\ clock' = clock + 1
    /\ UNCHANGED <<storeVars, page, workVars>>

WorkerStep(w) ==
    \/ StartCheck(w) \/ SelectDue(w) \/ Fetch(w) \/ Apply(w) \/ Report(w)
    \/ Commit(w) \/ Reload(w) \/ Cancel(w)
    \/ StartAdd(w) \/ AddFetch(w) \/ AddPut(w) \/ AddCreate(w) \/ Remove(w)
    \/ IOError(w) \/ Crash(w)

Next == (\E w \in Workers : WorkerStep(w)) \/ Publish \/ Tick

Spec == Init /\ [][Next]_vars

--------------------------------------------------------------------------------
(* Properties *)

(* The names bucket and the targets bucket describe the same targets: every *)
(* index entry leads to a live target of that name, and every live target   *)
(* is found under its name.  Two concurrent adds that both passed the early *)
(* look-up (service.go:118) must not both create, and a remove must not     *)
(* leave half of a target behind.                                           *)
NamesIndexed ==
    /\ \A k \in Keys : names[k] # None =>
         targets[names[k]] # None /\ Key[targets[names[k]].name] = k
    /\ \A i \in Live : names[Key[targets[i].name]] = i

(* The copies a worker may still commit from.                               *)
Held(w) == ({cur[w]} \cup todo[w]) \ {None}

(* A revision identifies a record: a copy held through fetches, snapshot    *)
(* writes and other commands is either the current record or carries an     *)
(* older revision, so the comparison in CommitTarget is enough.             *)
CopiesFaithful ==
    \A w \in Workers : \A c \in Held(w) :
        c.id \in Live =>
            /\ c.rev <= targets[c.id].rev
            /\ c.rev = targets[c.id].rev => c = targets[c.id]

(* Every hash the database refers to, in a target or in its history, has    *)
(* its snapshot file, whatever removes and crashes happened between the     *)
(* write of the file and the commit that refers to it.                      *)
SnapshotsPresent ==
    /\ \A i \in Live : targets[i].hash \in blobs
    /\ \A e \in history : {e.hash, e.prev} \ {None} \subseteq blobs

(* History and queued notifications belong to live targets only: a check    *)
(* that was in flight when its target was removed leaves nothing behind.    *)
NoOrphans ==
    /\ \A e \in history : e.target \in Live
    /\ \A q \in queue : q.target \in Live

(* Each revision of a live target was committed once, with one entry, the   *)
(* last entry describes the target, and each entry continues the one before *)
(* it: the hash a check reports as previous is the one the preceding commit *)
(* left, though the check computed it from a copy read long before.         *)
HistoryChain ==
    /\ \A i \in Live :
         /\ {e.rev : e \in {h \in history : h.target = i}} = 1..targets[i].rev
         /\ \A e \in history : e.target = i /\ e.rev = targets[i].rev =>
              e.hash = targets[i].hash /\ e.at = targets[i].checked
    /\ \A e, f \in history : e.target = f.target =>
         /\ e.rev = f.rev => e = f
         /\ f.rev = e.rev + 1 =>
              IF f.outcome = "failure" THEN f.hash = e.hash ELSE f.prev = e.hash

(* History() sorts by CheckedAt; that order is the commit order, because a  *)
(* check that read an older state cannot commit after a newer one.          *)
HistoryTimeOrdered ==
    \A e, f \in history : e.target = f.target /\ e.rev < f.rev => e.at <= f.at

(* The validator stored with a target belongs to the snapshot stored with   *)
(* it, so a 304 never hides a change: the snapshot a check keeps is what    *)
(* the server held when it answered.                                        *)
NoMissedChange ==
    /\ \A i \in Live : targets[i].tag \in {None, targets[i].hash}
    /\ \A w \in Workers : resp[w] # None /\ resp[w].kind = "notModified" =>
         cur[w].hash = resp[w].content

(* The effective URL a successful check reports as previous is the one the  *)
(* last success before it recorded, failures in between notwithstanding.    *)
RedirectChain ==
    \A f \in history : f.outcome \notin {"failure", "baseline"} =>
        \E e \in history :
            /\ e.target = f.target /\ e.rev < f.rev /\ e.outcome # "failure"
            /\ e.url = f.prevUrl
            /\ \A g \in history :
                 g.target = f.target /\ e.rev < g.rev /\ g.rev < f.rev
                    => g.outcome = "failure"

FailedRun(i, r, n) ==
    \A k \in 1..n : \E e \in history :
        e.target = i /\ e.rev + k = r + 1 /\ e.outcome = "failure"

(* A failure notice is queued exactly at the FailureThreshold-th failure of *)
(* an outage (the entries before it failed, the one before those did not),  *)
(* and a check is marked as a recovery exactly when such an outage precedes *)
(* it: one alarm and one all-clear per outage, whoever ran the checks.      *)
OneAlarmPerOutage ==
    /\ \A q \in queue : q.kind = "failure" =>
         /\ FailedRun(q.target, q.rev, FailureThreshold)
         /\ ~FailedRun(q.target, q.rev, FailureThreshold + 1)
    /\ \A e \in history : e.outcome # "failure" =>
         (e.recovered <=> FailedRun(e.target, e.rev - 1, FailureThreshold))

(* An entry that must be announced: a change, a recovery, a new redirect,   *)
(* or the failure that reaches the threshold.                               *)
Announced(e) ==
    \/ e.outcome = "changed" \/ e.recovered
    \/ e.outcome \notin {"failure", "baseline"} /\ e.url # e.prevUrl
    \/ /\ FailedRun(e.target, e.rev, FailureThreshold)
       /\ ~FailedRun(e.target, e.rev, FailureThreshold + 1)

(* When every process has destinations, each such entry has its notice:     *)
(* an event is queued in the transaction that records it, or not recorded.  *)
EventsAnnounced ==
    (\A w \in Workers : Configured[w] # {}) =>
        \A e \in history : Announced(e) =>
            \E q \in queue : q.target = e.target /\ q.rev = e.rev

(* The processes may read different providers files: what a process with    *)
(* destinations records it announces to them in the same transaction, even  *)
(* when the failures before it were recorded by a process that has none.    *)
(* Only the failure that reaches the threshold may be lost to everyone: no  *)
(* one announces it when the process that records it has no destination.    *)
AnnouncedWithRecord ==
    [][ \A w \in Workers : Configured[w] # {} /\ Commit(w) =>
          \A e \in history' \ history : Announced(e)' =>
              \E q \in queue' :
                  q.target = e.target /\ q.rev = e.rev /\ q.to = Configured[w] ]_vars

(* No step takes a committed state back: while a target lives its revision  *)
(* never decreases, it changes only together with the revision and by one,  *)
(* and the entries already recorded for it stay.                            *)
Forward ==
    \A i \in Live \cap Live' :
        /\ targets'[i].rev \in {targets[i].rev, targets[i].rev + 1}
        /\ targets'[i].checked >= targets[i].checked
        /\ targets'[i].rev = targets[i].rev => targets'[i] = targets[i]
        /\ {e \in history : e.target = i} \subseteq history'

NoRollback == [][Forward]_vars
================================================================================
