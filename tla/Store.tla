--------------------------------- MODULE Store ---------------------------------
(****************************************************************************)
(* The durable state of FetchDiff: the four buckets of the bolt database    *)
(* (targets, names, history, notifications) and the content-addressed       *)
(* snapshot files beside it, with one operator per transaction of           *)
(* internal/store/store.go.  Every operation of the code opens the database *)
(* (an exclusive file lock), runs one transaction and closes it, so each    *)
(* operator below is atomic; writing a snapshot file is a separate step,    *)
(* under no lock.                                                           *)
(*                                                                          *)
(* A content stands for its SHA-256 hash and for the bytes; a name is a     *)
(* number so that Targets() can sort by it; Key is the lower-casing that    *)
(* the names bucket applies.  A history entry or a notification carries the *)
(* revision whose commit wrote it, which stands for its random ID.          *)
(****************************************************************************)
EXTENDS Naturals, FiniteSets

CONSTANTS
    Names,         \* names a user may give a target, a set of numbers
    Keys, Key,     \* index keys, and the key (lower-cased form) of each name
    Ids,           \* the pool newID draws from
    Contents,      \* page contents, standing for their hashes too
    Urls,          \* effective URLs after redirects
    Statuses,      \* HTTP statuses of successful responses
    Destinations,  \* configured notification destinations
    None           \* an absent record, validator, ...

ASSUME StoreAssumption ==
    /\ Names \subseteq Nat
    /\ Key \in [Names -> Keys]
    /\ None \notin Ids \cup Contents \cup Urls \cup Statuses \cup Names

Outcomes == {"baseline", "changed", "unchanged", "failure", "recovery"}
Kinds == {"changed", "failure", "recovery", "metadata"}

Target ==
    [id: Ids, rev: Nat, name: Names, next: Nat, checked: Nat,
     hash: Contents, tag: Contents \cup {None},
     url: Urls, status: Statuses, fails: Nat, reported: BOOLEAN]

Entry ==
    [target: Ids, rev: Nat, at: Nat, outcome: Outcomes,
     hash: Contents, prev: Contents \cup {None}, recovered: BOOLEAN,
     url: Urls \cup {None}, prevUrl: Urls \cup {None}]

Notice ==
    [target: Ids, rev: Nat, kind: Kinds, at: Nat, to: SUBSET Destinations]

VARIABLES
    targets,   \* the targets bucket: id -> record or None
    names,     \* the names bucket: key -> id or None
    history,   \* the history bucket, a set of entries
    queue,     \* the notifications bucket, a set of notices
    blobs,     \* the snapshot files that exist
    used       \* ids newID has returned: random, hence never returned again

storeVars == <<targets, names, history, queue, blobs, used>>

StoreTypeOK ==
    /\ targets \in [Ids -> Target \cup {None}]
    /\ names \in [Keys -> Ids \cup {None}]
    /\ history \subseteq Entry
    /\ queue \subseteq Notice
    /\ blobs \subseteq Contents
    /\ used \subseteq Ids

StoreInit ==
    /\ targets = [i \in Ids |-> None]
    /\ names = [k \in Keys |-> None]
    /\ history = {}
    /\ queue = {}
    /\ blobs = {}
    /\ used = {}

Live == {i \in Ids : targets[i] # None}

Taken(n) == names[Key[n]] # None

--------------------------------------------------------------------------------
(* Faulty variants of the transactions, which the runs must reject.         *)

(* Trusts the early look-up of the name.                                    *)
CreateUnchecked(t, e) ==
    /\ targets' = [targets EXCEPT ![t.id] = t]
    /\ names' = [names EXCEPT ![Key[t.name]] = t.id]
    /\ history' = history \cup {e}
    /\ used' = used \cup {t.id}
    /\ UNCHANGED <<queue, blobs>>

(* Also deletes the snapshot files that no other target refers to.          *)
DeleteAndCollect(n) ==
    /\ Taken(n)
    /\ LET id == names[Key[n]] IN
         /\ targets' = [targets EXCEPT ![id] = None]
         /\ names' = [names EXCEPT ![Key[n]] = None]
         /\ history' = {e \in history : e.target # id}
         /\ queue' = {q \in queue : q.target # id}
         /\ blobs' = {e.hash : e \in {f \in history : f.target # id}}
    /\ UNCHANGED used

(* Writes without comparing the revision.                                   *)
BlindCommit(t, expected, e, notices) ==
    /\ targets[t.id] # None
    /\ targets' = [targets EXCEPT ![t.id] = t]
    /\ history' = history \cup {e}
    /\ queue' = queue \cup {q \in notices : q.to # {}}
    /\ UNCHANGED <<names, blobs, used>>

(* Compares the revision of a target that exists, and records the entry and *)
(* the notices in any case.                                                 *)
UpsertCommit(t, expected, e, notices) ==
    /\ targets[t.id] # None => targets[t.id].rev = expected
    /\ targets' = [targets EXCEPT ![t.id] = IF @ = None THEN @ ELSE t]
    /\ history' = history \cup {e}
    /\ queue' = queue \cup {q \in notices : q.to # {}}
    /\ UNCHANGED <<names, blobs, used>>

(* Retries a refused write on top of the current revision, instead of       *)
(* checking again.                                                          *)
RebasedCommit(t, expected, e, notices) ==
    /\ targets[t.id] # None
    /\ LET rev == targets[t.id].rev + 1 IN
         /\ targets' = [targets EXCEPT ![t.id] = [t EXCEPT !.rev = rev]]
         /\ history' = history \cup {[e EXCEPT !.rev = rev]}
    /\ queue' = queue \cup {q \in notices : q.to # {}}
    /\ UNCHANGED <<names, blobs, used>>

--------------------------------------------------------------------------------
(* Transactions.  The guard of each is the condition under which the code   *)
(* reaches the writes; the callers model the error returns.                 *)

CreateTarget(t, e) ==
    /\ ~Taken(t.name)
    /\ targets' = [targets EXCEPT ![t.id] = t]
    /\ names' = [names EXCEPT ![Key[t.name]] = t.id]
    /\ history' = history \cup {e}
    /\ used' = used \cup {t.id}
    /\ UNCHANGED <<queue, blobs>>

(* One transaction drops the target, its index entry, its history and its   *)
(* queued notifications; the snapshot files stay.                           *)
DeleteTarget(n) ==
    /\ Taken(n)
    /\ LET id == names[Key[n]] IN
         /\ targets[id] # None
         /\ targets' = [targets EXCEPT ![id] = None]
         /\ names' = [names EXCEPT ![Key[n]] = None]
         /\ history' = {e \in history : e.target # id}
         /\ queue' = {q \in queue : q.target # id}
    /\ UNCHANGED <<blobs, used>>

Exists(id) == targets[id] # None

(* The compare of the compare-and-swap: ErrTargetChanged when it fails.     *)
Unmoved(id, expected) == targets[id].rev = expected

CommitTarget(t, expected, e, notices) ==
    /\ Exists(t.id)
    /\ Unmoved(t.id, expected)
    /\ targets' = [targets EXCEPT ![t.id] = t]
    /\ history' = history \cup {e}
    /\ queue' = queue \cup {q \in notices : q.to # {}}
    /\ UNCHANGED <<names, blobs, used>>

(* A snapshot that exists is not written again; a new one appears whole,    *)
(* by rename.                                                               *)
PutSnapshot(c) ==
    /\ blobs' = blobs \cup {c}
    /\ UNCHANGED <<targets, names, history, queue, used>>

================================================================================
