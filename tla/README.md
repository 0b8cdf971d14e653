# FetchDiff: TLA+ models, checks and proofs

FetchDiff watches web pages: it fetches each target on a schedule, keeps every
distinct content as a snapshot, records each check in a history, and queues and
delivers notifications. It has no server: a long-running `watch` process, `check`
runs from cron and `add`, `remove` and `diff` commands all open the same data
directory. The database (bolt) is opened for one transaction at a time under an
exclusive file lock, so between two transactions of one command any other command
may run, crash or be interrupted. The models here are about that: what several
processes do to one data directory.

## Parts of the system

| Part (source) | State | Operations | What makes it correct | Model |
|---|---|---|---|---|
| State store (`internal/store`) | buckets targets, names, history, notifications; snapshot files | CreateTarget, DeleteTarget, CommitTarget, ClaimNotifications, SaveDelivery, ReleaseNotification, PutSnapshot, Snapshot, reads | buckets agree with one another; a commit replaces exactly what was read; what is recorded can be read | `Store`, `Dispatch`, `Readers`, `Snapshots` |
| Monitoring service (`internal/app`) | copies of targets in the hands of a command | Add, Remove, CheckTarget, CheckDue, CheckAll, RevisionDiffAt | no change missed, no state taken back, one alarm per outage, each event announced with its commit | `Monitor`, `Readers` |
| Fetch client (`internal/fetch`) | attempt, pause, last failure | Fetch | an answer is true of one moment; retries and pauses as promised; calls end | `Fetch`, `Answer` |
| Notification dispatcher (`internal/notifier/dispatcher.go`) | claimed events, position in a text | Drain | nothing lost, chunks in order, no repeats without faults, older events first | `Dispatch`, `Queue` |
| Notification client (`internal/notifier/client.go`) | configured destinations | Load, Has, SupportsAttachment, Send, SplitMessage | (seen through the dispatcher) | `Dispatch` |
| Watch loop and schedule (`cmd/fetchdiff/main.go`, `internal/schedule`) | sleep timer | watch, Due, NextWake | never sleeps past a due target, every due target is checked, through errors that end the process | `Watch` |
| Doctor (`cmd/fetchdiff/main.go`) | what it read so far | doctor | healthy only if all can be read; a snapshot is damaged only if a power loss took it; not found only what a remove took beside it | `Snapshots` |
| Interval parser and its inverse (`cmd/fetchdiff/interval.go`, `table.go`) | none | parseInterval, compactDuration | exact or refused; what is shown can be typed back | `Interval` |
| Diff, formatting, reports (`internal/compare`, `extract`, `report`) | none | Build, Beautify, parseDiff | each row shows the line it numbers; a change has a report | `Report` |
| systemd installer (`internal/systemd`) | unit file, systemd | Install | what a success reports is in place, loaded, enabled and running, and stays so where it was synced | `Install` |
| Other commands, output (`cmd/fetchdiff`) | none | list, show, status, notify-test, ... | - | not modelled (reads and text) |
| Data directory, providers template (`internal/config`) | files | ResolvePaths, EnsurePaths | - | not modelled |
| Provider senders, multipart (`internal/notifier/*_attachment.go`, ...) | none | network I/O | - | external |

How they interact: `check` and `watch` read targets from the store, call the fetch
client with no lock held, write the snapshot file, and commit record, entry and
notifications in one compare-and-swap transaction. Before and after, they drain
the queue: claim events under a lease, send, save the position after each
message. Removal deletes target, index entry, history and queued events in one
transaction.

What is hard: copies that are stale when they are used (a fetch lasts up to minutes),
processes that die between a side effect and its record, leases that expire on
a slow process, failures in the middle of a text of several messages, files of
configuration that differ between processes, times taken before a commit but
sorted after it, a clock that is set, pauses computed in machine words, files
renamed into a directory that is not synced when the power fails. PROJECT.json
lists each of these under "hazards", at the line where it bites.

## Modules

**Store** is the durable state with one operator per transaction. A content stands
for its hash, a name for a number (`Targets()` sorts by it), `Key` for the lower-casing
of the names bucket. An entry or notice carries the revision whose commit wrote it,
which stands for its random ID. IDs are never drawn twice (`used`).

**Monitor** adds the processes: `pc` is where a worker is in its command, `cur` and `todo`
are its copies of targets, `resp` and `stamp` the response and the time taken after
it, `attempt` the conflict loop. `StartCheck`, `SelectDue`, `Fetch`, `Apply`, `Report`,
`Commit`, `Reload` follow `checkTargets`, `checkWithConflictRetry` and `check`; `StartAdd`,
`AddFetch`, `AddPut`, `AddCreate` follow `Add`; `Remove` is one transaction. `Cancel`, `IOError` and
`Crash` may end a command at every point. The pure part of a check (`Updated`, `EntryOf`,
`Notices`) is written over the copy, the response and the time. The server
(`Answers`) gives a 304 only if the validator it got is that of the page, with or without
a validator of its own.

**Readers** puts a `diff` command beside the processes of Monitor: look-up, history
and the two snapshots are four separate reads.

**Fetch** is one call of the fetch client: attempts, failures with their classes,
pauses, Retry-After, cancellation, with durations in words of `Width` bits.
**Answer** is its abstract specification: one call gives one answer, true of one
moment of the call. Monitor's `Fetch` step is such an answer; `Fetch` is shown to
implement `Answer` (`AnswersTrue`).

**Dispatch** is the queue with its leases and the drain loop. Events are numbered in
the order of CreatedAt; instants are kept as the time left until them, so time can
run for ever in a finite space. `got` and `dups` are what the destinations
received; `faults` counts crashes, lost answers, I/O errors, cancellations and each worker
whose lease ran out while it worked (`Overrun`). A process reads the providers file when it
starts (`config`), and `EditProviders` changes it under others.

**Queue** is what Dispatch promises, with no word of leases, chunks, retries or
processes: an event waits for each destination it was queued for until that destination
received all of it, or its target is removed. Dispatch implements it
(`Abstract` in Dispatch maps the entries of the queue and the chunks received to it).

**Watch** is the loop of the watch command over the time left until each
NextCheckAt: drain, check what is due, drain, sleep. Other commands add, check and
remove targets at any time, and the wall clock may be set once. An error while the
database is opened or the sleep is planned ends the process, and systemd starts it again, as the unit
asks (`Restart=on-failure`).

**Disk** is what the writers of files rely on: a rename is atomic for processes, a power
loss may undo it until its directory is synced, and may tear a file that was not
synced. **Snapshots** is PutSnapshot and Snapshot over it, step by step, for one
target that processes check, add and remove while others run the doctor, which lists the targets, looks
each up again, reads its history by its ID (`born` stands for it) and verifies each file, in steps
of their own;
**Install** is the service installer over it, beside other installers, an
administrator and systemd. Its `promise` is what the last installer that succeeded told its user,
whether it wrote the file itself (and so synced its directory), and whether a power loss undid
the file since. **Host** composes the two: they touch different
files and meet in the power loss, so a behaviour runs one family.

**Interval** reads and writes interval texts as sequences of components, in words of
`Bits` bits. **Report** is Build and parseDiff: contents are sequences of lines with or
without a newline at the end, `Pretty` is what a formatter makes of a line, the diff has one
hunk with `Context` lines around it, and rows are read from it one by one. **Texts**
composes the two for one run.

Composition: Monitor extends Store and Readers extends Monitor. Dispatch takes
from Monitor that the events of a target are queued in the order of their creation
(`HistoryTimeOrdered`), Watch takes a check as one step that does or does not record a new
time, Monitor takes a fetch as one step (`Answer`) and a snapshot as written in one step and
never lost; Snapshots says what that leaves out.

## Runs

| Run | Instance | What it shows |
|---|---|---|
| readers | 2 processes, 2 names with one key, 2 IDs, 2 contents, 1 reader | `NamesIndexed`, `SnapshotsPresent`, `NoOrphans`, `HistoryTimeOrdered`, `NoMissedChange`, `NoRollback` with adds, removes and checks racing; `ChangesShowable`, `ChangeConnected`, `LatestChosen` for a diff beside them |
| events | 2 processes with destinations, 1 target, 2 contents, 2 URLs, threshold 2, up to revision 4 | `HistoryChain`, `RedirectChain`, `EventsAnnounced` through changes, moves, outages and recoveries |
| outage | 2 processes, one without destinations, 1 target, up to revision 6 | `TypeOK`, `CopiesFaithful`, `OneAlarmPerOutage`, `AnnouncedWithRecord` through failures, changes and recoveries |
| fetch | 5 retries, words of 5 bits, 10 headers | `TypeOK`, `AnswersTrue`, `Persistent`, `Patient`, `Terminates` |
| lease | 2 dispatchers, 2 events, 1 destination, 2 faults | `TypeOK`, `ChunksInOrder`, `DuplicatesNeedFaults`, `OneSender`, `NewerWaits`, `ProgressKept`, `ImplementsQueue` |
| live | 2 dispatchers, 2 events, 2 destinations, one dead and perhaps gone from the providers file | `NothingLost`, `EventuallyServed` |
| watch | 3 targets, sleep of at most 3 units | `TypeOK`, `Alert`, `EventuallyChecked` |
| host | 2 processes, 3 contents, 3 commits; 2 installers, 2 units | `SnapshotsKept`, `DoctorHonest`, `PromiseKept` |
| texts | words of 7 bits, texts of 3 components, contents of 3 lines | `ReadExactly`, `RoundTrip`, `RowsFaithful`, `LinesDisplayable` |
| order | 2 destinations | violation of `NewerWaits` (below) |
| reconfigure | text first, attachments later | violation of `NothingLost`, which the live run finds true of a steady file (below) |
| report | contents of 1 line | violation of `Displayable` (below) |

Bounds. Two processes are enough for each race the code can lose: a compare-and-swap
and a lease each concern one holder and one challenger. `MaxRevision` stops new checks, not
those under way or retried. The readers run needs two names with one key for two adds
that pass the early look-up, and two IDs for a target removed and added again.
The outage and events runs use a threshold of 2 instead of 3, so that whole outages fit (two of them in
the outage run); in the events run the recovery is a check that lost its commit and is done again. `MaxTime`
bounds the clock at 1, in the outage run at 0, which gives commits of one time and of different
times. In the fetch run the backoff passes its cap and then the word
(attempt 5), and two headers wrap, one to a negative and one to a small pause. `ClaimLimit` is
50 as in the code and never bites: at most one event per destination is due at a time,
so it would take more than fifty destinations. `MaxFaults` bounds the faults of a
behaviour of Dispatch: crashes, lost answers, errors of a transaction, cancellations and leases that
run out on their owner. A refusal by a destination that is not `Dead` counts as one too, which is more
than `TestDispatcherResumesAtFailedChunk` allows for: it wants no repeat after a clean refusal, and
what a refusal adds to `DuplicatesNeedFaults` is room for one. The lease run has one destination; what is
served for one destination and failed for another is the live run, by `NothingLost`. In the live run a lease lasts one unit, so that it runs out under
every slow process. In the host run the third content lets a target change
twice, to another snapshot and back, around a power loss. In the texts run
a week is 24 units of a word that ends at 63, so that products and sums wrap; `Context` is 1, so that
lines are left out on both sides of a hunk, and one line differs from another by its formatting
only. `Dashes` and `Pluses` are empty there: with a line that begins with `--` or `++`
`RowsFaithful` does not hold (below).

In the runs of Monitor and Readers a list has at most one live target: two targets with two contents, two
processes and an outage are more states than a run can visit. The theorems about Monitor hold for lists of any
length, and the watch run works through lists of three targets.

Symmetry is declared over model values that the specification only compares; no
liveness property is checked under it.

Deadlock is checked in every run but those of Texts, whose algorithms end: elsewhere the
environment can always move.

Fairness. In Dispatch a running process keeps draining (weak fairness of its step), a
cancelled one exits after its drain (strong fairness, as it comes back to idle again
and again), time passes; with `Prompt`, letting a lease run out on its owner is
a fault, since a send takes at most a timeout of seconds against a lease of thirty minutes. In
Watch the loop, systemd and time go on, and the database, whose lock others hold for
moments, can be opened and read now and then (strong fairness of Open and List). In Fetch the client's own timeout bounds every
wait for the server.

Each property of a passing run has a mutant of the code that TLC rejects under that run:
the faulty variants stand next to the definitions they replace.

## Disagreements with what the repository says

*order*: `ClaimNotifications` makes an event due through any destination for which it is
the earliest, and the drain then serves all destinations of it that are not waiting. A
newer event thus reaches a destination ahead of an older one of the same target that waits
there for its retry, against what `store_test.go:206` tests with one destination.

*reconfigure*: the stored position counts text chunks or, with attachment support,
whole reports. An event stopped after its first chunk counts as delivered once the
destination gains attachment support, and leaves the queue, against "Failed
deliveries stay queued and retry" (README).

*report*: `Build` ends both texts with a newline before it compares them. Two contents that
differ only in the newline at their end have different hashes and no diff, the report has no
row and is an error, and the check of a target with destinations ends before its commit, each
time. Changes that formatting takes away are meant to be shown raw (`diff.go:29`,
`diff_test.go:25`); this one has nothing to show.

Met, but contradicted by no document: the backoff `250ms << (attempt-1)` wraps from
attempt 37 on and the pauses vanish; a Retry-After of more than 292 years in seconds
wraps; the line that `check` prints after a change shows the latest recorded change, read
again, which another process may have made; a process without destinations
marks an outage as reported for all; a removed line that begins with `--` is taken for the name of a
file by `parseDiff` and by the counts of `Build`, is left out, and shifts the numbers after
it; a check that cannot be recorded leaves its target due, and the watch loop fetches it again
every 250 ms; the rename of a snapshot may be undone by a power loss after the commit that
refers to it; a unit file that another installer wrote after the inspection
is replaced without `--force`; an install that finds the unit file in place reports success without
a sync of its directory, so that a power loss may undo what it reported when the installer that
renamed the file was killed before its own sync; the doctor fails with "not found" about a target that was
removed after it listed it.

## Proofs

TLAPS proves, for any number of processes, names, targets, contents, events, destinations,
installers, retries, readers' choices, texts and any bounds:

| Module | Theorem | Property |
|---|---|---|
| MonitorProofs | TypeCorrect, NamesStayIndexed, RevisionsIdentify | `TypeOK`, `NamesIndexed`, `CopiesFaithful` |
| MonitorHistory | SnapshotsStay, NothingOrphaned, HistoryLinked, HistoryInOrder, NeverRollsBack | `SnapshotsPresent`, `NoOrphans`, `HistoryChain`, `HistoryTimeOrdered`, `NoRollback` |
| MonitorEvents | NoChangeMissed, RedirectsChained, OutageAlarmedOnce, NoEventUnannounced, RecordedWithNotice | `NoMissedChange`, `RedirectChain`, `OneAlarmPerOutage`, `EventsAnnounced`, `AnnouncedWithRecord` |
| MonitorEvents (Readers) | ChangesStayShowable, ChangesConnected, LatestIsChosen | `ChangesShowable`, `ChangeConnected`, `LatestChosen` |
| DispatchProofs | DispatchTypes, OldCopiesRefused, OneSenderWithoutFault | `TypeOK`, `ProgressKept`, `OneSender` |
| DispatchProofs, one destination per event | NewerWaitsForOlder | `NewerWaits` |
| DispatchProofs, a steady providers file | ChunksArriveInOrder, NothingIsLost, DispatchersAreAQueue, RepeatsArePaidFor | `ChunksInOrder`, `NothingLost`, `ImplementsQueue`, `DuplicatesNeedFaults` |
| FetchProofs | CallsAreTyped, CallsAnswerTruly, CallsPersist, CallsWait | `TypeOK`, `AnswersTrue`, `Persistent`, `Patient` |
| WatchProofs | LoopIsTyped, NeverOversleeps | `TypeOK`, `Alert` |
| HostProofs (Snapshots) | SnapshotsStayKept, DoctorIsHonest | `SnapshotsKept`, `DoctorHonest` |
| HostProofs (Install) | InstallsKeepPromises | `PromiseKept` |
| HostProofs (Host) | HostKeepsSnapshots, HostDoctorIsHonest, HostKeepsPromises | `SnapshotsKept`, `DoctorHonest`, `PromiseKept` |
| TextsProofs | IntervalsAreReadExactly, IntervalsRoundTrip | `ReadExactly`, `RoundTrip` |
| TextsProofs, no line like a header | ReportsAreFaithful, ChangesOfLinesAreShown | `RowsFaithful`, `LinesDisplayable` |

They rest on the assumptions of each module on its constants, and seven on a hypothesis more,
named in the theorem:

- `OneAddress` (NewerWaitsForOlder): each event is addressed to one destination. Without it
  the order run shows the property false of the code.
- `Steady` (the four theorems on what is received): a destination that takes attachments in one version of the
  providers file takes them in every other; destinations may still come and go. Without it
  the reconfigure run shows `NothingLost` false of the code.
- `NoHeaders` (the two theorems on reports): no line of a content begins with `--` or `++`. Without
  it `parseDiff` leaves such a line out and the numbers after it shift (see above), and a change of
  nothing else has no row. The texts run makes the same choice of constants.

Of the assumptions on constants, those that the code does not state in so many words: the processes,
events and destinations of Dispatch are finitely many, since repeated messages are
counted; `PowersAssumption` of Fetch and `WordAssumption` of Interval are laws of arithmetic that the provers do not know, as they leave `^`
uninterpreted, and that TLC evaluates; `Floor <= MaxWait` in Watch is 250 ms against 30 s; the path of
the unit file in Host is not that of a snapshot; a value that
stands for nothing is not one of the things.

**Monitor.** `TypeOK` is not inductive alone: `TypeInv` adds the shape of a worker (what it holds at each
label: a copy while it checks, a response from apply on, a name while it adds).
`Core` adds three facts that need one another. Each record stands under its own ID and
IDs in use were drawn (`Identity`); names and targets index each other; a copy with the
current revision is the current record (`CopiesFaithful`). The last is why
comparing revisions in CommitTarget is enough: with it, what a commit computed
from the copy it computed from the record it replaces. `MonitorHistory` then carries, on top of
`Core`, that what a worker is about to commit has its snapshots written (`Stored`, `Backed`),
that its time stamp is neither ahead of the clock nor behind the record it may replace (`Timely`,
`Timed`), and the facts about the past: entries belong to live targets, there is one per
revision, the last one describes the record, each continues the one before, and
times follow revisions (`Past`). `NeverRollsBack` is an action property from the same invariant.
The proofs have a lemma per kind of step: steps that leave the store alone, the
commit, the creation, the removal, the snapshot.

`MonitorEvents` goes from the chain to what is announced. `Honest` says that every validator, in a
record, a copy or a response, belongs to the snapshot or content beside it, and that a
304 answers the copy it was asked for; `NoMissedChange` is part of it. `Ledger` says where the run of failures at the end
of a history begins (`Anchored`), that the stored flag is set once that run is long enough
(`Alarmed`), that notices are of committed revisions, and that each alarm and all-clear is where it
should be. The lemma `RunsCounted` ties the stored counter to the length of the run, by
the well-founded order of the revisions. For the diff command, `ReaderInv` says that a change it has chosen was recorded for
its target, keeps both snapshots, and stays recorded while its target lives.

**Dispatch.** The invariant is built in layers. `TypeInv` types what a worker has in hand at each label.
`Known` says that copies are of queued events and that each event is in hand once. `Exact` says that the
copy of a worker that still owns an event agrees with the record: a copy may be old
only if its worker no longer owns the event, which is what SaveDelivery compares. On these rest:
`Exclusive` (without a fault a worker that sends holds a lease that lasts),
`Oldest` (what is in hand for a destination is the first queued for it), and `Receipts` (what is
stored, copied or in hand counts messages that were received, in their order). `NothingLost`
and the refinement of Queue follow from `Receipts`: a message is at most the receipt
of its event, the end of a delivery the settlement of a destination that has it all,
every other step nothing to the queue.

`RepeatsArePaidFor` is an argument by potential (`Charged`): the messages repeated so far, those under way and
those received but not stored with nobody left to store them (`Owed`) are together no more than the faults
and the messages under way that are new to their destination. A step changes what one worker and one
destination add to that (`Account`, `Share`), and a fault pays for one. The proof showed a worker whose lease runs
out in the middle of a send to be a fault of its own: when time passes, `Tick` counts each of them.

**Fetch** implements Answer: the body being read was offered during
the call, a call that is not done has returned nothing, and a pause follows
a failure that may pass with an attempt left (`IInv`); each step is then an answer,
a change of the page, or nothing to the caller. Durations play no part in that, so it holds
for pauses that wrap. `CallsWait` adds that a pause is the one its failure called for (`PauseInv`), and that what
is representable does not wrap (`WrapKeeps`).

**Watch.** `Covered`: while the watcher sleeps, what is left of the sleep is within the floor or ends no later than each target it was planned
for gets due; `Phases` says that nothing is checked during a sleep. A tick takes one from both sides, and
the minimum of NextWake exists because the times left are numbers not below 0 when
none is due.

**Snapshots** carries that paths hold their content or nothing, now and after a power loss,
that a process past PutSnapshot finds its file, since only a power loss takes files and it takes
the process too, and that what a doctor read of is there or lost. `Finds` states what each of the doctor's
three answers may rest on; each is given by one action only (`DoctorFinds`).

**Install** says for each installer at work what it has made so, if no other has acted
since it began (`Progress`): the file, its directory, the loaded unit, the
enablement, the running service, in the order of its steps. A promise is the sum of them (`Kept`): the file
survives every power loss if the installer wrote it, since then it has synced its directory. If
it found the file in place, the loss may bring back what was there before; from then on the promise is
`undone`, and all that is left of it is that systemd has loaded what is on the disk.

**Host** runs one family of commands in a behaviour. `HostInv` is the invariant of the one at work and
what it leaves of the other: nothing is promised of a service, or no snapshot was recorded and no
path of one has a file (`Untouched`), as installers rename to the path of the unit only.

**Interval.** `Meaning` is the last of the partial sums of a text, a recursive function. While a text is read,
the total is the sum of the components so far and has not wrapped (`ReadOk`); the test before a product is
exact (`FitsExactly`), and since sums only grow (`SumsBounds`) a text refused halfway
is worth too much as a whole. What compactDuration writes adds up to its interval (`TotalOfCompact`), by the law
of division with remainder once for each unit. Induction over the places of a text goes by the lemma `Induction`: a
set of numbers that has 0, and with each number the next, has all of them, since the least one
it lacked would have a predecessor that it has.

**Report.** A hunk has an outline: the lines that both texts begin with, the removed, the added, the lines both end with,
where it begins and how much it shows after the change (`HunkShape`). From the
outline follows what number the reader has reached at each line (`OldAt`, `NewAt`), that a line not
added is the old line of its number and one not removed the new one (`Located`), that the
numbers shown are an interval in each text (`NumbersCovered`), and that what lies outside of
both is the same (`UnshownSame`). The invariant `ReportOk` says that the rows are the lines
read so far with those numbers.

The inductive invariants of the state machines were first checked by TLC on the instances of the runs.

Only model-checked: `EventuallyServed`, `EventuallyChecked` and `Terminates`, since liveness under fairness and ENABLED are
outside of what the prover does. Everything else that a passing run checks is a theorem; the
findings are the counterexamples of their runs.

## Abstractions and what is left out

- In Monitor a snapshot is written in one step and never lost, and a crash ends a process only;
  Snapshots adds the file operations and the power loss for one target. A commit of the
  database is durable when it returns.
- Files that decay on the disk, or that a user edits, are not modelled; the hash that the doctor
  compares could find them, `Readable` stands for both tests.
- The clock of Monitor does not go back: `HistoryTimeOrdered`, `NoRollback` (for the time of the last check)
  and `LatestChosen` hold while wall-clock time does not. A clock that is set is in Watch only.
- Fetch takes a body that breaks off for an error, always. The code has no way to tell it when the
  server delimits the body by closing the connection and gives no length: what came is then the
  page, and `AnswersTrue` says nothing of it.
- A fetch error is one value in Monitor; its status and URL go into the entry only.
- Validation of URLs, headers, names and of the arguments of the installer happens before any
  state and is left out, or is a step that may fail.
- Bodies and message texts are opaque outside of Report. Report has no binary contents, one hunk (no gap
  rows), and takes a formatter that works line by line; difflib is external, its hunk
  is the lines between what both texts begin and end with.
- Interval leaves out characters and fractions; texts without days and weeks are read by the Go
  library, which adds their components as Read does.
- Real-time bounds are not modelled: timeouts are steps that may happen.
- Provider senders are network calls that accept, refuse or lose a message (`Send` in Dispatch).
- The providers file is read and validated at once when a process starts, and keeps no state; its
  construction of providers decides nothing that Dispatch does not choose freely.
- Configuration paths are names of files, and a template of comments that is created
  once: a process that reads half of it reads no provider, as with all of it.
- Of the doctor, the tests of permissions and of pending destinations; notify-test, list, show and
  status, which only read and print.

## What could follow

The reports with lines that look like headers: what is still true of their rows. Composition of
the families of Host in one behaviour, for files of both in one directory. A
stronger `NewerWaits` for a claim that looked at all destinations of an event, once
the order of deliveries is settled upstream.
