------------------------------- MODULE Dispatch --------------------------------
(****************************************************************************)
(* The notification queue and its dispatchers: ClaimNotifications,          *)
(* SaveDelivery and ReleaseNotification of internal/store/store.go, and     *)
(* Drain of internal/notifier/dispatcher.go.  Every fetchdiff process runs  *)
(* drains over the shared queue; a claim leases events to one process,      *)
(* which then works from its own copy of them and checks, in each           *)
(* transaction, that it still owns the lease.                               *)
(*                                                                          *)
(* An event is the number that orders it by CreatedAt.  Instants are kept   *)
(* as the time left until them, so the state space stays finite while time  *)
(* runs for ever: a lease of 0 has expired, a wait of 0 is due.             *)
(****************************************************************************)
EXTENDS Naturals, Sequences, FiniteSets

CONSTANTS
    Workers,        \* concurrent processes
    Events,         \* notifications, numbered in the order of CreatedAt
    Destinations,   \* destination keys, numbered in the order of their names
    TargetOf,       \* event -> the target it is about
    AddressedTo,    \* event -> the destinations it was queued for
    TextChunks,     \* event -> number of messages its text splits into
    WithReport,     \* the events that carry an HTML report as attachment
    ProviderFiles,  \* contents the providers file may have
    Dead,           \* destinations that refuse every message
    Lease,          \* deliveryLease
    Backoff,        \* the delays of retryDelay
    ClaimLimit,     \* events one claim may take
    MaxFaults,      \* bound on the faults of a behaviour
    Prompt,         \* letting any lease in hand expire is a fault
    None, Gone      \* no owner; an owner whose process no longer runs

Modes == {"absent", "text", "attach"}

ASSUME DispatchAssumption ==
    /\ Events \subseteq Nat /\ Destinations \subseteq Nat
    /\ TextChunks \in [Events -> Nat \ {0}]
    /\ AddressedTo \in [Events -> (SUBSET Destinations) \ {{}}]
    /\ WithReport \subseteq Events /\ Dead \subseteq Destinations
    /\ ProviderFiles \subseteq [Destinations -> Modes]
    /\ Lease \in Nat \ {0} /\ ClaimLimit \in Nat \ {0} /\ MaxFaults \in Nat
    /\ Prompt \in BOOLEAN
    /\ Backoff \in Seq(Nat \ {0}) /\ Backoff # <<>>
    /\ {None, Gone} \cap Workers = {} /\ None # Gone
    /\ IsFiniteSet(Workers) /\ IsFiniteSet(Events) /\ IsFiniteSet(Destinations)

VARIABLES
    events,     \* the notifications bucket: event -> record or None
    enqueued,   \* events committed so far
    dropped,    \* events deleted with their target
    providers,  \* the providers file
    pc,         \* worker -> where it is in its drain
    claimed,    \* worker -> copies of the claimed events it has yet to drain
    ev,         \* worker -> the copy it is draining
    keys,       \* worker -> destinations of ev still to visit
    dest,       \* worker -> destination being served
    state,      \* worker -> its copy of that delivery state
    config,     \* worker -> the providers file as it was when it started
    cancelled,  \* worker -> its context is done
    got,        \* event -> destination -> messages received
    dups,       \* messages received again
    faults      \* faults so far

queueVars == <<events, enqueued, dropped>>
drainVars == <<pc, claimed, ev, keys, dest, state>>
ghostVars == <<got, dups, faults>>
vars == <<queueVars, providers, drainVars, config, cancelled, ghostVars>>

Delivery == [chunk: Nat, attempts: 0..Len(Backoff), wait: Nat]
Groups == (SUBSET Destinations) \ {{}}
Owners == Workers \cup {None, Gone}
IsRecord(r) ==
    \E D \in Groups : r \in [deliveries: [D -> Delivery], owner: Owners, lease: 0..Lease]
IsCopy(c) == \E D \in Groups : c \in [id: Events, deliveries: [D -> Delivery]]
Labels == {"idle", "loop", "key", "save", "send", "progress", "finish", "fail",
           "release", "releaseRest"}

ASSUME NoneAssumption == ~IsRecord(None) /\ ~IsCopy(None)

(* Message 0 is the whole text with its report; the chunks count from 1.    *)
Whole == 0

TypeOK ==
    /\ DOMAIN events = Events
    /\ \A e \in Events : events[e] # None => IsRecord(events[e])
    /\ dropped \subseteq enqueued /\ enqueued \subseteq Events
    /\ providers \in ProviderFiles
    /\ pc \in [Workers -> Labels]
    /\ DOMAIN claimed = Workers /\ DOMAIN ev = Workers
    /\ \A w \in Workers :
         /\ \A c \in claimed[w] : IsCopy(c)
         /\ ev[w] # None => IsCopy(ev[w])
    /\ keys \in [Workers -> SUBSET Destinations]
    /\ dest \in [Workers -> Destinations \cup {None}]
    /\ state \in [Workers -> Delivery \cup {None}]
    /\ config \in [Workers -> ProviderFiles]
    /\ cancelled \in [Workers -> BOOLEAN]
    /\ got \in [Events -> [Destinations -> SUBSET Nat]]
    /\ dups \in Nat /\ faults \in 0..MaxFaults

Init ==
    /\ events = [e \in Events |-> None]
    /\ enqueued = {} /\ dropped = {}
    /\ providers \in ProviderFiles
    /\ pc = [w \in Workers |-> "idle"]
    /\ claimed = [w \in Workers |-> {}]
    /\ ev = [w \in Workers |-> None]
    /\ keys = [w \in Workers |-> {}]
    /\ dest = [w \in Workers |-> None]
    /\ state = [w \in Workers |-> None]
    /\ config = [w \in Workers |-> providers]
    /\ cancelled = [w \in Workers |-> FALSE]
    /\ got = [e \in Events |-> [d \in Destinations |-> {}]]
    /\ dups = 0 /\ faults = 0

Pending(e) == IF events[e] = None THEN {} ELSE DOMAIN events[e].deliveries

Fault == faults < MaxFaults /\ faults' = faults + 1

--------------------------------------------------------------------------------
(* Faulty variants of the definitions below, which the runs must reject.    *)

(* A claim that ignores the lease of another process.                       *)
LeaseIgnored(e) == events[e].owner # None /\ events[e].lease > Lease

(* A claim that does not look for older events.                             *)
AnyOrder(e, d) == d \in Pending(e)

(* A claim that waits until the event is the oldest for all it addresses.   *)
ClaimableWhenOldest(e) ==
    /\ events[e] # None
    /\ events[e].owner = None \/ events[e].lease = 0
    /\ \A d \in Pending(e) : \A f \in Events : f < e => d \notin Pending(f)
    /\ \E d \in Pending(e) : events[e].deliveries[d].wait = 0

(* A save that does not compare the owner.                                  *)
CanSaveUnowned(w, e, d) == d \in Pending(e)

(* A served destination that ends the event for the others too.             *)
SaveServedForAll(e, d) == events' = [events EXCEPT ![e] = None]

(* A served destination that leaves an event without deliveries behind.     *)
SaveServedKeep(e, d) ==
    events' = [events EXCEPT ![e].deliveries =
                 [x \in DOMAIN @ \ {d} |-> @[x]]]

(* A refused chunk that is skipped, or that starts the text again.          *)
AfterRefusalSkip(s) == [s EXCEPT !.chunk = @ + 1, !.attempts = 1, !.wait = 1]
AfterRefusalRestart(s) == [s EXCEPT !.chunk = 0, !.attempts = 1, !.wait = 1]

--------------------------------------------------------------------------------
(* Transactions on the queue *)

(* CommitTarget puts the event in; the events of one target are committed   *)
(* in the order of their creation (HistoryTimeOrdered of Monitor).          *)
Enqueue(e) ==
    /\ e \notin enqueued
    /\ \A f \in Events : f < e /\ TargetOf[f] = TargetOf[e] => f \in enqueued
    /\ enqueued' = enqueued \cup {e}
    /\ events' = [events EXCEPT ![e] =
         [deliveries |-> [d \in AddressedTo[e] |->
                            [chunk |-> 0, attempts |-> 0, wait |-> 0]],
          owner |-> None, lease |-> 0]]
    /\ UNCHANGED <<dropped, providers, drainVars, config, cancelled, ghostVars>>

(* DeleteTarget takes the queued events of the target with it.              *)
Drop(e) ==
    /\ events[e] # None
    /\ LET gone == {f \in Events : events[f] # None /\ TargetOf[f] = TargetOf[e]} IN
         /\ events' = [f \in Events |-> IF f \in gone THEN None ELSE events[f]]
         /\ dropped' = dropped \cup gone
    /\ UNCHANGED <<enqueued, providers, drainVars, config, cancelled, ghostVars>>

Leased(e) == events[e].owner # None /\ events[e].lease > 0

Earliest(e, d) == \A f \in Events : f < e => d \notin Pending(f)

(* An event is due through any destination for which it is the earliest one *)
(* queued; the claim then covers all its destinations.                      *)
Claimable(e) ==
    /\ events[e] # None
    /\ ~Leased(e)
    /\ \E d \in Pending(e) : Earliest(e, d) /\ events[e].deliveries[d].wait = 0

Holds(w, e) == events[e] # None /\ events[e].owner = w

(* The three tests of SaveDelivery.                                         *)
CanSave(w, e, d) == Holds(w, e) /\ d \in Pending(e)

SaveState(e, d, s) ==
    events' = [events EXCEPT ![e].deliveries[d] = s, ![e].lease = Lease]

(* The nil state: the destination is served, the last one ends the event.   *)
SaveServed(e, d) ==
    LET rest == Pending(e) \ {d} IN
    events' = [events EXCEPT ![e] =
        IF rest = {} THEN None
        ELSE [@ EXCEPT !.deliveries = [x \in rest |-> events[e].deliveries[x]]]]

ReleaseEvent(w, e) ==
    events' = [events EXCEPT ![e] =
        IF Holds(w, e) THEN [@ EXCEPT !.owner = None, !.lease = 0] ELSE @]

--------------------------------------------------------------------------------
(* Drain *)

Goto(w, label) == pc' = [pc EXCEPT ![w] = label]

First(S, x) == x \in S /\ \A y \in S : x <= y

Claim(w) ==
    /\ pc[w] = "idle"
    /\ LET due == {e \in Events : Claimable(e)}
           picked == {e \in due : Cardinality({f \in due : f < e}) < ClaimLimit} IN
         /\ picked # {}
         /\ events' = [e \in Events |->
              IF e \in picked THEN [events[e] EXCEPT !.owner = w, !.lease = Lease]
              ELSE events[e]]
         /\ claimed' = [claimed EXCEPT ![w] =
              {[id |-> e, deliveries |-> events[e].deliveries] : e \in picked}]
    /\ Goto(w, "loop")
    /\ UNCHANGED <<enqueued, dropped, providers, ev, keys, dest, state,
                   config, cancelled, ghostVars>>

(* The loop over the claimed events; a done context turns it into a release *)
(* of all that are left.                                                    *)
Loop(w) ==
    /\ pc[w] = "loop"
    /\ \/ /\ claimed[w] = {} \/ cancelled[w]
          /\ Goto(w, IF claimed[w] = {} THEN "idle" ELSE "releaseRest")
          /\ ev' = [ev EXCEPT ![w] = None]
          /\ UNCHANGED <<claimed, keys>>
       \/ /\ ~cancelled[w]
          /\ \E c \in claimed[w] :
               /\ First({x.id : x \in claimed[w]}, c.id)
               /\ claimed' = [claimed EXCEPT ![w] = @ \ {c}]
               /\ ev' = [ev EXCEPT ![w] = c]
               /\ keys' = [keys EXCEPT ![w] = DOMAIN c.deliveries]
          /\ Goto(w, "key")
    /\ UNCHANGED <<queueVars, providers, dest, state, config, cancelled, ghostVars>>

ReleaseRest(w) ==
    /\ pc[w] = "releaseRest"
    /\ \/ /\ claimed[w] = {}
          /\ Goto(w, "idle")
          /\ UNCHANGED <<events, claimed>>
       \/ \E c \in claimed[w] :
            /\ First({x.id : x \in claimed[w]}, c.id)
            /\ claimed' = [claimed EXCEPT ![w] = @ \ {c}]
            /\ ReleaseEvent(w, c.id)
            /\ UNCHANGED pc
    /\ UNCHANGED <<enqueued, dropped, providers, ev, keys, dest, state,
                   config, cancelled, ghostVars>>

AsReport(w, e, d) == e \in WithReport /\ config[w][d] = "attach"

(* Messages this process would send: one with the report, or the chunks.    *)
Parts(w, e, d) == IF AsReport(w, e, d) THEN 1 ELSE TextChunks[e]

(* The loop over the destinations of the copy, in the order of their keys.  *)
Visit(w) ==
    /\ pc[w] = "key"
    /\ \/ /\ keys[w] = {}
          /\ Goto(w, "release")
          /\ UNCHANGED <<keys, dest, state>>
       \/ \E d \in keys[w] :
            /\ First(keys[w], d)
            /\ keys' = [keys EXCEPT ![w] = @ \ {d}]
            /\ LET s == ev[w].deliveries[d] IN
                 IF s.wait > 0 THEN UNCHANGED <<pc, dest, state>>
                 ELSE /\ dest' = [dest EXCEPT ![w] = d]
                      /\ state' = [state EXCEPT ![w] = s]
                      /\ Goto(w, IF config[w][d] = "absent" THEN "fail"
                                 ELSE IF s.chunk < Parts(w, ev[w].id, d)
                                      THEN "save" ELSE "finish")
    /\ UNCHANGED <<queueVars, providers, claimed, ev, config, cancelled, ghostVars>>

(* A SaveDelivery with a state: on success to the label ok, on any refusal  *)
(* to the next destination.                                                 *)
SaveThen(w, s, ok) ==
    LET e == ev[w].id  d == dest[w] IN
    /\ IF CanSave(w, e, d)
       THEN SaveState(e, d, s) /\ Goto(w, ok)
       ELSE UNCHANGED events /\ Goto(w, "key")
    /\ UNCHANGED <<enqueued, dropped, providers, claimed, ev, keys, dest, state,
                   config, cancelled, ghostVars>>

Save(w) == pc[w] = "save" /\ SaveThen(w, state[w], "send")

Progress(w) == pc[w] = "progress" /\ SaveThen(w, state[w], "save")

RetryDelay(n) == Backoff[IF n > Len(Backoff) THEN Len(Backoff) ELSE n]

(* attempts stops counting at the last delay, which all later ones repeat.  *)
AfterRefusal(s) ==
    [s EXCEPT !.attempts = IF @ < Len(Backoff) THEN @ + 1 ELSE @,
              !.wait = RetryDelay(s.attempts + 1)]

Fail(w) == pc[w] = "fail" /\ SaveThen(w, AfterRefusal(state[w]), "key")

Message(w) ==
    IF AsReport(w, ev[w].id, dest[w]) THEN Whole ELSE state[w].chunk + 1

Receive(w) ==
    LET e == ev[w].id  d == dest[w] IN
    /\ got' = [got EXCEPT ![e][d] = @ \cup {Message(w)}]
    /\ dups' = IF Message(w) \in got[e][d] THEN dups + 1 ELSE dups

Send(w) ==
    /\ pc[w] = "send"
    /\ \/ /\ ~cancelled[w] /\ dest[w] \notin Dead          \* accepted
          /\ Receive(w)
          /\ LET s == [chunk |-> state[w].chunk + 1, attempts |-> 0, wait |-> 0] IN
               /\ state' = [state EXCEPT ![w] = s]
               /\ Goto(w, IF s.chunk < Parts(w, ev[w].id, dest[w])
                          THEN "progress" ELSE "finish")
          /\ UNCHANGED faults
       \/ /\ cancelled[w] \/ dest[w] \in Dead              \* refused
          /\ Goto(w, "fail")
          /\ UNCHANGED <<state, got, dups, faults>>
       \/ /\ ~cancelled[w] /\ dest[w] \notin Dead          \* lost, or its answer is
          /\ Fault
          /\ Receive(w) \/ UNCHANGED <<got, dups>>
          /\ Goto(w, "fail")
          /\ UNCHANGED state
    /\ UNCHANGED <<queueVars, providers, claimed, ev, keys, dest, config, cancelled>>

Served(w) ==
    /\ pc[w] = "finish"
    /\ IF CanSave(w, ev[w].id, dest[w])
       THEN SaveServed(ev[w].id, dest[w]) ELSE UNCHANGED events
    /\ Goto(w, "key")
    /\ UNCHANGED <<enqueued, dropped, providers, claimed, ev, keys, dest, state,
                   config, cancelled, ghostVars>>

Release(w) ==
    /\ pc[w] = "release"
    /\ ReleaseEvent(w, ev[w].id)
    /\ Goto(w, "loop")
    /\ dest' = [dest EXCEPT ![w] = None]
    /\ state' = [state EXCEPT ![w] = None]
    /\ UNCHANGED <<enqueued, dropped, providers, claimed, ev, keys, config,
                   cancelled, ghostVars>>

--------------------------------------------------------------------------------
(* Processes, faults and time *)

(* The next process: another owner, and the providers file as it is now.    *)
Fresh(w) ==
    /\ pc' = [pc EXCEPT ![w] = "idle"]
    /\ claimed' = [claimed EXCEPT ![w] = {}]
    /\ ev' = [ev EXCEPT ![w] = None]
    /\ keys' = [keys EXCEPT ![w] = {}]
    /\ dest' = [dest EXCEPT ![w] = None]
    /\ state' = [state EXCEPT ![w] = None]
    /\ config' = [config EXCEPT ![w] = providers]
    /\ cancelled' = [cancelled EXCEPT ![w] = FALSE]
    /\ events' = [e \in Events |->
         IF Holds(w, e) THEN [events[e] EXCEPT !.owner = Gone] ELSE events[e]]
    /\ UNCHANGED <<enqueued, dropped, providers, got, dups>>

Exit(w) ==
    /\ pc[w] = "idle"
    /\ Fresh(w)
    /\ UNCHANGED faults

Crash(w) == pc[w] # "idle" /\ Fresh(w) /\ Fault

Cancel(w) ==
    /\ ~cancelled[w]
    /\ Fault
    /\ cancelled' = [cancelled EXCEPT ![w] = TRUE]
    /\ UNCHANGED <<queueVars, providers, drainVars, config, got, dups>>

(* A transaction returns an error and writes nothing.                       *)
IOError(w) ==
    /\ \/ pc[w] \in {"save", "progress", "finish", "fail"} /\ Goto(w, "key")
       \/ pc[w] = "release" /\ Goto(w, "loop")
    /\ Fault
    /\ UNCHANGED <<queueVars, providers, claimed, ev, keys, dest, state,
                   config, cancelled, got, dups>>

(* So does the release of an event that is left: the loop goes on with the  *)
(* next one, and this one stays leased until its lease expires.             *)
SkipRelease(w) ==
    /\ pc[w] = "releaseRest"
    /\ Fault
    /\ \E c \in claimed[w] :
         /\ First({x.id : x \in claimed[w]}, c.id)
         /\ claimed' = [claimed EXCEPT ![w] = @ \ {c}]
    /\ UNCHANGED <<queueVars, providers, pc, ev, keys, dest, state,
                   config, cancelled, got, dups>>

EditProviders ==
    /\ \E f \in ProviderFiles : f # providers /\ providers' = f
    /\ UNCHANGED <<queueVars, drainVars, config, cancelled, ghostVars>>

Less(n) == IF n = 0 THEN 0 ELSE n - 1

Aged(f) == [d \in DOMAIN f |-> [f[d] EXCEPT !.wait = Less(@)]]

(* Between the renewal before a send and the transaction after it a worker  *)
(* is expected to be faster than the lease.                                 *)
Sending(w) == pc[w] \in {"send", "progress", "finish"}

InHand(w, e) ==
    \/ \E c \in claimed[w] : c.id = e
    \/ ev[w] # None /\ ev[w].id = e

(* The owners on which a lease is about to expire: each one is a fault when *)
(* it is in the middle of a send, or (Prompt) has the event still to serve. *)
Overrun ==
    {w \in Workers : \E e \in Events :
        /\ Holds(w, e) /\ events[e].lease = 1
        /\ IF Prompt THEN InHand(w, e) ELSE Sending(w) /\ ev[w].id = e}

Tick ==
    /\ events' = [e \in Events |->
         IF events[e] = None THEN None
         ELSE [events[e] EXCEPT !.deliveries = Aged(@), !.lease = Less(@)]]
    /\ claimed' = [w \in Workers |->
         {[c EXCEPT !.deliveries = Aged(@)] : c \in claimed[w]}]
    /\ ev' = [w \in Workers |->
         IF ev[w] = None THEN None ELSE [ev[w] EXCEPT !.deliveries = Aged(@)]]
    /\ faults' = faults + Cardinality(Overrun)
    /\ faults' <= MaxFaults
    /\ UNCHANGED <<enqueued, dropped, providers, pc, keys, dest, state,
                   config, cancelled, got, dups>>

DrainStep(w) ==
    \/ Claim(w) \/ Loop(w) \/ Visit(w) \/ Save(w) \/ Send(w) \/ Progress(w)
    \/ Served(w) \/ Fail(w) \/ Release(w) \/ ReleaseRest(w)

Next ==
    \/ \E w \in Workers :
         \/ DrainStep(w) \/ Exit(w)
         \/ Crash(w) \/ Cancel(w) \/ IOError(w) \/ SkipRelease(w)
    \/ \E e \in Events : Enqueue(e) \/ Drop(e)
    \/ EditProviders
    \/ Tick

(* A process that runs keeps running its drain loop, time passes, and an    *)
(* interrupted process exits after at most one more drain (strong fairness: *)
(* it is idle again and again).  With Prompt, steps are short against the   *)
(* lease (milliseconds to a send timeout, against thirty minutes).          *)
Fairness ==
    /\ \A w \in Workers : WF_vars(DrainStep(w)) /\ SF_vars(cancelled[w] /\ Exit(w))
    /\ WF_vars(Tick)

Spec == Init /\ [][Next]_vars
FairSpec == Spec /\ Fairness

--------------------------------------------------------------------------------
(* Properties *)

Complete(e, d) == Whole \in got[e][d] \/ 1..TextChunks[e] \subseteq got[e][d]

(* A destination leaves the queue only when it received the whole event:    *)
(* with every crash, lost answer, expired lease and refused save, what is   *)
(* not delivered is still queued, unless its target was removed.            *)
NothingLost ==
    \A e \in enqueued \ dropped : \A d \in AddressedTo[e] \ Pending(e) : Complete(e, d)

(* The chunks arrive in order, and the stored state never runs ahead of     *)
(* what was received.                                                       *)
ChunksInOrder ==
    \A e \in Events : \A d \in Destinations :
        /\ \E n \in 0..TextChunks[e] : got[e][d] \ {Whole} = 1..n
        /\ d \in Pending(e) =>
             \A k \in 1..events[e].deliveries[d].chunk : {k, Whole} \cap got[e][d] # {}

(* Each fault costs at most one repeated message; without a fault every     *)
(* message is received once, however many processes drain the queue.        *)
DuplicatesNeedFaults == dups <= faults

(* Without a fault two processes never send the same event at once.         *)
OneSender ==
    faults = 0 => \A v, w \in Workers :
        v # w /\ pc[v] = "send" /\ pc[w] = "send" => ev[v].id # ev[w].id

(* The events of one target reach a destination in order: none is being     *)
(* sent while an older one is still queued for that destination.            *)
NewerWaits ==
    \A w \in Workers : pc[w] = "send" =>
        \A f \in Events :
            f < ev[w].id /\ TargetOf[f] = TargetOf[ev[w].id] => dest[w] \notin Pending(f)

(* A process that works from an old copy cannot take back what another one  *)
(* delivered: the stored chunk never decreases, and what left the queue     *)
(* stays out.                                                               *)
ProgressKept ==
    [][\A e \in enqueued :
         /\ Pending(e)' \subseteq Pending(e)
         /\ \A d \in Pending(e)' :
              events'[e].deliveries[d].chunk >= events[e].deliveries[d].chunk]_vars

(* Whatever a destination that refuses everything does, each event reaches  *)
(* the other destinations it was queued for, or is removed.                 *)
EventuallyServed ==
    \A e \in Events : \A d \in Destinations \ Dead :
        d \in Pending(e) ~> d \notin Pending(e)

(* The queue that the dispatchers implement together.                       *)
Abstract ==
    INSTANCE Queue WITH
        waiting <- [e \in Events |-> Pending(e)],
        received <- [e \in Events |-> {d \in AddressedTo[e] : Complete(e, d)}],
        put <- enqueued

(* With leases that expire, refused saves, crashes, repeated messages and   *)
(* several processes at work on copies of one event, every step is a step   *)
(* of that queue: an event stays for the destinations that did not receive  *)
(* all of it, and leaves only with its target.                              *)
ImplementsQueue == Abstract!Spec
================================================================================
