----------------------------- MODULE DispatchProofs ----------------------------
(****************************************************************************)
(* Proofs about the notification queue and its dispatchers, for any number  *)
(* of processes, events, destinations, chunks and faults.                   *)
(*                                                                          *)
(* The invariant is built in layers.  TypeInv types what a worker has in    *)
(* hand by the label it is at, Known says that copies are of queued events  *)
(* and each event is in hand once, Exact that the copy of a worker that     *)
(* still owns an event agrees with what is stored.  On these rest the lease *)
(* (Exclusive), the order of one target's events (Oldest), what the         *)
(* destinations received (Receipts) and the cost of a fault (Charged).      *)
(****************************************************************************)
EXTENDS Dispatch, FiniteSetTheorems, TLAPS

(* The labels between the choice of a destination and the transaction that  *)
(* ends its visit, and those at which a worker has an event to drain.       *)
Busy == {"save", "send", "progress", "finish", "fail"}
Draining == Busy \cup {"key", "release"}

InDrain(w) == pc[w] \in Draining
InVisit(w) == pc[w] \in Busy

(* How far an event got at a destination, as far as the queue knows.        *)
Stored(e, d) == events[e].deliveries[d].chunk

(* The worker owns the event, with time left on its lease.                  *)
Live(w, e) == Holds(w, e) /\ events[e].lease > 0

(* What a worker has in hand, by its label.                                 *)
ShapeOf(w) ==
    /\ InDrain(w) => IsCopy(ev[w]) /\ keys[w] \subseteq DOMAIN ev[w].deliveries
    /\ InVisit(w) => /\ dest[w] \in DOMAIN ev[w].deliveries \ keys[w]
                     /\ state[w] \in Delivery

Queued == \A e \in Events : events[e] # None => e \in enqueued

TypeInv == TypeOK /\ Queued /\ \A w \in Workers : ShapeOf(w)

--------------------------------------------------------------------------------
(* Records and copies *)

(* A record of the queue has the four fields of its type, whatever the set  *)
(* of destinations it is still queued for.                                  *)
LEMMA RecordType ==
    ASSUME NEW r, IsRecord(r)
    PROVE  /\ DOMAIN r.deliveries \in Groups
           /\ r.deliveries \in [DOMAIN r.deliveries -> Delivery]
           /\ r.owner \in Owners /\ r.lease \in 0..Lease
           /\ r = [deliveries |-> r.deliveries, owner |-> r.owner, lease |-> r.lease]
           /\ r # None
<1>1. PICK D \in Groups : r \in [deliveries: [D -> Delivery], owner: Owners, lease: 0..Lease]
    BY DEF IsRecord
<1>2. r # None
    BY NoneAssumption
<1>. QED
    BY <1>1, <1>2

(* Conversely.                                                              *)
LEMMA RecordIntro ==
    ASSUME NEW f, DOMAIN f \in Groups, f \in [DOMAIN f -> Delivery],
           NEW o \in Owners, NEW l \in 0..Lease
    PROVE  IsRecord([deliveries |-> f, owner |-> o, lease |-> l])
BY DEF IsRecord

(* A copy keeps the identity of its event and some destinations.            *)
LEMMA CopyType ==
    ASSUME NEW c, IsCopy(c)
    PROVE  /\ c.id \in Events
           /\ DOMAIN c.deliveries \in Groups
           /\ c.deliveries \in [DOMAIN c.deliveries -> Delivery]
           /\ c = [id |-> c.id, deliveries |-> c.deliveries]
           /\ c # None
<1>1. PICK D \in Groups : c \in [id: Events, deliveries: [D -> Delivery]]
    BY DEF IsCopy
<1>2. c # None
    BY NoneAssumption
<1>. QED
    BY <1>1, <1>2

LEMMA CopyIntro ==
    ASSUME NEW e \in Events, NEW f, DOMAIN f \in Groups, f \in [DOMAIN f -> Delivery]
    PROVE  IsCopy([id |-> e, deliveries |-> f])
BY DEF IsCopy

(* A delivery state that a refusal or a message leaves behind.              *)
LEMMA StateTypes ==
    ASSUME NEW s \in Delivery
    PROVE  /\ AfterRefusal(s) \in Delivery /\ AfterRefusal(s).chunk = s.chunk
           /\ [s EXCEPT !.wait = Less(@)] \in Delivery
           /\ [s EXCEPT !.wait = Less(@)].chunk = s.chunk
           /\ \A k \in Nat : [chunk |-> k, attempts |-> 0, wait |-> 0] \in Delivery
<1>1. Backoff \in Seq(Nat \ {0}) /\ Len(Backoff) \in Nat \ {0}
    BY DispatchAssumption
<1>2. \A n \in Nat \ {0} : RetryDelay(n) \in Nat
    BY <1>1 DEF RetryDelay
<1>3. s.attempts + 1 \in Nat \ {0}
    BY <1>1 DEF Delivery
<1>4. AfterRefusal(s) \in Delivery /\ AfterRefusal(s).chunk = s.chunk
  <2>1. RetryDelay(s.attempts + 1) \in Nat
      BY <1>2, <1>3
  <2>2. (IF s.attempts < Len(Backoff) THEN s.attempts + 1 ELSE s.attempts) \in 0..Len(Backoff)
      BY <1>1 DEF Delivery
  <2>. QED
      BY <2>1, <2>2 DEF AfterRefusal, Delivery
<1>5. Less(s.wait) \in Nat
    BY DEF Less, Delivery
<1>6. /\ [s EXCEPT !.wait = Less(@)] \in Delivery
      /\ [s EXCEPT !.wait = Less(@)].chunk = s.chunk
    BY <1>5 DEF Delivery
<1>. QED
    BY <1>1, <1>4, <1>6 DEF Delivery

(* Time changes neither the destinations of a map of deliveries nor how far *)
(* each of them got.                                                        *)
LEMMA AgedType ==
    ASSUME NEW f, f \in [DOMAIN f -> Delivery]
    PROVE  /\ DOMAIN Aged(f) = DOMAIN f
           /\ Aged(f) \in [DOMAIN f -> Delivery]
           /\ \A d \in DOMAIN f : Aged(f)[d].chunk = f[d].chunk
BY StateTypes DEF Aged

--------------------------------------------------------------------------------
(* What each transaction does to the queue *)

Owned(r, o, l) == [r EXCEPT !.owner = o, !.lease = l]

LEMMA Reowned ==
    ASSUME NEW r, IsRecord(r), NEW o \in Owners, NEW l \in 0..Lease
    PROVE  /\ IsRecord(Owned(r, o, l)) /\ Owned(r, o, l).deliveries = r.deliveries
           /\ Owned(r, o, l).owner = o /\ Owned(r, o, l).lease = l
<1>1. PICK D \in Groups : r \in [deliveries: [D -> Delivery], owner: Owners, lease: 0..Lease]
    BY DEF IsRecord
<1>2. Owned(r, o, l) \in [deliveries: [D -> Delivery], owner: Owners, lease: 0..Lease]
    BY <1>1 DEF Owned
<1>. QED
    BY <1>1, <1>2 DEF Owned, IsRecord

Delivered(r, f, l) == [r EXCEPT !.deliveries = f, !.lease = l]

LEMMA Redelivered ==
    ASSUME NEW r, IsRecord(r), NEW D \in Groups, NEW f \in [D -> Delivery],
           NEW l \in 0..Lease
    PROVE  /\ IsRecord(Delivered(r, f, l)) /\ Delivered(r, f, l).deliveries = f
           /\ Delivered(r, f, l).owner = r.owner /\ Delivered(r, f, l).lease = l
<1>1. PICK G \in Groups : r \in [deliveries: [G -> Delivery], owner: Owners, lease: 0..Lease]
    BY DEF IsRecord
<1>2. Delivered(r, f, l) \in [deliveries: [D -> Delivery], owner: Owners, lease: 0..Lease]
    BY <1>1 DEF Delivered
<1>. QED
    BY <1>1, <1>2 DEF Delivered, IsRecord

(* What an update does not name it leaves as it is.                         *)
LEMMA LeaseAsIs ==
    ASSUME NEW r, IsRecord(r)
    PROVE  /\ \A o : [r EXCEPT !.owner = o] = Owned(r, o, r.lease)
           /\ \A f : [r EXCEPT !.deliveries = f] = Delivered(r, f, r.lease)
<1>1. PICK G \in Groups : r \in [deliveries: [G -> Delivery], owner: Owners, lease: 0..Lease]
    BY DEF IsRecord
<1>. QED
    BY <1>1 DEF Owned, Delivered

(* Every record of the queue has its type.                                  *)
Typed == DOMAIN events = Events /\ \A e \in Events : events[e] # None => IsRecord(events[e])

LEMMA PendingType ==
    ASSUME Typed, NEW e \in Events
    PROVE  /\ Pending(e) \subseteq Destinations
           /\ events[e] # None => Pending(e) = DOMAIN events[e].deliveries /\ Pending(e) # {}
           /\ \A d \in Pending(e) :
                /\ events[e] # None
                /\ events[e].deliveries[d] \in Delivery
                /\ Stored(e, d) \in Nat
<1>1. events[e] # None => /\ DOMAIN events[e].deliveries \in Groups
                          /\ events[e].deliveries \in [DOMAIN events[e].deliveries -> Delivery]
    BY RecordType DEF Typed
<1>2. \A s \in Delivery : s.chunk \in Nat
    BY DEF Delivery
<1>. QED
    BY <1>1, <1>2 DEF Pending, Groups, Stored

(* A delivery state is written, and the lease renewed.                      *)
LEMMA SaveStateEffect ==
    ASSUME Typed, NEW e \in Events, NEW d \in Pending(e), NEW s \in Delivery,
           SaveState(e, d, s)
    PROVE  /\ Typed'
           /\ \A f \in Events \ {e} : events'[f] = events[f]
           /\ events'[e] # None
           /\ events'[e].owner = events[e].owner /\ events'[e].lease = Lease
           /\ Pending(e)' = Pending(e)
           /\ events'[e].deliveries[d] = s
           /\ \A x \in Pending(e) \ {d} : events'[e].deliveries[x] = events[e].deliveries[x]
<1>. DEFINE r == events[e]
            f == [r.deliveries EXCEPT ![d] = s]
            q == Delivered(r, f, Lease)
<1>1. IsRecord(r) /\ r # None /\ d \in DOMAIN r.deliveries
    BY PendingType DEF Typed
<1>2. DOMAIN r.deliveries \in Groups /\ r.deliveries \in [DOMAIN r.deliveries -> Delivery]
    BY <1>1, RecordType
<1>3. /\ DOMAIN f = DOMAIN r.deliveries /\ f \in [DOMAIN f -> Delivery]
      /\ f[d] = s /\ \A x \in DOMAIN f \ {d} : f[x] = r.deliveries[x]
    BY <1>1, <1>2
<1>4. Lease \in 0..Lease
    BY DispatchAssumption
<1>5. IsRecord(q) /\ q.deliveries = f /\ q.owner = r.owner /\ q.lease = Lease
    BY <1>1, <1>2, <1>3, <1>4, Redelivered
<1>6. events' = [events EXCEPT ![e] = q]
    BY DEF SaveState, Delivered
<1>7. q # None
    BY <1>5, RecordType
<1>8. events'[e] = q /\ DOMAIN events' = Events /\ \A g \in Events \ {e} : events'[g] = events[g]
    BY <1>6 DEF Typed
<1>9. Pending(e) = DOMAIN r.deliveries /\ Pending(e)' = DOMAIN f
    BY <1>1, <1>5, <1>7, <1>8 DEF Pending
<1>. HIDE DEF f, q
<1>. QED
    BY <1>3, <1>5, <1>7, <1>8, <1>9 DEF Typed

(* A served destination leaves; the last one takes the event with it.       *)
LEMMA SaveServedEffect ==
    ASSUME Typed, NEW e \in Events, NEW d \in Pending(e), SaveServed(e, d)
    PROVE  /\ Typed'
           /\ \A f \in Events \ {e} : events'[f] = events[f]
           /\ Pending(e)' = Pending(e) \ {d}
           /\ events'[e] # None => /\ events'[e].owner = events[e].owner
                                   /\ events'[e].lease = events[e].lease
           /\ \A x \in Pending(e)' : events'[e].deliveries[x] = events[e].deliveries[x]
<1>. DEFINE r == events[e]
            rest == Pending(e) \ {d}
            f == [x \in rest |-> r.deliveries[x]]
            q == Delivered(r, f, r.lease)
<1>1. IsRecord(r) /\ r # None /\ d \in DOMAIN r.deliveries /\ Pending(e) = DOMAIN r.deliveries
    BY PendingType DEF Typed
<1>2. /\ DOMAIN r.deliveries \in Groups /\ r.deliveries \in [DOMAIN r.deliveries -> Delivery]
      /\ r.lease \in 0..Lease
      /\ r = [deliveries |-> r.deliveries, owner |-> r.owner, lease |-> r.lease]
    BY <1>1, RecordType
<1>3. DOMAIN events' = Events /\ \A g \in Events \ {e} : events'[g] = events[g]
    BY DEF SaveServed, Typed
<1>4. CASE rest = {}
  <2>1. events'[e] = None
      BY <1>4 DEF SaveServed, Typed
  <2>. QED
      BY <1>3, <1>4, <2>1 DEF Typed, Pending
<1>5. CASE rest # {}
  <2>1. events'[e] = [r EXCEPT !.deliveries = f]
      BY <1>5 DEF SaveServed, Typed
  <2>2. events'[e] = q
      BY <1>1, <2>1, LeaseAsIs
  <2>3. rest \in Groups /\ DOMAIN f = rest /\ f \in [rest -> Delivery]
      BY <1>1, <1>2, <1>5 DEF Groups
  <2>7. rest = Pending(e) \ {d} /\ \A x \in rest : f[x] = r.deliveries[x]
      OBVIOUS
  <2>. HIDE DEF rest, f
  <2>4. IsRecord(q) /\ q.deliveries = f /\ q.owner = r.owner /\ q.lease = r.lease
      BY <1>1, <1>2, <2>3, Redelivered
  <2>5. q # None
      BY <2>4, RecordType
  <2>6. Pending(e)' = rest
      BY <2>2, <2>3, <2>4, <2>5 DEF Pending
  <2>. HIDE DEF q
  <2>. QED
      BY <1>3, <2>2, <2>4, <2>5, <2>6, <2>7 DEF Typed
<1>. QED
    BY <1>4, <1>5

(* One step changes nothing about the deliveries of an event.               *)
SameDeliveries(e) ==
    /\ (events'[e] = None) <=> (events[e] = None)
    /\ events[e] # None => events'[e].deliveries = events[e].deliveries

LEMMA SamePending ==
    ASSUME NEW e, SameDeliveries(e)
    PROVE  /\ Pending(e)' = Pending(e)
           /\ \A d \in Pending(e) : Stored(e, d)' = Stored(e, d)
BY DEF SameDeliveries, Pending, Stored

(* A release: the owner goes, or nothing happens.                           *)
LEMMA ReleaseEffect ==
    ASSUME Typed, NEW w \in Workers, NEW e \in Events, ReleaseEvent(w, e)
    PROVE  /\ Typed'
           /\ \A f \in Events : SameDeliveries(f)
           /\ \A f \in Events : events'[f] # events[f] =>
                f = e /\ Holds(w, e) /\ events'[e].owner = None
<1>1. DOMAIN events' = Events /\ \A f \in Events \ {e} : events'[f] = events[f]
    BY DEF ReleaseEvent, Typed
<1>2. CASE ~Holds(w, e)
  <2>1. events'[e] = events[e]
      BY <1>2 DEF ReleaseEvent, Typed
  <2>. QED
      BY <1>1, <2>1 DEF Typed, SameDeliveries
<1>3. CASE Holds(w, e)
  <2>1. IsRecord(events[e]) /\ events[e] # None
      BY <1>3 DEF Holds, Typed
  <2>2. events'[e] = Owned(events[e], None, 0)
      BY <1>3 DEF ReleaseEvent, Typed, Owned
  <2>3. None \in Owners /\ 0 \in 0..Lease
      BY DispatchAssumption DEF Owners
  <2>4. /\ IsRecord(events'[e]) /\ events'[e].deliveries = events[e].deliveries
        /\ events'[e].owner = None
      BY <2>1, <2>2, <2>3, Reowned
  <2>5. events'[e] # None
      BY <2>4, RecordType
  <2>. QED
      BY <1>1, <1>3, <2>1, <2>4, <2>5 DEF Typed, SameDeliveries
<1>. QED
    BY <1>2, <1>3

(* A claim: the events picked are due, and belong to the worker from then.  *)
LEMMA ClaimEffect ==
    ASSUME Typed, NEW w \in Workers, Claim(w)
    PROVE  \E picked \in SUBSET {e \in Events : Claimable(e)} :
             /\ Typed'
             /\ \A e \in Events : SameDeliveries(e)
             /\ \A e \in Events \ picked : events'[e] = events[e]
             /\ \A e \in picked : /\ events'[e].owner = w /\ events'[e].lease = Lease
             /\ claimed' = [claimed EXCEPT ![w] =
                  {[id |-> e, deliveries |-> events[e].deliveries] : e \in picked}]
<1>. DEFINE due == {e \in Events : Claimable(e)}
            chosen == {e \in due : Cardinality({f \in due : f < e}) < ClaimLimit}
<1>1. /\ events' = [e \in Events |->
              IF e \in chosen THEN [events[e] EXCEPT !.owner = w, !.lease = Lease]
              ELSE events[e]]
      /\ claimed' = [claimed EXCEPT ![w] =
              {[id |-> e, deliveries |-> events[e].deliveries] : e \in chosen}]
    BY DEF Claim
<1>2. chosen \in SUBSET {e \in Events : Claimable(e)}
    OBVIOUS
<1>. HIDE DEF chosen
<1>3. ASSUME NEW e \in chosen
      PROVE  /\ IsRecord(events'[e]) /\ SameDeliveries(e)
             /\ events'[e].owner = w /\ events'[e].lease = Lease
  <2>1. e \in Events /\ events[e] # None /\ IsRecord(events[e])
      BY <1>2 DEF Claimable, Typed
  <2>2. w \in Owners /\ Lease \in 0..Lease
      BY DispatchAssumption DEF Owners
  <2>3. events'[e] = Owned(events[e], w, Lease)
      BY <1>1, <2>1 DEF Owned
  <2>4. /\ IsRecord(events'[e]) /\ events'[e].deliveries = events[e].deliveries
        /\ events'[e].owner = w /\ events'[e].lease = Lease
      BY <2>1, <2>2, <2>3, Reowned
  <2>. QED
      BY <2>1, <2>4, RecordType DEF SameDeliveries
<1>4. \A e \in Events \ chosen : events'[e] = events[e]
    BY <1>1
<1>5. Typed' /\ \A e \in Events : SameDeliveries(e)
    BY <1>1, <1>3, <1>4 DEF Typed, SameDeliveries
<1>. QED
    BY <1>1, <1>2, <1>3, <1>4, <1>5

(* The process that ends leaves its events to nobody.                       *)
LEMMA FreshEffect ==
    ASSUME Typed, NEW w \in Workers, Fresh(w)
    PROVE  /\ Typed'
           /\ \A e \in Events : SameDeliveries(e)
           /\ \A e \in Events : events'[e] # events[e] =>
                Holds(w, e) /\ events'[e].owner = Gone
<1>1. \A e \in Events : events'[e] =
          IF Holds(w, e) THEN [events[e] EXCEPT !.owner = Gone] ELSE events[e]
    BY DEF Fresh
<1>2. ASSUME NEW e \in Events, Holds(w, e)
      PROVE  /\ IsRecord(events'[e]) /\ SameDeliveries(e) /\ events'[e].owner = Gone
  <2>1. events[e] # None /\ IsRecord(events[e])
      BY <1>2 DEF Holds, Typed
  <2>2. events[e].lease \in 0..Lease /\ Gone \in Owners
      BY <2>1, RecordType DEF Owners
  <2>3. events'[e] = Owned(events[e], Gone, events[e].lease)
      BY <1>1, <1>2, <2>1, LeaseAsIs
  <2>4. /\ IsRecord(events'[e]) /\ events'[e].deliveries = events[e].deliveries
        /\ events'[e].owner = Gone
      BY <2>1, <2>2, <2>3, Reowned
  <2>. QED
      BY <2>1, <2>4, RecordType DEF SameDeliveries
<1>3. \A e \in Events : ~Holds(w, e) => events'[e] = events[e]
    BY <1>1
<1>4. DOMAIN events' = Events
    BY DEF Fresh
<1>. QED
    BY <1>2, <1>3, <1>4 DEF Typed, SameDeliveries

(* Time brings the end of each lease nearer.                                *)
LEMMA TickEffect ==
    ASSUME Typed, Tick
    PROVE  /\ Typed'
           /\ \A e \in Events :
                /\ (events'[e] = None) <=> (events[e] = None)
                /\ Pending(e)' = Pending(e)
                /\ \A d \in Pending(e) : Stored(e, d)' = Stored(e, d)
                /\ events[e] # None => /\ events'[e].owner = events[e].owner
                                       /\ events'[e].lease = Less(events[e].lease)
<1>1. /\ DOMAIN events' = Events
      /\ \A e \in Events : events[e] = None => events'[e] = None
    BY DEF Tick
<1>2. ASSUME NEW e \in Events, events[e] # None
      PROVE  /\ IsRecord(events'[e]) /\ events'[e] # None
             /\ events'[e].deliveries = Aged(events[e].deliveries)
             /\ events'[e].owner = events[e].owner
             /\ events'[e].lease = Less(events[e].lease)
  <2>. DEFINE r == events[e]
  <2>1. IsRecord(r)
      BY <1>2 DEF Typed
  <2>2. /\ DOMAIN r.deliveries \in Groups /\ r.deliveries \in [DOMAIN r.deliveries -> Delivery]
        /\ r.lease \in 0..Lease
      BY <2>1, RecordType
  <2>3. Less(r.lease) \in 0..Lease
      BY <2>2, DispatchAssumption DEF Less
  <2>4. DOMAIN Aged(r.deliveries) = DOMAIN r.deliveries /\ Aged(r.deliveries) \in [DOMAIN r.deliveries -> Delivery]
      BY <2>2, AgedType
  <2>5. events'[e] = Delivered(r, Aged(r.deliveries), Less(r.lease))
      BY <1>2 DEF Tick, Delivered
  <2>6. /\ IsRecord(events'[e]) /\ events'[e].deliveries = Aged(r.deliveries)
        /\ events'[e].owner = r.owner /\ events'[e].lease = Less(r.lease)
      BY <2>1, <2>2, <2>3, <2>4, <2>5, Redelivered
  <2>. QED
      BY <2>6, RecordType
<1>3. ASSUME NEW e \in Events, events[e] # None
      PROVE  /\ Pending(e)' = Pending(e)
             /\ \A d \in Pending(e) : Stored(e, d)' = Stored(e, d)
  <2>1. events[e].deliveries \in [DOMAIN events[e].deliveries -> Delivery]
      BY <1>3, RecordType DEF Typed
  <2>. QED
      BY <1>2, <1>3, <2>1, AgedType DEF Pending, Stored
<1>. QED
    BY <1>1, <1>2, <1>3 DEF Typed, Pending

--------------------------------------------------------------------------------
(* Types *)

(* A step of one worker leaves the others where they are.                   *)
Actor(w) ==
    \/ DrainStep(w) \/ Exit(w)
    \/ Crash(w) \/ Cancel(w) \/ IOError(w) \/ SkipRelease(w)

Still(u) ==
    /\ pc'[u] = pc[u] /\ claimed'[u] = claimed[u] /\ ev'[u] = ev[u]
    /\ keys'[u] = keys[u] /\ dest'[u] = dest[u] /\ state'[u] = state[u]
    /\ config'[u] = config[u]

LEMMA NextCases ==
    ASSUME [Next]_vars
    PROVE  \/ \E w \in Workers : Actor(w)
           \/ \E e \in Events : Enqueue(e) \/ Drop(e)
           \/ EditProviders
           \/ Tick
           \/ UNCHANGED vars
BY DEF Next, Actor

LEMMA OthersStill ==
    ASSUME TypeOK, NEW w \in Workers, Actor(w), NEW u \in Workers \ {w}
    PROVE  Still(u)
<1>1. CASE Claim(w) \/ Loop(w) \/ Visit(w) \/ ReleaseRest(w)
    BY <1>1 DEF TypeOK, Claim, Loop, Visit, ReleaseRest, Goto, Still
<1>2. CASE Save(w) \/ Progress(w) \/ Fail(w)
    BY <1>2 DEF TypeOK, Save, Progress, Fail, SaveThen, Goto, Still
<1>3. CASE Send(w) \/ Served(w) \/ Release(w)
    BY <1>3 DEF TypeOK, Send, Served, Release, Goto, Still
<1>4. CASE Exit(w) \/ Crash(w)
    BY <1>4 DEF TypeOK, Exit, Crash, Fresh, Still
<1>5. CASE Cancel(w) \/ IOError(w) \/ SkipRelease(w)
    BY <1>5 DEF TypeOK, Cancel, IOError, SkipRelease, drainVars, Goto, Still
<1>. QED
    BY <1>1, <1>2, <1>3, <1>4, <1>5 DEF Actor, DrainStep

LEMMA StillShape ==
    ASSUME NEW u, Still(u), ShapeOf(u)
    PROVE  ShapeOf(u)'
BY DEF Still, ShapeOf, InDrain, InVisit

LEMMA MessageType ==
    ASSUME TypeInv, NEW w \in Workers, InVisit(w)
    PROVE  /\ ev[w].id \in Events /\ dest[w] \in Destinations
           /\ state[w] \in Delivery /\ state[w].chunk \in Nat
           /\ Message(w) \in Nat
<1>1. IsCopy(ev[w]) /\ dest[w] \in DOMAIN ev[w].deliveries /\ state[w] \in Delivery
    BY DEF TypeInv, ShapeOf, InVisit, InDrain, Draining, Busy
<1>2. state[w].chunk \in Nat
    BY <1>1 DEF Delivery
<1>. QED
    BY <1>1, <1>2, CopyType DEF Groups, Message, Whole

(* A worker changes only events that it owns or that nobody has a lease on, *)
(* and never makes another worker their owner.                              *)
LEMMA Untouched ==
    ASSUME TypeInv, NEW w \in Workers, Actor(w), NEW e \in Events, events'[e] # events[e]
    PROVE  /\ events[e] # None /\ (Holds(w, e) \/ ~Leased(e))
           /\ events'[e] = None \/ events'[e].owner \in {w, None, Gone}
<1>. Typed
    BY DEF TypeInv, TypeOK, Typed
<1>1. CASE Claim(w)
    BY <1>1, ClaimEffect DEF Claimable
<1>2. CASE Save(w) \/ Progress(w) \/ Fail(w)
  <2>1. InVisit(w)
      BY <1>2 DEF Save, Progress, Fail, InVisit, Busy
  <2>2. PICK s \in Delivery : \E ok : SaveThen(w, s, ok)
      BY <1>2, <2>1, MessageType, StateTypes DEF Save, Progress, Fail
  <2>3. CanSave(w, ev[w].id, dest[w]) /\ SaveState(ev[w].id, dest[w], s)
      BY <2>2 DEF SaveThen
  <2>4. ev[w].id \in Events /\ dest[w] \in Pending(ev[w].id) /\ Holds(w, ev[w].id)
      BY <2>1, <2>3, MessageType DEF CanSave
  <2>. QED
      BY <2>3, <2>4, SaveStateEffect DEF Holds
<1>3. CASE Served(w)
  <2>1. CanSave(w, ev[w].id, dest[w]) /\ SaveServed(ev[w].id, dest[w])
      BY <1>3 DEF Served
  <2>2. ev[w].id \in Events /\ dest[w] \in Pending(ev[w].id) /\ Holds(w, ev[w].id)
      BY <1>3, <2>1, MessageType DEF CanSave, Served, InVisit, Busy
  <2>. QED
      BY <2>1, <2>2, SaveServedEffect DEF Holds
<1>4. CASE Release(w) \/ ReleaseRest(w)
  <2>1. PICK f \in Events : ReleaseEvent(w, f)
    <3>1. CASE Release(w)
        BY <3>1, CopyType DEF Release, TypeInv, ShapeOf, InDrain, Draining
    <3>2. CASE ReleaseRest(w)
        BY <1>4, <3>2, CopyType DEF ReleaseRest, TypeInv, TypeOK
    <3>. QED
        BY <1>4, <3>1, <3>2
  <2>. QED
      BY <2>1, ReleaseEffect DEF Holds
<1>5. CASE Exit(w) \/ Crash(w)
    BY <1>5, FreshEffect DEF Exit, Crash, Holds
<1>6. CASE Loop(w) \/ Visit(w) \/ Send(w) \/ Cancel(w) \/ IOError(w) \/ SkipRelease(w)
    BY <1>6 DEF Loop, Visit, Send, Cancel, IOError, SkipRelease, queueVars
<1>. QED
    BY <1>1, <1>2, <1>3, <1>4, <1>5, <1>6 DEF Actor, DrainStep

LEMMA ActorQueue ==
    ASSUME NEW w \in Workers, Actor(w)
    PROVE  enqueued' = enqueued /\ dropped' = dropped
BY DEF Actor, DrainStep, Claim, Loop, Visit, Save, Progress, Fail, SaveThen, Send,
   Served, Release, ReleaseRest, Exit, Crash, Fresh, Cancel, IOError, SkipRelease, queueVars

(* A refused or a lost save goes to the next destination; one that succeeds *)
(* goes where the caller says.                                              *)
LEMMA SaveThenType ==
    ASSUME TypeInv, NEW w \in Workers, InVisit(w), NEW s \in Delivery,
           NEW ok \in {"send", "save", "key"}, SaveThen(w, s, ok)
    PROVE  TypeOK' /\ ShapeOf(w)'
<1>. DEFINE e == ev[w].id
            d == dest[w]
<1>1. IsCopy(ev[w]) /\ ShapeOf(w)
    BY DEF TypeInv, ShapeOf, InVisit, InDrain, Draining, Busy
<1>2. e \in Events
    BY <1>1, CopyType
<1>3. Typed /\ d \in Destinations \cup {None}
    BY DEF TypeInv, TypeOK, Typed
<1>4. Typed'
  <2>1. CASE CanSave(w, e, d)
    <3>1. d \in Pending(e) /\ SaveState(e, d, s)
        BY <2>1 DEF CanSave, SaveThen
    <3>. QED
        BY <1>2, <1>3, <3>1, SaveStateEffect
  <2>2. CASE ~CanSave(w, e, d)
      BY <1>3, <2>2 DEF SaveThen, Typed
  <2>. QED
      BY <2>1, <2>2
<1>5. pc' \in [Workers -> Labels] /\ pc'[w] \in {ok, "key"}
    BY DEF TypeInv, TypeOK, SaveThen, Goto, Labels
<1>6. TypeOK'
    BY <1>4, <1>5 DEF TypeInv, TypeOK, Typed, SaveThen, ghostVars
<1>7. ShapeOf(w)'
    BY <1>1, <1>5 DEF SaveThen, ShapeOf, InVisit, InDrain, Draining, Busy
<1>. QED
    BY <1>6, <1>7

LEMMA FreshType ==
    ASSUME TypeInv, NEW w \in Workers, Fresh(w), faults' \in 0..MaxFaults
    PROVE  TypeOK' /\ ShapeOf(w)'
<1>1. Typed'
    BY FreshEffect DEF TypeInv, TypeOK, Typed
<1>2. pc' \in [Workers -> Labels] /\ pc'[w] = "idle"
    BY DEF TypeInv, TypeOK, Fresh, Labels
<1>3. TypeOK'
    BY <1>1, <1>2 DEF TypeInv, TypeOK, Typed, Fresh
<1>. QED
    BY <1>2, <1>3 DEF ShapeOf, InVisit, InDrain, Draining, Busy

LEMMA ClaimType ==
    ASSUME TypeInv, NEW w \in Workers, Claim(w)
    PROVE  TypeOK' /\ ShapeOf(w)'
<1>1. PICK picked \in SUBSET {e \in Events : Claimable(e)} :
        /\ Typed'
        /\ claimed' = [claimed EXCEPT ![w] =
              {[id |-> e, deliveries |-> events[e].deliveries] : e \in picked}]
    BY ClaimEffect DEF TypeInv, TypeOK, Typed
<1>2. \A e \in picked : IsCopy([id |-> e, deliveries |-> events[e].deliveries])
  <2>. SUFFICES ASSUME NEW e \in picked
                PROVE  IsCopy([id |-> e, deliveries |-> events[e].deliveries])
      OBVIOUS
  <2>1. e \in Events /\ IsRecord(events[e])
      BY DEF Claimable, TypeInv, TypeOK
  <2>. QED
      BY <2>1, RecordType, CopyType, CopyIntro
<1>3. DOMAIN claimed' = Workers /\ \A u \in Workers : \A c \in claimed'[u] : IsCopy(c)
    BY <1>1, <1>2 DEF TypeInv, TypeOK
<1>4. pc' \in [Workers -> Labels] /\ pc'[w] = "loop"
    BY DEF TypeInv, TypeOK, Claim, Goto, Labels
<1>5. TypeOK'
    BY <1>1, <1>3, <1>4 DEF TypeInv, TypeOK, Typed, Claim, ghostVars
<1>. QED
    BY <1>4, <1>5 DEF ShapeOf, InVisit, InDrain, Draining, Busy

LEMMA LoopType ==
    ASSUME TypeInv, NEW w \in Workers, Loop(w)
    PROVE  TypeOK' /\ ShapeOf(w)'
<1>. USE DEF TypeInv, TypeOK, Loop, Goto, queueVars, ghostVars
<1>1. CASE claimed[w] = {} \/ cancelled[w]
  <2>1. CASE /\ pc' = [pc EXCEPT ![w] = IF claimed[w] = {} THEN "idle" ELSE "releaseRest"]
             /\ ev' = [ev EXCEPT ![w] = None]
             /\ UNCHANGED <<claimed, keys>>
    <3>1. pc' \in [Workers -> Labels] /\ pc'[w] \in {"idle", "releaseRest"}
        BY <2>1 DEF Labels
    <3>. QED
        BY <2>1, <3>1 DEF ShapeOf, InVisit, InDrain, Draining, Busy
  <2>. QED
      BY <1>1, <2>1
<1>2. ASSUME NEW c \in claimed[w],
             claimed' = [claimed EXCEPT ![w] = @ \ {c}],
             ev' = [ev EXCEPT ![w] = c],
             keys' = [keys EXCEPT ![w] = DOMAIN c.deliveries],
             pc' = [pc EXCEPT ![w] = "key"]
      PROVE  TypeOK' /\ ShapeOf(w)'
  <2>1. IsCopy(c) /\ DOMAIN c.deliveries \subseteq Destinations
      BY CopyType DEF Groups
  <2>2. keys' \in [Workers -> SUBSET Destinations]
      BY <1>2, <2>1
  <2>3. pc' \in [Workers -> Labels] /\ pc'[w] = "key"
      BY <1>2 DEF Labels
  <2>. QED
      BY <1>2, <2>1, <2>2, <2>3 DEF ShapeOf, InVisit, InDrain, Draining, Busy
<1>. QED
    BY <1>1, <1>2

LEMMA VisitType ==
    ASSUME TypeInv, NEW w \in Workers, Visit(w)
    PROVE  TypeOK' /\ ShapeOf(w)'
<1>. USE DEF TypeInv, TypeOK, Visit, Goto, queueVars, ghostVars
<1>1. InDrain(w) /\ ShapeOf(w) /\ IsCopy(ev[w]) /\ keys[w] \subseteq DOMAIN ev[w].deliveries
    BY DEF InDrain, Draining, ShapeOf
<1>2. CASE /\ pc' = [pc EXCEPT ![w] = "release"]
           /\ UNCHANGED <<keys, dest, state>>
  <2>1. pc' \in [Workers -> Labels] /\ pc'[w] = "release"
      BY <1>2 DEF Labels
  <2>. QED
      BY <1>1, <1>2, <2>1 DEF ShapeOf, InVisit, InDrain, Draining, Busy
<1>3. ASSUME NEW d \in keys[w], keys' = [keys EXCEPT ![w] = @ \ {d}],
             UNCHANGED <<pc, dest, state>>
      PROVE  TypeOK' /\ ShapeOf(w)'
    BY <1>1, <1>3 DEF ShapeOf, InVisit, InDrain, Draining, Busy
<1>4. ASSUME NEW d \in keys[w], keys' = [keys EXCEPT ![w] = @ \ {d}],
             NEW label \in {"fail", "save", "finish"},
             dest' = [dest EXCEPT ![w] = d],
             state' = [state EXCEPT ![w] = ev[w].deliveries[d]],
             pc' = [pc EXCEPT ![w] = label]
      PROVE  TypeOK' /\ ShapeOf(w)'
  <2>1. ev[w].deliveries[d] \in Delivery /\ d \in Destinations
      BY <1>1, CopyType DEF Groups
  <2>2. pc' \in [Workers -> Labels] /\ pc'[w] = label
      BY <1>4 DEF Labels
  <2>. QED
      BY <1>1, <1>4, <2>1, <2>2 DEF ShapeOf, InVisit, InDrain, Draining, Busy
<1>5. ASSUME NEW d \in keys[w], keys' = [keys EXCEPT ![w] = @ \ {d}],
             LET s == ev[w].deliveries[d] IN
             /\ dest' = [dest EXCEPT ![w] = d]
             /\ state' = [state EXCEPT ![w] = s]
             /\ Goto(w, IF config[w][d] = "absent" THEN "fail"
                        ELSE IF s.chunk < Parts(w, ev[w].id, d) THEN "save" ELSE "finish")
      PROVE  TypeOK' /\ ShapeOf(w)'
    BY <1>4, <1>5
<1>. QED
    BY <1>2, <1>3, <1>5

LEMMA ReleaseType ==
    ASSUME TypeInv, NEW w \in Workers, Release(w) \/ ReleaseRest(w)
    PROVE  TypeOK' /\ ShapeOf(w)'
<1>. USE DEF TypeInv, TypeOK, Goto, ghostVars
<1>1. CASE Release(w)
  <2>1. ev[w].id \in Events
      BY <1>1, CopyType DEF Release, ShapeOf, InDrain, Draining
  <2>2. Typed'
      BY <1>1, <2>1, ReleaseEffect DEF Release, Typed
  <2>3. pc' \in [Workers -> Labels] /\ pc'[w] = "loop"
      BY <1>1 DEF Release, Labels
  <2>. QED
      BY <1>1, <2>2, <2>3 DEF Release, Typed, ShapeOf, InVisit, InDrain, Draining, Busy
<1>2. CASE ReleaseRest(w)
  <2>1. CASE claimed[w] = {} /\ Goto(w, "idle") /\ UNCHANGED <<events, claimed>>
    <3>1. pc' \in [Workers -> Labels] /\ pc'[w] = "idle"
        BY <2>1 DEF Labels
    <3>. QED
        BY <1>2, <2>1, <3>1 DEF ReleaseRest, ShapeOf, InVisit, InDrain, Draining, Busy
  <2>2. ASSUME NEW c \in claimed[w], claimed' = [claimed EXCEPT ![w] = @ \ {c}],
               ReleaseEvent(w, c.id), UNCHANGED pc
        PROVE  TypeOK' /\ ShapeOf(w)'
    <3>1. c.id \in Events
        BY CopyType
    <3>2. Typed'
        BY <2>2, <3>1, ReleaseEffect DEF Typed
    <3>3. pc[w] = "releaseRest"
        BY <1>2 DEF ReleaseRest
    <3>. QED
        BY <1>2, <2>2, <3>2, <3>3 DEF ReleaseRest, Typed, ShapeOf, InVisit, InDrain, Draining, Busy
  <2>. QED
      BY <1>2, <2>1, <2>2 DEF ReleaseRest
<1>. QED
    BY <1>1, <1>2

LEMMA SendType ==
    ASSUME TypeInv, NEW w \in Workers, Send(w)
    PROVE  TypeOK' /\ ShapeOf(w)'
<1>1. InVisit(w) /\ InDrain(w) /\ ShapeOf(w) /\ pc[w] = "send"
    BY DEF Send, InVisit, InDrain, Draining, Busy, TypeInv
<1>2. /\ ev[w].id \in Events /\ dest[w] \in Destinations
      /\ state[w] \in Delivery /\ state[w].chunk + 1 \in Nat
      /\ Message(w) \in Nat
    BY <1>1, MessageType
<1>3. Receive(w) => got' \in [Events -> [Destinations -> SUBSET Nat]] /\ dups' \in Nat
    BY <1>2 DEF Receive, TypeInv, TypeOK
<1>4. got' \in [Events -> [Destinations -> SUBSET Nat]] /\ dups' \in Nat
    BY <1>3 DEF Send, TypeInv, TypeOK
<1>5. faults' \in 0..MaxFaults
    BY DispatchAssumption DEF Send, Fault, TypeInv, TypeOK
<1>6. pc' \in [Workers -> Labels] /\ pc'[w] \in {"progress", "finish", "fail"}
    BY DEF Send, Goto, Labels, TypeInv, TypeOK
<1>7. state' \in [Workers -> Delivery \cup {None}] /\ state'[w] \in Delivery
  <2>1. [chunk |-> state[w].chunk + 1, attempts |-> 0, wait |-> 0] \in Delivery
      BY <1>2, StateTypes
  <2>. QED
      BY <1>2, <2>1 DEF Send, TypeInv, TypeOK
<1>8. TypeOK'
    BY <1>4, <1>5, <1>6, <1>7 DEF Send, TypeInv, TypeOK, queueVars
<1>. QED
    BY <1>1, <1>6, <1>7, <1>8 DEF Send, ShapeOf, InVisit, InDrain, Draining, Busy

LEMMA ServedType ==
    ASSUME TypeInv, NEW w \in Workers, Served(w)
    PROVE  TypeOK' /\ ShapeOf(w)'
<1>1. InVisit(w) /\ InDrain(w) /\ ShapeOf(w)
    BY DEF Served, InVisit, InDrain, Draining, Busy, TypeInv
<1>2. ev[w].id \in Events /\ Typed
    BY <1>1, MessageType DEF TypeInv, TypeOK, Typed
<1>3. Typed'
    BY <1>2, SaveServedEffect DEF Served, CanSave, Typed
<1>4. pc' \in [Workers -> Labels] /\ pc'[w] = "key"
    BY DEF Served, Goto, Labels, TypeInv, TypeOK
<1>5. TypeOK'
    BY <1>3, <1>4 DEF Served, TypeInv, TypeOK, Typed, ghostVars
<1>. QED
    BY <1>1, <1>4, <1>5 DEF Served, ShapeOf, InVisit, InDrain, Draining, Busy

LEMMA FaultType ==
    ASSUME TypeInv, NEW w \in Workers, Cancel(w) \/ IOError(w) \/ SkipRelease(w)
    PROVE  TypeOK' /\ ShapeOf(w)'
<1>1. faults' \in 0..MaxFaults
    BY DispatchAssumption DEF Cancel, IOError, SkipRelease, Fault, TypeInv, TypeOK
<1>2. CASE Cancel(w)
    BY <1>1, <1>2 DEF Cancel, queueVars, drainVars, TypeInv, TypeOK, ShapeOf,
       InVisit, InDrain
<1>3. CASE IOError(w)
  <2>1. InDrain(w) /\ ShapeOf(w)
      BY <1>3 DEF IOError, InDrain, Draining, Busy, TypeInv
  <2>2. pc' \in [Workers -> Labels] /\ pc'[w] \in {"key", "loop"}
      BY <1>3 DEF IOError, Goto, Labels, TypeInv, TypeOK
  <2>3. TypeOK'
      BY <1>1, <1>3, <2>2 DEF IOError, queueVars, TypeInv, TypeOK
  <2>. QED
      BY <1>3, <2>1, <2>2, <2>3 DEF IOError, ShapeOf, InVisit, InDrain, Draining, Busy
<1>4. CASE SkipRelease(w)
  <2>1. pc' = pc /\ ~InDrain(w) /\ ~InVisit(w)
      BY <1>4 DEF SkipRelease, InDrain, InVisit, Draining, Busy
  <2>2. TypeOK'
      BY <1>1, <1>4, <2>1 DEF SkipRelease, queueVars, TypeInv, TypeOK
  <2>. QED
      BY <2>1, <2>2 DEF ShapeOf, InVisit, InDrain
<1>. QED
    BY <1>2, <1>3, <1>4

LEMMA ActorType ==
    ASSUME TypeInv, NEW w \in Workers, Actor(w)
    PROVE  TypeInv'
<1>1. TypeOK' /\ ShapeOf(w)'
  <2>1. CASE Claim(w)
      BY <2>1, ClaimType
  <2>2. CASE Loop(w)
      BY <2>2, LoopType
  <2>3. CASE Visit(w)
      BY <2>3, VisitType
  <2>4. CASE Save(w) \/ Progress(w) \/ Fail(w)
    <3>1. InVisit(w)
        BY <2>4 DEF Save, Progress, Fail, InVisit, Busy
    <3>2. state[w] \in Delivery /\ AfterRefusal(state[w]) \in Delivery
        BY <3>1, MessageType, StateTypes
    <3>. QED
        BY <2>4, <3>1, <3>2, SaveThenType DEF Save, Progress, Fail
  <2>5. CASE Send(w)
      BY <2>5, SendType
  <2>6. CASE Served(w)
      BY <2>6, ServedType
  <2>7. CASE Release(w) \/ ReleaseRest(w)
      BY <2>7, ReleaseType
  <2>8. CASE Exit(w) \/ Crash(w)
    <3>1. faults' \in 0..MaxFaults
        BY <2>8, DispatchAssumption DEF Exit, Crash, Fault, TypeInv, TypeOK
    <3>. QED
        BY <2>8, <3>1, FreshType DEF Exit, Crash
  <2>9. CASE Cancel(w) \/ IOError(w) \/ SkipRelease(w)
      BY <2>9, FaultType
  <2>. QED
      BY <2>1, <2>2, <2>3, <2>4, <2>5, <2>6, <2>7, <2>8, <2>9 DEF Actor, DrainStep
<1>2. \A u \in Workers \ {w} : ShapeOf(u)'
    BY OthersStill, StillShape DEF TypeInv
<1>3. Queued'
    BY Untouched, ActorQueue DEF TypeInv, Queued
<1>. QED
    BY <1>1, <1>2, <1>3 DEF TypeInv

(* What time does to a copy in hand.                                        *)
Older(c) == [c EXCEPT !.deliveries = Aged(@)]

TickCopy(b, c) ==
    /\ IsCopy(b) /\ b.id = c.id
    /\ DOMAIN b.deliveries = DOMAIN c.deliveries
    /\ \A d \in DOMAIN c.deliveries : b.deliveries[d].chunk = c.deliveries[d].chunk

LEMMA OlderCopy ==
    ASSUME NEW c, IsCopy(c)
    PROVE  TickCopy(Older(c), c)
<1>1. PICK D \in Groups : c \in [id: Events, deliveries: [D -> Delivery]]
    BY DEF IsCopy
<1>2. DOMAIN Aged(c.deliveries) = D /\ Aged(c.deliveries) \in [D -> Delivery]
    BY <1>1, AgedType
<1>3. /\ Older(c) \in [id: Events, deliveries: [D -> Delivery]]
      /\ Older(c).id = c.id /\ Older(c).deliveries = Aged(c.deliveries)
    BY <1>1, <1>2 DEF Older
<1>. QED
    BY <1>1, <1>2, <1>3, AgedType DEF IsCopy, TickCopy

LEMMA TickHands ==
    ASSUME TypeOK, Tick
    PROVE  /\ DOMAIN claimed' = Workers /\ DOMAIN ev' = Workers
           /\ \A w \in Workers :
                /\ \A b \in claimed'[w] : \E c \in claimed[w] :
                     b = Older(c) /\ TickCopy(b, c)
                /\ IF ev[w] = None THEN ev'[w] = None ELSE TickCopy(ev'[w], ev[w])
           /\ pc' = pc /\ keys' = keys /\ dest' = dest /\ state' = state /\ config' = config
<1>1. \A w \in Workers :
        /\ claimed'[w] = {Older(c) : c \in claimed[w]}
        /\ ev'[w] = IF ev[w] = None THEN None ELSE Older(ev[w])
    BY DEF Tick, Older
<1>2. \A w \in Workers : /\ \A c \in claimed[w] : IsCopy(c)
                         /\ ev[w] # None => IsCopy(ev[w])
    BY DEF TypeOK
<1>3. \A c : IsCopy(c) => TickCopy(Older(c), c)
    BY OlderCopy
<1>4. ASSUME NEW w \in Workers, NEW b \in claimed'[w]
      PROVE  \E c \in claimed[w] : b = Older(c) /\ TickCopy(b, c)
  <2>1. PICK c \in claimed[w] : b = Older(c)
      BY <1>1, <1>4
  <2>2. TickCopy(Older(c), c)
      BY <1>2, <1>3
  <2>. QED
      BY <2>1, <2>2
<1>5. ASSUME NEW w \in Workers
      PROVE  IF ev[w] = None THEN ev'[w] = None ELSE TickCopy(ev'[w], ev[w])
    BY <1>1, <1>2, <1>3
<1>. QED
    BY <1>4, <1>5 DEF Tick

LEMMA TickType ==
    ASSUME TypeInv, Tick
    PROVE  TypeInv'
<1>1. Typed'
    BY TickEffect DEF TypeInv, TypeOK, Typed
<1>2. \A w \in Workers : /\ \A b \in claimed'[w] : IsCopy(b)
                         /\ ev'[w] # None => IsCopy(ev'[w])
    BY TickHands DEF TypeInv, TickCopy
<1>3. faults' \in 0..MaxFaults
  <2>1. IsFiniteSet(Overrun)
      BY DispatchAssumption, FS_Subset DEF Overrun
  <2>2. Cardinality(Overrun) \in Nat
      BY <2>1, FS_CardinalityType
  <2>3. faults' = faults + Cardinality(Overrun) /\ faults' <= MaxFaults
      BY DEF Tick
  <2>. QED
      BY <2>2, <2>3, DispatchAssumption DEF TypeInv, TypeOK
<1>4. TypeOK'
    BY <1>1, <1>2, <1>3, TickHands DEF TypeInv, TypeOK, Typed, Tick
<1>5. ASSUME NEW w \in Workers
      PROVE  ShapeOf(w)'
  <2>1. InDrain(w) => ev[w] # None
      BY CopyType DEF TypeInv, ShapeOf
  <2>2. InDrain(w) => TickCopy(ev'[w], ev[w])
      BY <2>1, TickHands DEF TypeInv
  <2>3. InVisit(w) => InDrain(w)
      BY DEF InVisit, InDrain, Draining
  <2>. QED
      BY <2>2, <2>3, TickHands DEF TypeInv, ShapeOf, InDrain, InVisit, TickCopy
<1>6. Queued'
    BY TickEffect DEF TypeInv, TypeOK, Typed, Queued, Tick
<1>. QED
    BY <1>4, <1>5, <1>6 DEF TypeInv

LEMMA EnqueueEffect ==
    ASSUME TypeOK, NEW e \in Events, Enqueue(e)
    PROVE  /\ Typed'
           /\ e \notin enqueued /\ enqueued' = enqueued \cup {e}
           /\ \A f \in Events \ {e} : events'[f] = events[f]
           /\ events'[e] # None /\ events'[e].owner = None
           /\ Pending(e)' = AddressedTo[e]
           /\ \A d \in AddressedTo[e] : Stored(e, d)' = 0
           /\ \A w \in Workers : Still(w)
<1>. DEFINE f == [d \in AddressedTo[e] |-> [chunk |-> 0, attempts |-> 0, wait |-> 0]]
            r == [deliveries |-> f, owner |-> None, lease |-> 0]
<1>1. events' = [events EXCEPT ![e] = r]
    BY DEF Enqueue
<1>2. [chunk |-> 0, attempts |-> 0, wait |-> 0] \in Delivery
    BY DispatchAssumption DEF Delivery
<1>3. DOMAIN f = AddressedTo[e] /\ AddressedTo[e] \in Groups /\ f \in [DOMAIN f -> Delivery]
    BY <1>2, DispatchAssumption DEF Groups
<1>4. None \in Owners /\ 0 \in 0..Lease
    BY DispatchAssumption DEF Owners
<1>5. IsRecord(r) /\ r # None
    BY <1>3, <1>4, RecordIntro, NoneAssumption
<1>6. events'[e] = r /\ DOMAIN events' = Events /\ \A g \in Events \ {e} : events'[g] = events[g]
    BY <1>1 DEF TypeOK
<1>7. Pending(e)' = AddressedTo[e] /\ \A d \in AddressedTo[e] : Stored(e, d)' = 0
    BY <1>3, <1>5, <1>6 DEF Pending, Stored
<1>8. \A w \in Workers : Still(w)
    BY DEF Enqueue, drainVars, Still
<1>. QED
    BY <1>5, <1>6, <1>7, <1>8 DEF Enqueue, Typed, TypeOK

LEMMA DropEffect ==
    ASSUME TypeOK, NEW e \in Events, Drop(e)
    PROVE  /\ Typed'
           /\ \A f \in Events : events'[f] \in {None, events[f]}
           /\ dropped' = dropped \cup {f \in Events : events[f] # None /\ TargetOf[f] = TargetOf[e]}
           /\ \A f \in Events : events[f] # None /\ TargetOf[f] = TargetOf[e] => events'[f] = None
           /\ \A f \in Events : events'[f] # events[f] => f \in dropped'
           /\ \A w \in Workers : Still(w)
BY DEF Drop, drainVars, Still, Typed, TypeOK

LEMMA OtherType ==
    ASSUME TypeInv
    PROVE  /\ \A e \in Events : Enqueue(e) \/ Drop(e) => TypeInv'
           /\ EditProviders \/ UNCHANGED vars => TypeInv'
<1>1. ASSUME NEW e \in Events, Enqueue(e)
      PROVE  TypeInv'
  <2>1. Typed' /\ \A w \in Workers : Still(w)
      BY <1>1, EnqueueEffect DEF TypeInv
  <2>2. TypeOK'
      BY <1>1, <2>1 DEF Enqueue, drainVars, ghostVars, TypeInv, TypeOK, Typed
  <2>3. Queued'
      BY <1>1, EnqueueEffect DEF TypeInv, Queued
  <2>. QED
      BY <2>1, <2>2, <2>3, StillShape DEF TypeInv
<1>2. ASSUME NEW e \in Events, Drop(e)
      PROVE  TypeInv'
  <2>1. Typed' /\ \A w \in Workers : Still(w)
      BY <1>2, DropEffect DEF TypeInv
  <2>2. dropped' \subseteq enqueued'
      BY <1>2 DEF Drop, TypeInv, TypeOK, Queued
  <2>3. TypeOK'
      BY <1>2, <2>1, <2>2 DEF Drop, drainVars, ghostVars, TypeInv, TypeOK, Typed
  <2>4. Queued'
      BY <1>2, DropEffect DEF TypeInv, Queued, Drop
  <2>. QED
      BY <2>1, <2>3, <2>4, StillShape DEF TypeInv
<1>3. ASSUME EditProviders \/ UNCHANGED vars
      PROVE  TypeInv'
  <2>1. TypeOK'
      BY <1>3 DEF EditProviders, vars, queueVars, drainVars, ghostVars, TypeInv, TypeOK
  <2>2. \A w \in Workers : Still(w)
      BY <1>3 DEF EditProviders, vars, drainVars, Still
  <2>3. Queued'
      BY <1>3 DEF EditProviders, vars, queueVars, TypeInv, Queued
  <2>. QED
      BY <2>1, <2>2, <2>3, StillShape DEF TypeInv
<1>. QED
    BY <1>1, <1>2, <1>3

LEMMA InitType ==
    ASSUME Init
    PROVE  TypeInv
<1>1. TypeOK
    BY DispatchAssumption DEF Init, TypeOK, Labels
<1>. QED
    BY <1>1 DEF Init, TypeInv, Queued, ShapeOf, InDrain, InVisit, Draining, Busy

(* What a worker has in hand is of the type that its label calls for, under *)
(* every interleaving of drains, crashes, refused saves and expired leases. *)
LEMMA TypeHolds == Spec => []TypeInv
<1>1. Init => TypeInv
    BY InitType
<1>2. TypeInv /\ [Next]_vars => TypeInv'
    BY NextCases, ActorType, TickType, OtherType
<1>. QED
    BY <1>1, <1>2, PTL DEF Spec

(* Whatever crashes, expires, fails or is reconfigured, no record, copy or  *)
(* position of a worker falls out of its range: in particular a position    *)
(* stays within the chunks of its text, and the faults within their bound.  *)
THEOREM DispatchTypes == Spec => []TypeOK
<1>1. TypeInv => TypeOK
    BY DEF TypeInv
<1>. QED
    BY <1>1, TypeHolds, PTL

--------------------------------------------------------------------------------
(* Copies *)

(* Only queued events are stored or copied, only for destinations they were *)
(* addressed to, and a worker has one copy of an event.                     *)
KnownFor(w) ==
    /\ \A c \in claimed[w] :
         c.id \in enqueued /\ DOMAIN c.deliveries \subseteq AddressedTo[c.id]
    /\ \A c, x \in claimed[w] : c.id = x.id => c = x
    /\ InDrain(w) => /\ ev[w].id \in enqueued
                     /\ DOMAIN ev[w].deliveries \subseteq AddressedTo[ev[w].id]
                     /\ \A c \in claimed[w] : c.id # ev[w].id

Known ==
    /\ \A e \in Events : Pending(e) \subseteq AddressedTo[e]
    /\ \A w \in Workers : KnownFor(w)

(* The copy of an event that the worker still owns is what is stored.       *)
ExactFor(w) ==
    /\ \A c \in claimed[w] : Holds(w, c.id) =>
         \A d \in Pending(c.id) :
             d \in DOMAIN c.deliveries /\ Stored(c.id, d) = c.deliveries[d].chunk
    /\ InDrain(w) /\ Holds(w, ev[w].id) =>
         \A d \in keys[w] \cap Pending(ev[w].id) :
             Stored(ev[w].id, d) = ev[w].deliveries[d].chunk
    /\ InVisit(w) /\ CanSave(w, ev[w].id, dest[w]) =>
         /\ pc[w] \in {"save", "send", "fail"} =>
              state[w].chunk = Stored(ev[w].id, dest[w])
         /\ pc[w] = "progress" =>
              state[w].chunk = Stored(ev[w].id, dest[w]) + 1

Exact == \A w \in Workers : ExactFor(w)

(* A worker writes the state it has in hand, at the destination it serves.  *)
Writes(w, e, d) ==
    /\ pc[w] \in {"save", "progress", "fail"}
    /\ ev[w].id = e /\ dest[w] = d /\ CanSave(w, e, d)

LEMMA ActorStored ==
    ASSUME TypeInv, NEW w \in Workers, Actor(w), NEW e \in Events
    PROVE  /\ Pending(e)' \subseteq Pending(e)
           /\ \A d \in Pending(e)' :
                \/ Stored(e, d)' = Stored(e, d)
                \/ Writes(w, e, d) /\ Stored(e, d)' = state[w].chunk
           /\ \A d \in Pending(e) \ Pending(e)' :
                pc[w] = "finish" /\ ev[w].id = e /\ dest[w] = d
<1>. Typed
    BY DEF TypeInv, TypeOK, Typed
<1>1. CASE SameDeliveries(e)
    BY <1>1, SamePending
<1>2. CASE Save(w) \/ Progress(w) \/ Fail(w)
  <2>1. InVisit(w) /\ pc[w] \in {"save", "progress", "fail"}
      BY <1>2 DEF Save, Progress, Fail, InVisit, Busy
  <2>2. PICK s \in Delivery : s.chunk = state[w].chunk /\ \E ok : SaveThen(w, s, ok)
      BY <1>2, <2>1, MessageType, StateTypes DEF Save, Progress, Fail
  <2>3. CASE events' = events
      BY <2>3 DEF Pending, Stored
  <2>4. CASE CanSave(w, ev[w].id, dest[w]) /\ SaveState(ev[w].id, dest[w], s)
    <3>1. ev[w].id \in Events /\ dest[w] \in Pending(ev[w].id)
        BY <2>1, <2>4, MessageType DEF CanSave
    <3>2. CASE e # ev[w].id
        BY <2>4, <3>1, <3>2, SaveStateEffect DEF Pending, Stored
    <3>3. CASE e = ev[w].id
      <4>1. PICK d : d = dest[w]
          OBVIOUS
      <4>2. d \in Pending(e) /\ SaveState(e, d, s) /\ Writes(w, e, d)
          BY <2>1, <2>4, <3>1, <3>3, <4>1 DEF Writes
      <4>3. /\ Pending(e)' = Pending(e)
            /\ events'[e].deliveries[d] = s
            /\ \A x \in Pending(e) \ {d} :
                 events'[e].deliveries[x] = events[e].deliveries[x]
          BY <4>2, SaveStateEffect
      <4>. QED
          BY <2>2, <4>2, <4>3 DEF Stored
    <3>. QED
        BY <3>2, <3>3
  <2>. QED
      BY <2>2, <2>3, <2>4 DEF SaveThen
<1>3. CASE Served(w)
  <2>1. CASE events' = events
      BY <2>1 DEF Pending, Stored
  <2>2. CASE CanSave(w, ev[w].id, dest[w]) /\ SaveServed(ev[w].id, dest[w])
    <3>1. ev[w].id \in Events /\ dest[w] \in Pending(ev[w].id) /\ pc[w] = "finish"
        BY <1>3, <2>2, MessageType DEF CanSave, Served, InVisit, Busy
    <3>2. CASE e # ev[w].id
        BY <2>2, <3>1, <3>2, SaveServedEffect DEF Pending, Stored
    <3>3. CASE e = ev[w].id
        BY <2>2, <3>1, <3>3, SaveServedEffect DEF Stored
    <3>. QED
        BY <3>2, <3>3
  <2>. QED
      BY <1>3, <2>1, <2>2 DEF Served
<1>4. CASE Claim(w)
    BY <1>1, <1>4, ClaimEffect
<1>5. CASE Release(w) \/ ReleaseRest(w)
  <2>1. CASE events' = events
      BY <2>1 DEF Pending, Stored
  <2>2. CASE \E f \in Events : ReleaseEvent(w, f)
      BY <1>1, <2>2, ReleaseEffect
  <2>3. \/ events' = events
        \/ \E f \in Events : ReleaseEvent(w, f)
    <3>1. CASE Release(w)
        BY <3>1, CopyType DEF Release, TypeInv, ShapeOf, InDrain, Draining
    <3>2. CASE ReleaseRest(w)
        BY <1>5, <3>2, CopyType DEF ReleaseRest, TypeInv, TypeOK
    <3>. QED
        BY <1>5, <3>1, <3>2
  <2>. QED
      BY <2>1, <2>2, <2>3
<1>6. CASE Exit(w) \/ Crash(w)
    BY <1>1, <1>6, FreshEffect DEF Exit, Crash
<1>7. CASE Loop(w) \/ Visit(w) \/ Send(w) \/ Cancel(w) \/ IOError(w) \/ SkipRelease(w)
    BY <1>7 DEF Loop, Visit, Send, Cancel, IOError, SkipRelease, queueVars, Pending, Stored
<1>. QED
    BY <1>2, <1>3, <1>4, <1>5, <1>6, <1>7 DEF Actor, DrainStep

(* What a worker still owns after the step of another was not touched by it. *)
LEMMA OwnedElsewhere ==
    ASSUME TypeInv, NEW w \in Workers, Actor(w), NEW u \in Workers \ {w},
           NEW e \in Events
    PROVE  /\ Holds(u, e)' => events'[e] = events[e] /\ Holds(u, e)
           /\ Live(u, e) => Live(u, e)'
           /\ events[e] = None => events'[e] = None
<1>1. u # None /\ u # Gone
    BY DispatchAssumption
<1>. QED
    BY <1>1, Untouched DEF Holds, Live, Leased

(* The hands of a worker after a step of its own that is not a claim, the   *)
(* next round of its loop, or the end of its process.                       *)
SameHands(w) ==
    /\ claimed'[w] = claimed[w] /\ ev'[w] = ev[w] /\ keys'[w] \subseteq keys[w]
    /\ InDrain(w)' => InDrain(w)

LEMMA HandSteps ==
    ASSUME TypeInv, NEW w \in Workers, Actor(w)
    PROVE  \/ Claim(w) \/ Loop(w) \/ ReleaseRest(w) \/ SkipRelease(w) \/ Exit(w) \/ Crash(w)
           \/ SameHands(w)
<1>1. CASE Visit(w)
    BY <1>1 DEF TypeInv, TypeOK, Visit, SameHands, InDrain, Draining
<1>2. CASE Save(w) \/ Progress(w) \/ Fail(w)
    BY <1>2 DEF TypeInv, TypeOK, Save, Progress, Fail, SaveThen, SameHands, InDrain,
       Draining, Busy
<1>3. CASE Send(w) \/ Served(w) \/ Release(w)
    BY <1>3 DEF TypeInv, TypeOK, Send, Served, Release, SameHands, InDrain, Draining, Busy
<1>4. CASE Cancel(w) \/ IOError(w)
    BY <1>4 DEF TypeInv, TypeOK, Cancel, IOError, drainVars, SameHands, InDrain,
       Draining, Busy
<1>. QED
    BY <1>1, <1>2, <1>3, <1>4 DEF Actor, DrainStep

LEMMA KnownActor ==
    ASSUME TypeInv, Known, NEW w \in Workers, Actor(w)
    PROVE  KnownFor(w)'
<1>1. enqueued' = enqueued /\ KnownFor(w)
    BY ActorQueue DEF Known
<1>2. CASE SameHands(w)
    BY <1>1, <1>2 DEF SameHands, KnownFor
<1>3. CASE Claim(w)
  <2>1. PICK picked \in SUBSET {e \in Events : Claimable(e)} :
          claimed' = [claimed EXCEPT ![w] =
              {[id |-> e, deliveries |-> events[e].deliveries] : e \in picked}]
      BY <1>3, ClaimEffect DEF TypeInv, TypeOK, Typed
  <2>2. claimed'[w] = {[id |-> e, deliveries |-> events[e].deliveries] : e \in picked}
      BY <2>1 DEF TypeInv, TypeOK
  <2>3. \A e \in picked : /\ e \in enqueued
                          /\ DOMAIN events[e].deliveries \subseteq AddressedTo[e]
      BY DEF Claimable, TypeInv, Queued, Known, Pending
  <2>4. ~InDrain(w)'
      BY <1>3 DEF Claim, Goto, InDrain, Draining, Busy, TypeInv, TypeOK
  <2>. QED
      BY <1>1, <2>2, <2>3, <2>4 DEF KnownFor
<1>4. CASE Loop(w)
  <2>1. CASE ~InDrain(w)' /\ claimed'[w] = claimed[w]
      BY <1>1, <2>1 DEF KnownFor
  <2>2. CASE \E c \in claimed[w] : claimed'[w] = claimed[w] \ {c} /\ ev'[w] = c
      BY <1>1, <2>2 DEF KnownFor
  <2>. QED
      BY <1>4, <2>1, <2>2 DEF Loop, Goto, InDrain, Draining, Busy, TypeInv, TypeOK
<1>5. CASE ReleaseRest(w) \/ SkipRelease(w)
  <2>1. claimed'[w] \subseteq claimed[w]
      BY <1>5 DEF ReleaseRest, SkipRelease, TypeInv, TypeOK
  <2>2. ~InDrain(w)'
      BY <1>5 DEF ReleaseRest, SkipRelease, Goto, InDrain, Draining, Busy, TypeInv, TypeOK
  <2>. QED
      BY <1>1, <2>1, <2>2 DEF KnownFor
<1>6. CASE Exit(w) \/ Crash(w)
    BY <1>6 DEF Exit, Crash, Fresh, KnownFor, InDrain, Draining, Busy, TypeInv, TypeOK
<1>. QED
    BY <1>2, <1>3, <1>4, <1>5, <1>6, HandSteps

LEMMA KnownStep ==
    ASSUME TypeInv, Known, [Next]_vars
    PROVE  Known'
<1>1. ASSUME NEW w \in Workers, Actor(w)
      PROVE  Known'
  <2>1. \A u \in Workers \ {w} : Still(u) /\ enqueued' = enqueued
      BY <1>1, OthersStill, ActorQueue DEF TypeInv
  <2>2. \A u \in Workers \ {w} : KnownFor(u)'
      BY <2>1 DEF Known, KnownFor, Still, InDrain
  <2>. QED
      BY <1>1, <2>2, KnownActor, ActorStored DEF Known
<1>2. ASSUME NEW e \in Events, Enqueue(e)
      PROVE  Known'
  <2>1. /\ enqueued \subseteq enqueued' /\ Pending(e)' = AddressedTo[e]
        /\ \A f \in Events \ {e} : Pending(f)' = Pending(f)
        /\ \A u \in Workers : Still(u)
      BY <1>2, EnqueueEffect DEF Pending, TypeInv
  <2>2. \A u \in Workers : KnownFor(u)'
      BY <2>1 DEF Known, KnownFor, Still, InDrain
  <2>. QED
      BY <2>1, <2>2 DEF Known
<1>3. ASSUME NEW e \in Events, Drop(e)
      PROVE  Known'
  <2>1. /\ enqueued' = enqueued /\ \A f \in Events : Pending(f)' \subseteq Pending(f)
        /\ \A u \in Workers : Still(u)
      BY <1>3, DropEffect DEF Pending, TypeInv, Drop
  <2>2. \A u \in Workers : KnownFor(u)'
      BY <2>1 DEF Known, KnownFor, Still, InDrain
  <2>. QED
      BY <2>1, <2>2 DEF Known
<1>4. CASE EditProviders \/ UNCHANGED vars
  <2>1. events' = events /\ enqueued' = enqueued /\ \A u \in Workers : Still(u)
      BY <1>4 DEF EditProviders, vars, queueVars, drainVars, Still
  <2>2. \A u \in Workers : KnownFor(u)'
      BY <2>1 DEF Known, KnownFor, Still, InDrain
  <2>. QED
      BY <2>1, <2>2 DEF Known, Pending
<1>5. CASE Tick
  <2>1. enqueued' = enqueued /\ \A e \in Events : Pending(e)' = Pending(e)
      BY <1>5, TickEffect DEF Tick, TypeInv, TypeOK, Typed
  <2>2. ASSUME NEW w \in Workers
        PROVE  KnownFor(w)'
    <3>1. /\ pc'[w] = pc[w]
          /\ \A b \in claimed'[w] : \E c \in claimed[w] : b = Older(c) /\ TickCopy(b, c)
          /\ InDrain(w) => TickCopy(ev'[w], ev[w])
        BY <1>5, TickHands, CopyType DEF TypeInv, ShapeOf
    <3>. QED
        BY <2>1, <3>1 DEF Known, KnownFor, TickCopy, InDrain
  <2>. QED
      BY <2>1, <2>2 DEF Known
<1>. QED
    BY <1>1, <1>2, <1>3, <1>4, <1>5, NextCases

LEMMA ExactSave ==
    ASSUME TypeInv, Known, Exact, NEW w \in Workers, InVisit(w), NEW s \in Delivery,
           NEW ok, SaveThen(w, s, ok),
           \/ ok = "key"
           \/ ok \in {"send", "save"} /\ s = state[w]
    PROVE  ExactFor(w)'
<1>1. ExactFor(w) /\ KnownFor(w) /\ Typed /\ InDrain(w) /\ dest[w] \notin keys[w]
    BY DEF Exact, Known, TypeInv, TypeOK, Typed, ShapeOf, InVisit, InDrain, Draining
<1>2. /\ claimed'[w] = claimed[w] /\ ev'[w] = ev[w] /\ keys'[w] = keys[w]
      /\ dest'[w] = dest[w] /\ state'[w] = state[w]
    BY DEF SaveThen
<1>3. CASE ~CanSave(w, ev[w].id, dest[w])
  <2>1. events' = events /\ pc'[w] = "key"
      BY <1>3 DEF SaveThen, Goto, TypeInv, TypeOK
  <2>. QED
      BY <1>1, <1>2, <2>1 DEF ExactFor, Holds, Pending, Stored, InVisit, Busy
<1>4. CASE CanSave(w, ev[w].id, dest[w])
  <2>0. PICK e, d : e = ev[w].id /\ d = dest[w]
      OBVIOUS
  <2>1. /\ SaveState(e, d, s) /\ pc'[w] = ok
        /\ e \in Events /\ d \in Pending(e) /\ Holds(w, e)
      BY <1>4, <2>0, MessageType DEF SaveThen, Goto, TypeInv, TypeOK, CanSave
  <2>2. /\ \A f \in Events \ {e} : events'[f] = events[f]
        /\ Pending(e)' = Pending(e)
        /\ events'[e].deliveries[d] = s
        /\ \A x \in Pending(e) \ {d} :
             events'[e].deliveries[x] = events[e].deliveries[x]
      BY <1>1, <2>1, SaveStateEffect
  <2>3. ASSUME NEW c \in claimed'[w], Holds(w, c.id)'
        PROVE  \A x \in Pending(c.id)' :
                 x \in DOMAIN c.deliveries /\ Stored(c.id, x)' = c.deliveries[x].chunk
    <3>1. c \in claimed[w] /\ c.id # e /\ c.id \in Events
        BY <1>1, <1>2, <2>0, CopyType DEF KnownFor, TypeInv, TypeOK
    <3>2. events'[c.id] = events[c.id]
        BY <2>2, <3>1
    <3>. QED
        BY <1>1, <2>3, <3>1, <3>2 DEF ExactFor, Holds, Pending, Stored
  <2>4. \A x \in keys'[w] \cap Pending(e)' :
          Stored(e, x)' = ev'[w].deliveries[x].chunk
      BY <1>1, <1>2, <2>0, <2>1, <2>2 DEF ExactFor, Stored
  <2>5. pc'[w] \in {"save", "send", "fail"} => state'[w].chunk = Stored(e, d)'
      BY <1>2, <2>1, <2>2 DEF Stored, InVisit, Busy
  <2>6. pc'[w] # "progress"
      BY <2>1
  <2>. QED
      BY <1>2, <2>0, <2>3, <2>4, <2>5, <2>6 DEF ExactFor
<1>. QED
    BY <1>3, <1>4

LEMMA ExactActor ==
    ASSUME TypeInv, Known, Exact, NEW w \in Workers, Actor(w)
    PROVE  ExactFor(w)'
<1>1. ExactFor(w) /\ KnownFor(w) /\ ShapeOf(w) /\ Typed
    BY DEF Exact, Known, TypeInv, TypeOK, Typed
<1>2. \A c \in claimed[w] : c.id \in Events
    BY CopyType DEF TypeInv, TypeOK
<1>3. CASE Save(w) \/ Progress(w) \/ Fail(w)
  <2>1. InVisit(w)
      BY <1>3 DEF Save, Progress, Fail, InVisit, Busy
  <2>2. state[w] \in Delivery /\ AfterRefusal(state[w]) \in Delivery
      BY <2>1, MessageType, StateTypes
  <2>3. CASE Save(w)
      BY <2>1, <2>2, <2>3, ExactSave DEF Save
  <2>4. CASE Progress(w)
      BY <2>1, <2>2, <2>4, ExactSave DEF Progress
  <2>5. CASE Fail(w)
      BY <2>1, <2>2, <2>5, ExactSave DEF Fail
  <2>. QED
      BY <1>3, <2>3, <2>4, <2>5
<1>4. CASE Claim(w)
  <2>1. PICK picked \in SUBSET {e \in Events : Claimable(e)} :
          /\ \A e \in Events : SameDeliveries(e)
          /\ claimed' = [claimed EXCEPT ![w] =
              {[id |-> e, deliveries |-> events[e].deliveries] : e \in picked}]
      BY <1>1, <1>4, ClaimEffect
  <2>2. claimed'[w] = {[id |-> e, deliveries |-> events[e].deliveries] : e \in picked}
      BY <2>1 DEF TypeInv, TypeOK
  <2>3. \A e \in picked : /\ Pending(e)' = DOMAIN events[e].deliveries
                          /\ \A d \in Pending(e)' :
                               Stored(e, d)' = events[e].deliveries[d].chunk
      BY <2>1, SamePending DEF Claimable, Pending, Stored
  <2>4. ~InDrain(w)' /\ ~InVisit(w)'
      BY <1>4 DEF Claim, Goto, InDrain, InVisit, Draining, Busy, TypeInv, TypeOK
  <2>. QED
      BY <2>2, <2>3, <2>4 DEF ExactFor
<1>5. CASE Loop(w)
  <2>1. events' = events
      BY <1>5 DEF Loop, queueVars
  <2>2. CASE ~InDrain(w)' /\ ~InVisit(w)' /\ claimed'[w] = claimed[w]
      BY <1>1, <2>1, <2>2 DEF ExactFor, Holds, Pending, Stored
  <2>3. CASE \E c \in claimed[w] :
               /\ claimed'[w] = claimed[w] \ {c} /\ ev'[w] = c
               /\ ~InVisit(w)'
      BY <1>1, <2>1, <2>3 DEF ExactFor, Holds, Pending, Stored
  <2>. QED
      BY <1>5, <2>2, <2>3
         DEF Loop, Goto, InDrain, InVisit, Draining, Busy, TypeInv, TypeOK
<1>6. CASE Release(w) \/ ReleaseRest(w)
  <2>1. /\ claimed'[w] \subseteq claimed[w]
        /\ ~InDrain(w)' /\ ~InVisit(w)'
      BY <1>6 DEF Release, ReleaseRest, Goto, InDrain, InVisit, Draining, Busy,
         TypeInv, TypeOK
  <2>2. \A e \in Events : Holds(w, e)' => events'[e] = events[e]
    <3>1. w # None
        BY DispatchAssumption
    <3>2. \/ events' = events
          \/ \E f \in Events : ReleaseEvent(w, f)
      <4>1. CASE Release(w)
          BY <4>1, CopyType DEF Release, TypeInv, ShapeOf, InDrain, Draining
      <4>2. CASE ReleaseRest(w)
          BY <1>2, <4>2 DEF ReleaseRest
      <4>. QED
          BY <1>6, <4>1, <4>2
    <3>. QED
        BY <1>1, <3>1, <3>2, ReleaseEffect DEF Holds
  <2>. QED
      BY <1>1, <1>2, <2>1, <2>2 DEF ExactFor, Holds, Pending, Stored
<1>7. CASE Exit(w) \/ Crash(w)
    BY <1>7 DEF Exit, Crash, Fresh, ExactFor, InDrain, InVisit, Draining, Busy,
       TypeInv, TypeOK
<1>8. CASE Visit(w)
  <2>1. /\ events' = events /\ claimed'[w] = claimed[w] /\ ev'[w] = ev[w] /\ InDrain(w)
        /\ keys'[w] \subseteq keys[w]
      BY <1>8 DEF Visit, queueVars, InDrain, Draining, TypeInv, TypeOK
  <2>2. CASE ~InVisit(w)'
      BY <1>1, <2>1, <2>2 DEF ExactFor, Holds, Pending, Stored
  <2>3. CASE /\ dest'[w] \in keys[w] /\ state'[w] = ev[w].deliveries[dest'[w]]
             /\ pc'[w] # "progress"
      BY <1>1, <2>1, <2>3 DEF ExactFor, Holds, Pending, Stored, CanSave
  <2>. QED
      BY <1>8, <2>2, <2>3 DEF Visit, Goto, InVisit, Busy, TypeInv, TypeOK
<1>9. CASE Send(w)
  <2>1. /\ events' = events /\ claimed'[w] = claimed[w] /\ ev'[w] = ev[w] /\ InDrain(w)
        /\ keys'[w] = keys[w] /\ dest'[w] = dest[w] /\ InVisit(w) /\ pc[w] = "send"
      BY <1>9 DEF Send, queueVars, InDrain, InVisit, Draining, Busy, TypeInv, TypeOK
  <2>2. \/ /\ pc'[w] \in {"progress", "finish"} /\ state'[w].chunk = state[w].chunk + 1
        \/ pc'[w] = "fail" /\ state'[w] = state[w]
      BY <1>9 DEF Send, Goto, TypeInv, TypeOK
  <2>. QED
      BY <1>1, <2>1, <2>2 DEF ExactFor, Holds, Pending, Stored, CanSave
<1>10. CASE Served(w)
  <2>1. /\ claimed'[w] = claimed[w] /\ ev'[w] = ev[w] /\ keys'[w] = keys[w]
        /\ InDrain(w) /\ ~InVisit(w)' /\ dest[w] \notin keys[w] /\ pc[w] = "finish"
      BY <1>1, <1>10 DEF Served, Goto, InDrain, InVisit, Draining, Busy, TypeInv, TypeOK,
         ShapeOf
  <2>2. ASSUME NEW e \in Events, Holds(w, e)'
        PROVE  /\ Holds(w, e) /\ Pending(e)' \subseteq Pending(e)
               /\ \A d \in Pending(e)' : Stored(e, d)' = Stored(e, d)
    <3>1. Holds(w, e)
      <4>1. CASE events' = events
          BY <2>2, <4>1 DEF Holds
      <4>2. CASE CanSave(w, ev[w].id, dest[w]) /\ SaveServed(ev[w].id, dest[w])
        <5>1. ev[w].id \in Events /\ dest[w] \in Pending(ev[w].id)
            BY <2>1, <4>2, MessageType DEF CanSave, InVisit, Busy
        <5>. QED
            BY <1>1, <2>2, <4>2, <5>1, SaveServedEffect DEF Holds, CanSave
      <4>. QED
          BY <1>10, <4>1, <4>2 DEF Served
    <3>. QED
        BY <2>1, <3>1, ActorStored DEF Writes
  <2>3. Pending(ev[w].id)' \subseteq Pending(ev[w].id) /\ ev[w].id \in Events
      BY <2>1, ActorStored, MessageType DEF InVisit, Busy
  <2>. QED
      BY <1>1, <1>2, <2>1, <2>2, <2>3 DEF ExactFor
<1>11. CASE Cancel(w) \/ IOError(w)
  <2>1. /\ events' = events /\ claimed'[w] = claimed[w] /\ ev'[w] = ev[w]
        /\ keys'[w] = keys[w] /\ dest'[w] = dest[w] /\ state'[w] = state[w]
        /\ \/ pc'[w] = pc[w]
           \/ ~InVisit(w)' /\ (InDrain(w)' => InDrain(w))
      BY <1>11 DEF Cancel, IOError, queueVars, drainVars, Goto, InVisit, InDrain, Draining,
         Busy, TypeInv, TypeOK
  <2>. QED
      BY <1>1, <2>1 DEF ExactFor, Holds, Pending, Stored, CanSave, InVisit, InDrain
<1>12. CASE SkipRelease(w)
  <2>1. /\ events' = events /\ claimed'[w] \subseteq claimed[w]
        /\ ~InDrain(w)' /\ ~InVisit(w)'
      BY <1>12 DEF SkipRelease, queueVars, InVisit, InDrain, Draining, Busy, TypeInv, TypeOK
  <2>. QED
      BY <1>1, <2>1 DEF ExactFor, Holds, Pending, Stored
<1>. QED
    BY <1>3, <1>4, <1>5, <1>6, <1>7, <1>8, <1>9, <1>10, <1>11, <1>12
       DEF Actor, DrainStep

LEMMA ExactOther ==
    ASSUME TypeInv, Exact, NEW u \in Workers, Still(u),
           \A e \in Events : Holds(u, e)' => /\ Holds(u, e)
                                             /\ Pending(e)' \subseteq Pending(e)
                                             /\ \A d \in Pending(e)' : Stored(e, d)' = Stored(e, d)
    PROVE  ExactFor(u)'
<1>1. ExactFor(u) /\ (InVisit(u) => InDrain(u)) /\ (InDrain(u) => ev[u].id \in Events)
    BY CopyType DEF Exact, InVisit, InDrain, Draining, TypeInv, ShapeOf
<1>2. \A c \in claimed[u] : c.id \in Events
    BY CopyType DEF TypeInv, TypeOK
<1>3. ASSUME NEW c \in claimed'[u], Holds(u, c.id)'
      PROVE  \A d \in Pending(c.id)' :
               d \in DOMAIN c.deliveries /\ Stored(c.id, d)' = c.deliveries[d].chunk
    BY <1>1, <1>2, <1>3 DEF ExactFor, Still
<1>4. ASSUME InDrain(u)', Holds(u, ev[u].id)'
      PROVE  \A d \in keys'[u] \cap Pending(ev[u].id)' :
               Stored(ev[u].id, d)' = ev'[u].deliveries[d].chunk
    BY <1>1, <1>4 DEF ExactFor, Still, InDrain
<1>. QED
    BY <1>1, <1>3, <1>4 DEF ExactFor, Still, InDrain, InVisit, CanSave

LEMMA ExactStep ==
    ASSUME TypeInv, Known, Exact, [Next]_vars
    PROVE  Exact'
<1>1. ASSUME NEW w \in Workers, Actor(w)
      PROVE  Exact'
  <2>1. ASSUME NEW u \in Workers \ {w}
        PROVE  ExactFor(u)'
    <3>1. Still(u)
        BY <1>1, OthersStill DEF TypeInv
    <3>2. \A e \in Events : Holds(u, e)' => events'[e] = events[e]
        BY <1>1, OwnedElsewhere
    <3>. QED
        BY <3>1, <3>2, ExactOther DEF Holds, Pending, Stored
  <2>. QED
      BY <1>1, <2>1, ExactActor DEF Exact
<1>2. ASSUME NEW e \in Events, Enqueue(e)
      PROVE  Exact'
  <2>1. /\ \A f \in Events \ {e} : events'[f] = events[f]
        /\ events'[e].owner = None
        /\ \A u \in Workers : Still(u)
      BY <1>2, EnqueueEffect DEF TypeInv
  <2>2. \A u \in Workers : u # None
      BY DispatchAssumption
  <2>. QED
      BY <2>1, <2>2, ExactOther DEF Exact, Holds, Pending, Stored
<1>3. ASSUME NEW e \in Events, Drop(e)
      PROVE  Exact'
  <2>1. /\ \A f \in Events : events'[f] \in {None, events[f]}
        /\ \A u \in Workers : Still(u)
      BY <1>3, DropEffect DEF TypeInv
  <2>. QED
      BY <2>1, ExactOther DEF Exact, Holds, Pending, Stored
<1>4. CASE EditProviders \/ UNCHANGED vars
  <2>1. events' = events /\ \A u \in Workers : Still(u)
      BY <1>4 DEF EditProviders, vars, queueVars, drainVars, Still
  <2>. QED
      BY <2>1, ExactOther DEF Exact, Holds, Pending, Stored
<1>5. CASE Tick
  <2>1. \A e \in Events :
          /\ (events'[e] = None) <=> (events[e] = None)
          /\ Pending(e)' = Pending(e)
          /\ \A d \in Pending(e) : Stored(e, d)' = Stored(e, d)
          /\ events[e] # None => events'[e].owner = events[e].owner
      BY <1>5, TickEffect DEF TypeInv, TypeOK, Typed
  <2>2. ASSUME NEW w \in Workers
        PROVE  ExactFor(w)'
    <3>1. /\ pc'[w] = pc[w] /\ keys'[w] = keys[w] /\ dest'[w] = dest[w] /\ state'[w] = state[w]
          /\ \A b \in claimed'[w] : \E c \in claimed[w] : b = Older(c) /\ TickCopy(b, c)
          /\ InDrain(w) => TickCopy(ev'[w], ev[w])
        BY <1>5, TickHands, CopyType DEF TypeInv, ShapeOf
    <3>2. ExactFor(w) /\ ShapeOf(w) /\ (InVisit(w) => InDrain(w))
          /\ (InDrain(w) => ev[w].id \in Events)
          /\ \A c \in claimed[w] : c.id \in Events
        BY CopyType DEF Exact, TypeInv, TypeOK, ShapeOf, InVisit, InDrain, Draining
    <3>3. ASSUME NEW b \in claimed'[w], Holds(w, b.id)'
          PROVE  \A d \in Pending(b.id)' :
                   d \in DOMAIN b.deliveries /\ Stored(b.id, d)' = b.deliveries[d].chunk
      <4>1. PICK c \in claimed[w] : TickCopy(b, c)
          BY <3>1, <3>3
      <4>2. Holds(w, c.id) /\ c.id \in Events
          BY <2>1, <3>2, <3>3, <4>1 DEF Holds, TickCopy
      <4>. QED
          BY <2>1, <3>2, <4>1, <4>2 DEF ExactFor, TickCopy
    <3>4. ASSUME InDrain(w)', Holds(w, ev[w].id)'
          PROVE  \A d \in keys'[w] \cap Pending(ev[w].id)' :
                   Stored(ev[w].id, d)' = ev'[w].deliveries[d].chunk
      <4>1. InDrain(w) /\ Holds(w, ev[w].id) /\ keys[w] \subseteq DOMAIN ev[w].deliveries
          BY <2>1, <3>1, <3>2, <3>4 DEF InDrain, Holds, ShapeOf, TickCopy
      <4>. QED
          BY <2>1, <3>1, <3>2, <4>1 DEF ExactFor, TickCopy
    <3>5. ASSUME InVisit(w)', CanSave(w, ev[w].id, dest[w])'
          PROVE  /\ pc'[w] \in {"save", "send", "fail"} =>
                      state'[w].chunk = Stored(ev[w].id, dest[w])'
                 /\ pc'[w] = "progress" =>
                      state'[w].chunk = Stored(ev[w].id, dest[w])' + 1
      <4>. QED
          BY <2>1, <3>1, <3>2, <3>5 DEF ExactFor, TickCopy, InVisit, CanSave, Holds
    <3>. QED
        BY <3>1, <3>2, <3>3, <3>4, <3>5 DEF ExactFor, InDrain, InVisit, TickCopy
  <2>. QED
      BY <2>2 DEF Exact
<1>. QED
    BY <1>1, <1>2, <1>3, <1>4, <1>5, NextCases

Copies == TypeInv /\ Known /\ Exact

LEMMA CopiesHold == Spec => []Copies
<1>1. Init => Copies
  <2>. SUFFICES ASSUME Init
                PROVE  Copies
      OBVIOUS
  <2>1. /\ \A e \in Events : Pending(e) = {}
        /\ \A w \in Workers : claimed[w] = {} /\ ~InDrain(w) /\ ~InVisit(w)
      BY DEF Init, Pending, InDrain, InVisit, Draining, Busy
  <2>. QED
      BY <2>1, InitType DEF Copies, Known, KnownFor, Exact, ExactFor
<1>2. Copies /\ [Next]_vars => Copies'
    BY NextCases, ActorType, TickType, OtherType, KnownStep, ExactStep DEF Copies
<1>. QED
    BY <1>1, <1>2, PTL DEF Spec

(* What left the queue does not come back.                                  *)
LEMMA PendingShrinks ==
    ASSUME TypeInv, [Next]_vars, NEW e \in enqueued
    PROVE  Pending(e)' \subseteq Pending(e) /\ e \in enqueued'
<1>1. e \in Events /\ Typed
    BY DEF TypeInv, TypeOK, Typed
<1>2. CASE \E w \in Workers : Actor(w)
    BY <1>1, <1>2, ActorStored, ActorQueue
<1>3. CASE \E f \in Events : Enqueue(f) \/ Drop(f)
  <2>1. events'[e] \in {None, events[e]} /\ e \in enqueued'
      BY <1>1, <1>3, EnqueueEffect, DropEffect DEF TypeInv, Drop
  <2>. QED
      BY <2>1 DEF Pending
<1>4. CASE EditProviders \/ UNCHANGED vars
    BY <1>4 DEF EditProviders, vars, queueVars, Pending
<1>5. CASE Tick
    BY <1>1, <1>5, TickEffect DEF Tick
<1>. QED
    BY <1>2, <1>3, <1>4, <1>5, NextCases

(* A state that is stored counts as many messages or more at the next step. *)
LEMMA StoredGrows ==
    ASSUME Copies, [Next]_vars, NEW e \in enqueued, NEW d \in Pending(e)'
    PROVE  d \in Pending(e) /\ Stored(e, d)' >= Stored(e, d)
<1>1. e \in Events /\ Typed
    BY DEF Copies, TypeInv, TypeOK, Typed
<1>2. d \in Pending(e) /\ Stored(e, d) \in Nat
    BY <1>1, PendingShrinks, PendingType DEF Copies
<1>3. CASE \E w \in Workers : Actor(w)
  <2>1. PICK w \in Workers : Actor(w)
      BY <1>3
  <2>2. CASE Writes(w, e, d) /\ Stored(e, d)' = state[w].chunk
    <3>1. InVisit(w) /\ ExactFor(w)
        BY <2>2 DEF Writes, InVisit, Busy, Copies, Exact
    <3>. QED
        BY <1>2, <2>2, <3>1 DEF ExactFor, Writes
  <2>. QED
      BY <1>1, <1>2, <2>1, <2>2, ActorStored DEF Copies
<1>4. CASE \E f \in Events : Enqueue(f) \/ Drop(f)
  <2>1. events'[e] \in {None, events[e]}
      BY <1>1, <1>4, EnqueueEffect, DropEffect DEF Copies, TypeInv
  <2>. QED
      BY <1>2, <2>1 DEF Pending, Stored
<1>5. CASE EditProviders \/ UNCHANGED vars
    BY <1>2, <1>5 DEF EditProviders, vars, queueVars, Pending, Stored
<1>6. CASE Tick
    BY <1>1, <1>2, <1>6, TickEffect
<1>. QED
    BY <1>3, <1>4, <1>5, <1>6, NextCases

(* What left the queue stays out, and the stored state of a delivery only   *)
(* grows: a process that works from an old copy cannot write it, because    *)
(* it is no longer the owner.                                               *)
THEOREM OldCopiesRefused == Spec => ProgressKept
<1>1. ASSUME Copies, [Next]_vars
      PROVE  \A e \in enqueued :
               /\ Pending(e)' \subseteq Pending(e)
               /\ \A d \in Pending(e)' :
                    events'[e].deliveries[d].chunk >= events[e].deliveries[d].chunk
  <2>. TAKE e \in enqueued
  <2>. QED
      BY <1>1, PendingShrinks, StoredGrows DEF Copies, Stored
<1>. QED
    BY <1>1, CopiesHold, PTL DEF Spec, ProgressKept

--------------------------------------------------------------------------------
(* Leases *)

(* A worker in the middle of a send has the event to itself, or the event   *)
(* is gone with its target.                                                 *)
Guarded(w) == events[ev[w].id] = None \/ Live(w, ev[w].id)

Exclusive ==
    faults = 0 =>
        /\ \A w \in Workers : pc[w] = "send" => Guarded(w)
        /\ \A v, w \in Workers :
             v # w /\ pc[v] = "send" /\ pc[w] = "send" => ev[v].id # ev[w].id

(* The steps in which nothing happens to what the worker has in hand.       *)
Elsewhere(u) ==
    \/ \E w \in Workers \ {u} : Actor(w)
    \/ \E e \in Events : Enqueue(e) \/ Drop(e)
    \/ EditProviders \/ UNCHANGED vars
    \/ Tick /\ Sending(u) /\ u \notin Overrun

LEMMA StepCases ==
    ASSUME [Next]_vars, NEW u \in Workers
    PROVE  \/ Actor(u)
           \/ Elsewhere(u)
           \/ Tick /\ (Sending(u) => u \in Overrun)
BY NextCases DEF Elsewhere

LEMMA GuardKept ==
    ASSUME Copies, NEW u \in Workers, Elsewhere(u), InDrain(u)
    PROVE  /\ ev'[u].id = ev[u].id
           /\ pc'[u] = pc[u] /\ dest'[u] = dest[u] /\ state'[u] = state[u]
           /\ Guarded(u) => Guarded(u)'
<1>1. PICK e : e = ev[u].id
    OBVIOUS
<1>2. e \in Events /\ e \in enqueued /\ ev[u] # None /\ IsCopy(ev[u]) /\ Typed
    BY <1>1, CopyType DEF Copies, Known, KnownFor, TypeInv, ShapeOf, TypeOK, Typed
<1>3. SUFFICES /\ ev'[u].id = e
               /\ pc'[u] = pc[u] /\ dest'[u] = dest[u] /\ state'[u] = state[u]
               /\ events[e] = None \/ Live(u, e) => events'[e] = None \/ Live(u, e)'
    BY <1>1 DEF Guarded, Live, Holds
<1>4. CASE \E w \in Workers \ {u} : Actor(w)
    BY <1>1, <1>2, <1>4, OthersStill, OwnedElsewhere DEF Copies, TypeInv, Still
<1>5. CASE \E f \in Events : Enqueue(f) \/ Drop(f)
  <2>1. events'[e] \in {None, events[e]} /\ Still(u)
      BY <1>2, <1>5, EnqueueEffect, DropEffect DEF Copies, TypeInv
  <2>. QED
      BY <1>1, <2>1 DEF Still, Live, Holds
<1>6. CASE EditProviders \/ UNCHANGED vars
    BY <1>1, <1>6 DEF EditProviders, vars, queueVars, drainVars, Live, Holds
<1>7. CASE Tick /\ Sending(u) /\ u \notin Overrun
  <2>1. TickCopy(ev'[u], ev[u])
      BY <1>2, <1>7, TickHands DEF Copies, TypeInv
  <2>2. Live(u, e) => events[e].lease # 1
      BY <1>1, <1>2, <1>7 DEF Overrun, Live, InHand
  <2>3. events[e] # None => events[e].lease \in Nat
      BY <1>2, DispatchAssumption, RecordType DEF Typed
  <2>4. Live(u, e) => Less(events[e].lease) > 0
      BY <2>2, <2>3 DEF Less, Live, Holds
  <2>. QED
      BY <1>1, <1>2, <1>7, <2>1, <2>4, TickEffect, TickHands
         DEF Live, Holds, TickCopy, Copies, TypeInv
<1>. QED
    BY <1>4, <1>5, <1>6, <1>7 DEF Elsewhere

(* Every fault is counted: by the worker that meets it, or by the tick that *)
(* takes the lease of a worker.                                             *)
LEMMA FaultsCounted ==
    ASSUME TypeInv, [Next]_vars
    PROVE  /\ faults' \in Nat /\ faults' >= faults
           /\ faults' = 0 /\ Tick => Overrun = {}
           /\ \A w \in Workers : Crash(w) \/ IOError(w) \/ SkipRelease(w) \/ Cancel(w) =>
                  faults' = faults + 1
<1>1. faults \in Nat
    BY DEF TypeInv, TypeOK
<1>2. CASE Tick
  <2>1. IsFiniteSet(Overrun)
      BY DispatchAssumption, FS_Subset DEF Overrun
  <2>2. Cardinality(Overrun) \in Nat /\ (Cardinality(Overrun) = 0 <=> Overrun = {})
      BY <2>1, FS_CardinalityType, FS_EmptySet
  <2>3. faults' = faults + Cardinality(Overrun)
      BY <1>2 DEF Tick
  <2>4. \A w \in Workers : Crash(w) \/ IOError(w) \/ SkipRelease(w) \/ Cancel(w) =>
            faults' = faults + 1
      BY DEF Crash, IOError, SkipRelease, Cancel, Fault
  <2>. QED
      BY <1>1, <2>2, <2>3, <2>4
<1>3. CASE \E w \in Workers : Actor(w)
  <2>1. faults' = faults \/ faults' = faults + 1
      BY <1>3 DEF Actor, DrainStep, Claim, Loop, Visit, Save, Progress, Fail, SaveThen,
         Send, Served, Release, ReleaseRest, Exit, Crash, Cancel, IOError, SkipRelease, Fault,
         ghostVars
  <2>2. \A w \in Workers : Crash(w) \/ IOError(w) \/ SkipRelease(w) \/ Cancel(w) =>
            faults' = faults + 1
      BY DEF Crash, IOError, SkipRelease, Cancel, Fault
  <2>3. Tick => faults' = faults + Cardinality(Overrun)
      BY DEF Tick
  <2>. QED
      BY <1>1, <1>2, <2>1, <2>2
<1>4. CASE (\E e \in Events : Enqueue(e) \/ Drop(e)) \/ EditProviders \/ UNCHANGED vars
  <2>1. faults' = faults
      BY <1>4 DEF Enqueue, Drop, EditProviders, vars, ghostVars
  <2>2. \A w \in Workers : Crash(w) \/ IOError(w) \/ SkipRelease(w) \/ Cancel(w) =>
            faults' = faults + 1
      BY DEF Crash, IOError, SkipRelease, Cancel, Fault
  <2>. QED
      BY <1>1, <1>2, <2>1, <2>2
<1>. QED
    BY <1>2, <1>3, <1>4, NextCases

(* A worker comes to send only by a save, which renews its lease.           *)
LEMMA ComesToSend ==
    ASSUME Copies, NEW w \in Workers, Actor(w), pc'[w] = "send"
    PROVE  \/ /\ Cancel(w) /\ pc[w] = "send" /\ ev'[w] = ev[w]
              /\ dest'[w] = dest[w] /\ state'[w] = state[w] /\ events' = events
           \/ /\ Save(w) /\ CanSave(w, ev[w].id, dest[w])
              /\ ev'[w] = ev[w] /\ dest'[w] = dest[w] /\ state'[w] = state[w]
              /\ Live(w, ev[w].id)' /\ Holds(w, ev[w].id)
<1>1. CASE Save(w)
  <2>1. PICK e, d : e = ev[w].id /\ d = dest[w]
      OBVIOUS
  <2>2. /\ CanSave(w, e, d) /\ SaveState(e, d, state[w])
        /\ ev'[w] = ev[w] /\ dest'[w] = dest[w] /\ state'[w] = state[w]
      BY <1>1, <2>1 DEF Save, SaveThen, Goto, Copies, TypeInv, TypeOK
  <2>3. e \in Events /\ d \in Pending(e) /\ state[w] \in Delivery /\ Typed
      BY <1>1, <2>1, <2>2, MessageType
         DEF Save, InVisit, Busy, CanSave, Copies, TypeInv, TypeOK, Typed
  <2>4. Live(w, e)' /\ Holds(w, e)
      BY <2>2, <2>3, SaveStateEffect, DispatchAssumption DEF CanSave, Live, Holds
  <2>. QED
      BY <1>1, <2>1, <2>2, <2>4 DEF Live, Holds
<1>2. CASE Progress(w) \/ Fail(w) \/ Claim(w) \/ Loop(w) \/ ReleaseRest(w)
    BY <1>2 DEF Progress, Fail, SaveThen, Claim, Loop, ReleaseRest, Goto,
       Copies, TypeInv, TypeOK
<1>3. CASE Visit(w) \/ Send(w) \/ Served(w) \/ Release(w)
    BY <1>3 DEF Visit, Send, Served, Release, Goto, Copies, TypeInv, TypeOK
<1>4. CASE Exit(w) \/ Crash(w) \/ IOError(w) \/ SkipRelease(w)
    BY <1>4 DEF Exit, Crash, Fresh, IOError, SkipRelease, Goto, Copies, TypeInv, TypeOK
<1>5. CASE Cancel(w)
    BY <1>5 DEF Cancel, queueVars, drainVars
<1>. QED
    BY <1>1, <1>2, <1>3, <1>4, <1>5 DEF Actor, DrainStep

LEMMA SendInDrain ==
    ASSUME NEW w, Sending(w)
    PROVE  InDrain(w) /\ InVisit(w)
BY DEF Sending, InDrain, InVisit, Draining, Busy

LEMMA ExclusiveStep ==
    ASSUME Copies, Exclusive, [Next]_vars
    PROVE  Exclusive'
<1>. SUFFICES ASSUME faults' = 0
              PROVE  /\ \A w \in Workers : pc'[w] = "send" => Guarded(w)'
                     /\ \A v, w \in Workers :
                          v # w /\ pc'[v] = "send" /\ pc'[w] = "send" => ev'[v].id # ev'[w].id
    BY DEF Exclusive
<1>1. faults = 0
    BY FaultsCounted DEF Copies, TypeInv, TypeOK
<1>2. /\ \A w \in Workers : pc[w] = "send" => Guarded(w)
      /\ \A v, w \in Workers :
           v # w /\ pc[v] = "send" /\ pc[w] = "send" => ev[v].id # ev[w].id
    BY <1>1 DEF Exclusive
<1>3. \A w \in Workers : ~Crash(w) /\ ~IOError(w) /\ ~SkipRelease(w) /\ ~Cancel(w)
    BY <1>1, FaultsCounted DEF Copies
<1>4. ASSUME NEW u \in Workers, ~Actor(u), pc'[u] = "send"
      PROVE  Elsewhere(u) /\ pc[u] = "send" /\ ev'[u].id = ev[u].id /\ Guarded(u)'
  <2>1. pc[u] = "send"
    <3>1. CASE Tick
        BY <1>4, <3>1, TickHands DEF Copies, TypeInv
    <3>2. CASE Elsewhere(u)
      <4>1. Still(u) \/ UNCHANGED vars \/ Tick
          BY <3>2, OthersStill, EnqueueEffect, DropEffect
             DEF Elsewhere, EditProviders, drainVars, Still, Copies, TypeInv
      <4>. QED
          BY <1>4, <3>1, <4>1 DEF Still, vars, drainVars
    <3>. QED
        BY <1>4, <3>1, <3>2, StepCases
  <2>2. Sending(u) /\ InDrain(u)
      BY <2>1, SendInDrain DEF Sending
  <2>3. Elsewhere(u)
      BY <1>4, <2>2, StepCases, FaultsCounted DEF Copies
  <2>. QED
      BY <1>2, <2>1, <2>2, <2>3, GuardKept
<1>5. ASSUME NEW w \in Workers, Actor(w), pc'[w] = "send"
      PROVE  /\ Guarded(w)' /\ Holds(w, ev[w].id) /\ ev'[w].id = ev[w].id
    BY <1>3, <1>5, ComesToSend DEF Guarded
<1>6. ASSUME NEW v \in Workers, NEW w \in Workers, v # w, pc'[v] = "send", pc'[w] = "send",
             Actor(w)
      PROVE  ev'[v].id # ev'[w].id
  <2>1. /\ pc[v] = "send" /\ ev'[v] = ev[v]
      BY <1>6, OthersStill DEF Copies, TypeInv, Still
  <2>2. Guarded(v) /\ Holds(w, ev[w].id) /\ ev'[w].id = ev[w].id
      BY <1>2, <1>5, <1>6, <2>1
  <2>. QED
      BY <1>6, <2>1, <2>2 DEF Guarded, Live, Holds
<1>7. \A v, w \in Workers :
        v # w /\ pc'[v] = "send" /\ pc'[w] = "send" => ev'[v].id # ev'[w].id
    BY <1>2, <1>4, <1>6
<1>. QED
    BY <1>4, <1>5, <1>7

(* Without a fault, one message of an event is under way at most: a worker  *)
(* comes to send by a save that proves it the owner and gives it a whole    *)
(* lease, and only an expired lease makes an event anybody else's.          *)
THEOREM OneSenderWithoutFault == Spec => []OneSender
<1>1. Init => Exclusive
    BY DEF Init, Exclusive
<1>2. Copies /\ Exclusive /\ [Next]_vars => Exclusive'
    BY ExclusiveStep
<1>3. Exclusive => OneSender
    BY DEF Exclusive, OneSender
<1>. QED
    BY <1>1, <1>2, <1>3, CopiesHold, PTL DEF Spec

--------------------------------------------------------------------------------
(* Order *)

(* Each event is for one destination.                                       *)
OneAddress == \A e \in Events : \E d \in Destinations : AddressedTo[e] = {d}

(* No older event of its target waits for a destination of the copy.        *)
OldestFor(c) ==
    \A d \in DOMAIN c.deliveries : \A f \in Events :
        f < c.id /\ TargetOf[f] = TargetOf[c.id] => d \notin Pending(f)

(* The events of one target are queued in their order, and what is in hand  *)
(* is the oldest for its destination.                                       *)
Oldest ==
    /\ \A e \in enqueued : \A f \in Events :
         f < e /\ TargetOf[f] = TargetOf[e] => f \in enqueued
    /\ \A w \in Workers :
         /\ \A c \in claimed[w] : OldestFor(c)
         /\ InDrain(w) => OldestFor(ev[w])

LEMMA OldestStep ==
    ASSUME OneAddress, Copies, Oldest, [Next]_vars
    PROVE  Oldest'
<1>. Typed /\ TypeInv
    BY DEF Copies, TypeInv, TypeOK, Typed
<1>1. \A e \in enqueued' : \A f \in Events :
        f < e /\ TargetOf[f] = TargetOf[e] => f \in enqueued'
  <2>1. \/ enqueued' = enqueued
        \/ \E e \in Events : Enqueue(e)
      BY NextCases, ActorQueue DEF Drop, EditProviders, vars, queueVars, Tick
  <2>. QED
      BY <2>1 DEF Oldest, Enqueue
<1>2. ASSUME NEW c, NEW b, c.id \in enqueued, OldestFor(c), b.id = c.id,
             DOMAIN b.deliveries = DOMAIN c.deliveries
      PROVE  OldestFor(b)'
  <2>1. \A f \in Events : f < c.id /\ TargetOf[f] = TargetOf[c.id] =>
                            Pending(f)' \subseteq Pending(f)
      BY <1>2, PendingShrinks DEF Oldest
  <2>. QED
      BY <1>2, <2>1 DEF OldestFor
<1>3. ASSUME NEW w \in Workers
      PROVE  /\ \A c \in claimed[w] : c.id \in enqueued /\ OldestFor(c)
             /\ InDrain(w) => ev[w].id \in enqueued /\ OldestFor(ev[w])
    BY DEF Copies, Known, KnownFor, Oldest
<1>4. ASSUME NEW w \in Workers, claimed'[w] \subseteq claimed[w],
             InDrain(w)' => (InDrain(w) /\ ev'[w] = ev[w]) \/ ev'[w] \in claimed[w]
      PROVE  /\ \A c \in claimed'[w] : OldestFor(c)'
             /\ InDrain(w)' => OldestFor(ev[w])'
  <2>1. \A c \in claimed'[w] : OldestFor(c)'
      BY <1>2, <1>3, <1>4
  <2>2. ASSUME InDrain(w)'
        PROVE  OldestFor(ev[w])'
    <3>1. PICK c : c = ev'[w]
        OBVIOUS
    <3>2. c.id \in enqueued /\ OldestFor(c)
        BY <1>3, <1>4, <2>2, <3>1
    <3>3. OldestFor(c)'
        BY <1>2, <3>2
    <3>. QED
        BY <3>1, <3>3 DEF OldestFor
  <2>. QED
      BY <2>1, <2>2
<1>5. ASSUME NEW w \in Workers, Still(w) \/ UNCHANGED vars
      PROVE  /\ \A c \in claimed'[w] : OldestFor(c)'
             /\ InDrain(w)' => OldestFor(ev[w])'
    BY <1>4, <1>5 DEF Still, vars, drainVars, InDrain
<1>6. ASSUME NEW w \in Workers, Claim(w)
      PROVE  /\ \A c \in claimed'[w] : OldestFor(c)'
             /\ ~InDrain(w)'
  <2>1. PICK picked \in SUBSET {e \in Events : Claimable(e)} :
          /\ \A e \in Events : SameDeliveries(e)
          /\ claimed' = [claimed EXCEPT ![w] =
              {[id |-> e, deliveries |-> events[e].deliveries] : e \in picked}]
      BY <1>6, ClaimEffect
  <2>2. claimed'[w] = {[id |-> e, deliveries |-> events[e].deliveries] : e \in picked}
      BY <2>1 DEF TypeInv, TypeOK
  <2>3. ASSUME NEW e \in picked, NEW d \in DOMAIN events[e].deliveries, NEW f \in Events,
               f < e
        PROVE  d \notin Pending(f)'
    <3>1. e \in Events /\ Claimable(e) /\ Pending(e) = DOMAIN events[e].deliveries
        BY DEF Claimable, Pending
    <3>2. PICK x \in Pending(e) : Earliest(e, x)
        BY <3>1 DEF Claimable
    <3>3. Pending(e) \subseteq AddressedTo[e] /\ \E y : AddressedTo[e] = {y}
        BY <3>1 DEF Copies, Known, OneAddress
    <3>4. x = d
        BY <3>1, <3>2, <3>3
    <3>5. Pending(f)' = Pending(f)
        BY <2>1, SamePending
    <3>. QED
        BY <2>3, <3>2, <3>4, <3>5 DEF Earliest
  <2>4. ASSUME NEW c \in claimed'[w]
        PROVE  OldestFor(c)'
    <3>1. PICK e \in picked : c = [id |-> e, deliveries |-> events[e].deliveries]
        BY <2>2, <2>4
    <3>. QED
        BY <2>3, <3>1 DEF OldestFor
  <2>5. ~InDrain(w)'
      BY <1>6 DEF Claim, Goto, InDrain, Draining, Busy, TypeInv, TypeOK
  <2>. QED
      BY <2>4, <2>5
<1>7. ASSUME NEW w \in Workers, Actor(w)
      PROVE  /\ \A c \in claimed'[w] : OldestFor(c)'
             /\ InDrain(w)' => OldestFor(ev[w])'
  <2>1. CASE Claim(w)
      BY <1>6, <2>1
  <2>2. CASE SameHands(w)
      BY <1>4, <2>2 DEF SameHands
  <2>3. CASE Loop(w)
    <3>1. CASE ~InDrain(w)' /\ claimed'[w] = claimed[w]
        BY <1>4, <3>1
    <3>2. CASE \E c \in claimed[w] : claimed'[w] = claimed[w] \ {c} /\ ev'[w] = c
        BY <1>4, <3>2
    <3>. QED
        BY <2>3, <3>1, <3>2 DEF Loop, Goto, InDrain, Draining, Busy, TypeInv, TypeOK
  <2>5. CASE ReleaseRest(w) \/ SkipRelease(w)
      BY <1>4, <2>5 DEF ReleaseRest, SkipRelease, Goto, InDrain, Draining, Busy, TypeInv, TypeOK
  <2>4. CASE Exit(w) \/ Crash(w)
      BY <1>4, <2>4 DEF Exit, Crash, Fresh, InDrain, Draining, Busy, TypeInv, TypeOK
  <2>. QED
      BY <1>7, <2>1, <2>2, <2>3, <2>4, <2>5, HandSteps
<1>8. ASSUME NEW w \in Workers, Tick
      PROVE  /\ \A c \in claimed'[w] : OldestFor(c)'
             /\ InDrain(w)' => OldestFor(ev[w])'
  <2>1. /\ \A b \in claimed'[w] : \E c \in claimed[w] : TickCopy(b, c)
        /\ InDrain(w) => TickCopy(ev'[w], ev[w])
        /\ InDrain(w)' => InDrain(w)
      BY <1>8, TickHands, CopyType DEF TypeInv, ShapeOf, InDrain
  <2>2. \A b \in claimed'[w] : OldestFor(b)'
      BY <1>2, <1>3, <2>1 DEF TickCopy
  <2>3. ASSUME InDrain(w)'
        PROVE  OldestFor(ev[w])'
    <3>1. PICK b, c : b = ev'[w] /\ c = ev[w]
        OBVIOUS
    <3>2. TickCopy(b, c) /\ c.id \in enqueued /\ OldestFor(c)
        BY <1>3, <2>1, <2>3, <3>1
    <3>3. OldestFor(b)'
        BY <1>2, <3>2 DEF TickCopy
    <3>. QED
        BY <3>1, <3>3 DEF OldestFor
  <2>. QED
      BY <2>2, <2>3
<1>9. \A w \in Workers : Still(w) \/ UNCHANGED vars \/ Actor(w) \/ Tick
    BY NextCases, OthersStill, EnqueueEffect, DropEffect
       DEF EditProviders, drainVars, Still, TypeInv
<1>. QED
    BY <1>1, <1>5, <1>7, <1>8, <1>9 DEF Oldest

(* When each event is for one destination, the events of a target reach it  *)
(* in their order: a claim takes only the oldest one queued for the         *)
(* destination, older ones are queued before newer ones, and none returns.  *)
THEOREM NewerWaitsForOlder ==
    ASSUME OneAddress
    PROVE  Spec => []NewerWaits
<1>1. Init => Oldest
    BY DEF Init, Oldest, InDrain, Draining, Busy
<1>2. Copies /\ Oldest /\ [Next]_vars => Oldest'
    BY OldestStep
<1>3. Copies /\ Oldest => NewerWaits
  <2>. SUFFICES ASSUME Copies, Oldest, NEW w \in Workers, pc[w] = "send",
                       NEW f \in Events, f < ev[w].id, TargetOf[f] = TargetOf[ev[w].id]
                PROVE  dest[w] \notin Pending(f)
      BY DEF NewerWaits
  <2>1. InDrain(w) /\ InVisit(w)
      BY SendInDrain DEF Sending
  <2>. QED
      BY <2>1 DEF Oldest, OldestFor, Copies, TypeInv, ShapeOf
<1>. QED
    BY <1>1, <1>2, <1>3, CopiesHold, PTL DEF Spec

--------------------------------------------------------------------------------
(* Receipts *)

(* Destinations may come and go in the providers file, but one that takes   *)
(* attachments in one version of it takes them in every other.              *)
Steady ==
    \A f, g \in ProviderFiles : \A d \in Destinations :
        f[d] = "attach" => g[d] # "text"

Reported(e, d) == e \in WithReport /\ \E f \in ProviderFiles : f[d] = "attach"

(* The messages of an event for a destination, numbered like its chunks.    *)
Size(e, d) == IF Reported(e, d) THEN 1 ELSE TextChunks[e]
Part(e, d, k) == IF Reported(e, d) THEN Whole ELSE k + 1
Has(e, d, k) == Part(e, d, k) \in got[e][d]

(* The destination received exactly the first k messages.                   *)
Arrived(e, d, k) ==
    got[e][d] = IF Reported(e, d) THEN (IF k = 0 THEN {} ELSE {Whole}) ELSE 1..k

(* It received the first k messages, and there are more.                    *)
Reached(e, d, k) == k < Size(e, d) /\ \A i \in Nat : i < k => Has(e, d, i)

All(e, d) == \A i \in Nat : i < Size(e, d) => Has(e, d, i)

HandsReached(w) ==
    /\ \A c \in claimed[w] : \A d \in DOMAIN c.deliveries :
         Reached(c.id, d, c.deliveries[d].chunk)
    /\ InDrain(w) => \A d \in keys[w] : Reached(ev[w].id, d, ev[w].deliveries[d].chunk)

VisitReached(w) ==
    InVisit(w) =>
        /\ pc[w] = "finish" => All(ev[w].id, dest[w])
        /\ pc[w] # "finish" => Reached(ev[w].id, dest[w], state[w].chunk)
        /\ pc[w] # "fail" => config[w][dest[w]] # "absent"

(* What is stored, copied or in hand counts messages that were received, in *)
(* their order.                                                             *)
Receipts ==
    /\ \A e \in Events : \A d \in Destinations :
         /\ \E k \in 0..Size(e, d) : Arrived(e, d, k)
         /\ e \notin enqueued => got[e][d] = {}
    /\ \A e \in Events : \A d \in Pending(e) : Reached(e, d, Stored(e, d))
    /\ \A w \in Workers : HandsReached(w) /\ VisitReached(w)

LEMMA SizeType ==
    ASSUME NEW e \in Events, NEW d
    PROVE  Size(e, d) \in Nat /\ Size(e, d) > 0
BY DispatchAssumption DEF Size

(* After k messages in order, the i-th one was received if i is below k.    *)
LEMMA HasUpTo ==
    ASSUME NEW e \in Events, NEW d \in Destinations, NEW k \in 0..Size(e, d),
           Arrived(e, d, k), NEW i \in Nat, i < Size(e, d)
    PROVE  Has(e, d, i) <=> i < k
<1>1. Size(e, d) \in Nat
    BY SizeType
<1>2. CASE Reported(e, d)
    BY <1>1, <1>2 DEF Has, Arrived, Part, Size
<1>3. CASE ~Reported(e, d)
    BY <1>1, <1>3 DEF Has, Arrived, Part, Size
<1>. QED
    BY <1>2, <1>3

(* A message that is the next one, or one of those before, keeps the order. *)
LEMMA OrderKept ==
    ASSUME NEW e \in Events, NEW d \in Destinations, NEW k \in 0..Size(e, d),
           Arrived(e, d, k), NEW i \in Nat, i < Size(e, d), i <= k,
           got'[e][d] = got[e][d] \cup {Part(e, d, i)}
    PROVE  \E n \in 0..Size(e, d) : Arrived(e, d, n)'
<1>1. Size(e, d) \in Nat
    BY SizeType
<1>2. CASE Reported(e, d)
  <2>1. Arrived(e, d, 1)' /\ 1 \in 0..Size(e, d)
      BY <1>1, <1>2 DEF Arrived, Part, Size
  <2>. QED
      BY <2>1
<1>3. CASE ~Reported(e, d) /\ i < k
  <2>1. Arrived(e, d, k)'
      BY <1>1, <1>3 DEF Arrived, Part, Size
  <2>. QED
      BY <2>1
<1>4. CASE ~Reported(e, d) /\ i = k
  <2>1. Arrived(e, d, k + 1)' /\ k + 1 \in 0..Size(e, d)
      BY <1>1, <1>4 DEF Arrived, Part, Size
  <2>. QED
      BY <2>1
<1>. QED
    BY <1>1, <1>2, <1>3, <1>4

(* While the providers file is steady, every process that serves a          *)
(* destination splits an event for it the same way.                         *)
LEMMA SamePlan ==
    ASSUME Steady, TypeInv, NEW w \in Workers, NEW e \in Events, NEW d \in Destinations,
           config[w][d] # "absent"
    PROVE  AsReport(w, e, d) <=> Reported(e, d)
<1>1. config[w] \in ProviderFiles
    BY DEF TypeInv, TypeOK
<1>2. config[w][d] \in Modes
    BY <1>1, DispatchAssumption
<1>. QED
    BY <1>1, <1>2 DEF AsReport, Reported, Steady, Modes

(* What was received stays received.                                        *)
LEMMA GotGrows ==
    ASSUME TypeInv, [Next]_vars
    PROVE  /\ \A e \in Events : \A d \in Destinations : got[e][d] \subseteq got'[e][d]
           /\ (\A w \in Workers : ~Send(w)) => got' = got
<1>1. ASSUME NEW w \in Workers, Send(w)
      PROVE  \A e \in Events : \A d \in Destinations : got[e][d] \subseteq got'[e][d]
  <2>1. ev[w].id \in Events /\ dest[w] \in Destinations
      BY <1>1, MessageType DEF Send, InVisit, Busy
  <2>2. Receive(w) \/ got' = got
      BY <1>1 DEF Send
  <2>. QED
      BY <2>1, <2>2 DEF Receive, TypeInv, TypeOK
<1>2. ASSUME \A w \in Workers : ~Send(w)
      PROVE  got' = got
  <2>1. CASE \E w \in Workers : Actor(w)
      BY <1>2, <2>1 DEF Actor, DrainStep, Claim, Loop, Visit, Save, Progress, Fail, SaveThen,
         Served, Release, ReleaseRest, Exit, Crash, Fresh, Cancel, IOError,
         SkipRelease, ghostVars
  <2>. QED
      BY <2>1, NextCases DEF Enqueue, Drop, EditProviders, Tick, vars, ghostVars
<1>. QED
    BY <1>1, <1>2

LEMMA ReachedKept ==
    ASSUME TypeInv, [Next]_vars, NEW e \in Events, NEW d \in Destinations
    PROVE  /\ \A k : Reached(e, d, k) => Reached(e, d, k)'
           /\ All(e, d) => All(e, d)'
BY GotGrows DEF Reached, All, Has

LEMMA CopiesInRange ==
    ASSUME Copies, NEW w \in Workers
    PROVE  /\ \A c \in claimed[w] : c.id \in Events /\ DOMAIN c.deliveries \subseteq Destinations
           /\ InDrain(w) => /\ ev[w].id \in Events /\ ev[w] # None
                            /\ keys[w] \subseteq DOMAIN ev[w].deliveries
                            /\ DOMAIN ev[w].deliveries \subseteq Destinations
           /\ InVisit(w) => InDrain(w) /\ dest[w] \in Destinations
BY CopyType DEF Copies, TypeInv, TypeOK, ShapeOf, Groups, InVisit, InDrain, Draining

(* Copies that were in hand before, or were claimed, count messages that    *)
(* were received.                                                           *)
LEMMA HandsKept ==
    ASSUME Copies, Receipts, [Next]_vars, NEW u \in Workers, claimed'[u] \subseteq claimed[u],
           InDrain(u)' => \/ InDrain(u) /\ ev'[u] = ev[u] /\ keys'[u] \subseteq keys[u]
                          \/ ev'[u] \in claimed[u] /\ keys'[u] = DOMAIN ev'[u].deliveries
    PROVE  HandsReached(u)'
<1>1. HandsReached(u)
    BY DEF Receipts
<1>2. \A c \in claimed'[u] : \A d \in DOMAIN c.deliveries :
        Reached(c.id, d, c.deliveries[d].chunk)'
    BY <1>1, CopiesInRange, ReachedKept DEF HandsReached, Copies
<1>3. ASSUME InDrain(u)', NEW d \in keys'[u]
      PROVE  Reached(ev[u].id, d, ev[u].deliveries[d].chunk)'
  <2>1. PICK c : c = ev'[u]
      OBVIOUS
  <2>2. Reached(c.id, d, c.deliveries[d].chunk) /\ c.id \in Events /\ d \in Destinations
      BY <1>1, <1>3, <2>1, CopiesInRange DEF HandsReached
  <2>3. Reached(c.id, d, c.deliveries[d].chunk)'
      BY <2>2, ReachedKept DEF Copies
  <2>. QED
      BY <2>1, <2>3
<1>. QED
    BY <1>2, <1>3 DEF HandsReached

LEMMA VisitKept ==
    ASSUME Copies, Receipts, [Next]_vars, NEW u \in Workers,
           ev'[u].id = ev[u].id, dest'[u] = dest[u], state'[u] = state[u], config'[u] = config[u],
           InVisit(u)' => /\ InVisit(u)
                          /\ (pc'[u] = "finish") <=> (pc[u] = "finish")
                          /\ pc'[u] # "fail" => pc[u] # "fail"
    PROVE  VisitReached(u)'
<1>. SUFFICES ASSUME InVisit(u)'
              PROVE  /\ pc'[u] = "finish" => All(ev[u].id, dest[u])'
                     /\ pc'[u] # "finish" => Reached(ev[u].id, dest[u], state[u].chunk)'
                     /\ pc'[u] # "fail" => config'[u][dest'[u]] # "absent"
    BY DEF VisitReached
<1>1. PICK e, d, k : e = ev[u].id /\ d = dest[u] /\ k = state[u].chunk
    OBVIOUS
<1>2. /\ e \in Events /\ d \in Destinations
      /\ pc[u] = "finish" => All(e, d)
      /\ pc[u] # "finish" => Reached(e, d, k)
      /\ pc[u] # "fail" => config[u][d] # "absent"
    BY <1>1, CopiesInRange DEF Receipts, VisitReached
<1>3. /\ pc[u] = "finish" => All(e, d)'
      /\ pc[u] # "finish" => Reached(e, d, k)'
    BY <1>2, ReachedKept DEF Copies
<1>. QED
    BY <1>1, <1>2, <1>3

(* A message that is sent is the next one of its state, so the state that   *)
(* counts it is as true as the one before.                                  *)
LEMMA SendReached ==
    ASSUME Steady, Copies, Receipts, [Next]_vars, NEW w \in Workers, Send(w)
    PROVE  /\ VisitReached(w)'
           /\ \A e \in Events : \A d \in Destinations :
                \E k \in 0..Size(e, d) : Arrived(e, d, k)'
           /\ \A e \in Events : \A d \in Destinations :
                got'[e][d] # got[e][d] => e = ev[w].id /\ d = dest[w]
<1>1. PICK e, d, k : e = ev[w].id /\ d = dest[w] /\ k = state[w].chunk
    OBVIOUS
<1>2. pc[w] = "send" /\ InVisit(w) /\ ev'[w] = ev[w] /\ dest'[w] = dest[w] /\ config' = config
    BY DEF Send, InVisit, Busy
<1>3. /\ e \in Events /\ d \in Destinations /\ k \in Nat
      /\ Reached(e, d, k) /\ config[w][d] # "absent"
    BY <1>1, <1>2, MessageType DEF Receipts, VisitReached, Copies
<1>4. Message(w) = Part(e, d, k) /\ Parts(w, e, d) = Size(e, d)
    BY <1>1, <1>3, SamePlan DEF Message, Part, Parts, Size, Copies
<1>5. Size(e, d) \in Nat
    BY <1>3, SizeType
<1>6. CASE ~Receive(w)
  <2>1. /\ got' = got /\ pc'[w] = "fail" /\ state' = state
      BY <1>2, <1>6 DEF Send, Goto, Copies, TypeInv, TypeOK
  <2>2. VisitReached(w)'
      BY <1>2, <2>1, VisitKept
  <2>3. \A x \in Events : \A y \in Destinations :
          \E n \in 0..Size(x, y) : Arrived(x, y, n)'
      BY <2>1 DEF Receipts, Arrived
  <2>. QED
      BY <2>1, <2>2, <2>3
<1>7. CASE Receive(w)
  <2>1. /\ got'[e][d] = got[e][d] \cup {Part(e, d, k)}
        /\ \A x \in Events : \A y \in Destinations :
             x # e \/ y # d => got'[x][y] = got[x][y]
      BY <1>1, <1>3, <1>4, <1>7 DEF Receive, Copies, TypeInv, TypeOK
  <2>2. PICK n \in 0..Size(e, d) : Arrived(e, d, n)
      BY <1>3 DEF Receipts
  <2>3. k <= n
    <3>1. CASE k = 0
        BY <1>5, <2>2, <3>1
    <3>2. CASE k > 0
      <4>1. k - 1 \in Nat /\ k - 1 < k /\ k - 1 < Size(e, d)
          BY <1>3, <1>5, <3>2 DEF Reached
      <4>2. Has(e, d, k - 1)
          BY <1>3, <4>1 DEF Reached
      <4>. QED
          BY <1>3, <1>5, <2>2, <4>1, <4>2, HasUpTo
    <3>. QED
        BY <1>3, <3>1, <3>2
  <2>4. \E m \in 0..Size(e, d) : Arrived(e, d, m)'
      BY <1>3, <2>1, <2>2, <2>3, OrderKept DEF Reached
  <2>5. ASSUME NEW x \in Events, NEW y \in Destinations
        PROVE  \E m \in 0..Size(x, y) : Arrived(x, y, m)'
    <3>1. CASE x = e /\ y = d
        BY <2>4, <3>1
    <3>2. CASE x # e \/ y # d
      <4>1. PICK m \in 0..Size(x, y) : Arrived(x, y, m)
          BY DEF Receipts
      <4>2. got'[x][y] = got[x][y]
          BY <2>1, <3>2
      <4>3. Arrived(x, y, m)'
          BY <4>1, <4>2 DEF Arrived
      <4>. QED
          BY <4>3
    <3>. QED
        BY <3>1, <3>2
  <2>6. /\ \A i \in Nat : i < k + 1 => Has(e, d, i)'
        /\ Reached(e, d, k)'
    <3>1. Has(e, d, k)' /\ \A i \in Nat : i < k => Has(e, d, i)'
        BY <1>3, <2>1 DEF Reached, Has
    <3>. QED
        BY <1>3, <3>1 DEF Reached
  <2>7. \/ pc'[w] = "fail" /\ state'[w] = state[w]
        \/ /\ state'[w].chunk = k + 1
           /\ pc'[w] = IF k + 1 < Size(e, d) THEN "progress" ELSE "finish"
      BY <1>1, <1>4 DEF Send, Goto, Copies, TypeInv, TypeOK
  <2>8. VisitReached(w)'
    <3>1. CASE pc'[w] = "fail" /\ state'[w] = state[w]
        BY <1>1, <1>2, <2>6, <3>1 DEF VisitReached
    <3>2. CASE state'[w].chunk = k + 1 /\ k + 1 < Size(e, d) /\ pc'[w] = "progress"
        BY <1>1, <1>2, <1>3, <2>6, <3>2 DEF VisitReached, Reached
    <3>3. CASE ~(k + 1 < Size(e, d)) /\ pc'[w] = "finish"
      <4>1. All(e, d)'
          BY <1>3, <1>5, <2>6, <3>3 DEF All
      <4>. QED
          BY <1>1, <1>2, <1>3, <3>3, <4>1 DEF VisitReached
    <3>. QED
        BY <2>7, <3>1, <3>2, <3>3
  <2>. QED
      BY <1>1, <2>1, <2>5, <2>8
<1>. QED
    BY <1>6, <1>7

LEMMA ReachedActor ==
    ASSUME Steady, Copies, Receipts, [Next]_vars, NEW w \in Workers, Actor(w)
    PROVE  HandsReached(w)' /\ VisitReached(w)'
<1>. TypeInv /\ TypeOK /\ Typed
    BY DEF Copies, TypeInv, TypeOK, Typed
<1>1. CASE Claim(w)
  <2>1. PICK picked \in SUBSET {e \in Events : Claimable(e)} :
          claimed' = [claimed EXCEPT ![w] =
              {[id |-> e, deliveries |-> events[e].deliveries] : e \in picked}]
      BY <1>1, ClaimEffect
  <2>2. claimed'[w] = {[id |-> e, deliveries |-> events[e].deliveries] : e \in picked}
      BY <2>1 DEF TypeOK
  <2>3. ~InDrain(w)' /\ ~InVisit(w)'
      BY <1>1 DEF Claim, Goto, InDrain, InVisit, Draining, Busy, TypeOK
  <2>4. ASSUME NEW c \in claimed'[w], NEW d \in DOMAIN c.deliveries
        PROVE  Reached(c.id, d, c.deliveries[d].chunk)'
    <3>1. PICK e \in picked : c = [id |-> e, deliveries |-> events[e].deliveries]
        BY <2>2, <2>4
    <3>2. e \in Events /\ events[e] # None /\ d \in Pending(e) /\ d \in Destinations
        BY <3>1, PendingType DEF Claimable
    <3>3. Reached(c.id, d, c.deliveries[d].chunk)
        BY <3>1, <3>2 DEF Receipts, Stored
    <3>. QED
        BY <3>1, <3>2, <3>3, ReachedKept
  <2>. QED
      BY <2>3, <2>4 DEF HandsReached, VisitReached
<1>2. CASE Loop(w)
  <2>1. ~InVisit(w)'
      BY <1>2 DEF Loop, Goto, InVisit, Busy, TypeOK
  <2>2. CASE ~InDrain(w)' /\ claimed'[w] = claimed[w]
      BY <2>1, <2>2, HandsKept DEF VisitReached
  <2>3. CASE \E c \in claimed[w] : /\ claimed'[w] = claimed[w] \ {c} /\ ev'[w] = c
                                   /\ keys'[w] = DOMAIN c.deliveries
      BY <2>1, <2>3, HandsKept DEF VisitReached
  <2>. QED
      BY <1>2, <2>2, <2>3 DEF Loop, Goto, InDrain, Draining, Busy, TypeOK
<1>3. CASE ReleaseRest(w) \/ SkipRelease(w) \/ Exit(w) \/ Crash(w)
  <2>1. claimed'[w] \subseteq claimed[w] /\ ~InDrain(w)' /\ ~InVisit(w)'
    <3>1. CASE ReleaseRest(w) \/ SkipRelease(w)
        BY <3>1 DEF ReleaseRest, SkipRelease, Goto, InDrain, InVisit, Draining, Busy, TypeOK
    <3>2. CASE Exit(w) \/ Crash(w)
        BY <3>2 DEF Exit, Crash, Fresh, InDrain, InVisit, Draining, Busy, TypeOK
    <3>. QED
        BY <1>3, <3>1, <3>2
  <2>. QED
      BY <2>1, HandsKept DEF VisitReached
<1>4. CASE SameHands(w)
  <2>1. HandsReached(w)'
      BY <1>4, HandsKept DEF SameHands
  <2>2. CASE ~InVisit(w)'
      BY <2>1, <2>2 DEF VisitReached
  <2>3. CASE Send(w)
      BY <2>1, <2>3, SendReached
  <2>4. CASE /\ InVisit(w) /\ dest'[w] = dest[w] /\ state'[w] = state[w] /\ config' = config
             /\ (pc'[w] = "finish") <=> (pc[w] = "finish")
             /\ pc'[w] # "fail" => pc[w] # "fail"
      BY <1>4, <2>1, <2>4, VisitKept DEF SameHands
  <2>5. CASE Visit(w) /\ InVisit(w)'
    <3>1. PICK e, d, k : e = ev[w].id /\ d = dest'[w] /\ k = state'[w].chunk
        OBVIOUS
    <3>2. /\ InDrain(w) /\ d \in keys[w] /\ k = ev[w].deliveries[d].chunk
          /\ pc'[w] = IF config[w][d] = "absent" THEN "fail"
                      ELSE IF k < Parts(w, e, d) THEN "save" ELSE "finish"
          /\ config' = config /\ ev' = ev
        BY <2>5, <3>1 DEF Visit, Goto, InVisit, InDrain, Draining, Busy, TypeOK
    <3>3. e \in Events /\ d \in Destinations /\ Reached(e, d, k)
        BY <3>1, <3>2, CopiesInRange DEF Receipts, HandsReached
    <3>4. config[w][d] # "absent" => k < Parts(w, e, d)
        BY <3>3, SamePlan DEF Reached, Parts, Size
    <3>5. Reached(e, d, k)'
        BY <3>3, ReachedKept
    <3>. QED
        BY <2>1, <3>1, <3>2, <3>4, <3>5 DEF VisitReached
  <2>6. CASE Save(w) \/ Progress(w) \/ Fail(w) \/ Served(w) \/ Release(w)
    <3>1. CASE Save(w) \/ Progress(w) \/ Fail(w)
        BY <2>2, <2>4, <3>1 DEF Save, Progress, Fail, SaveThen, Goto, InVisit, Busy, TypeOK
    <3>2. CASE Served(w) \/ Release(w)
        BY <2>2, <3>2 DEF Served, Release, Goto, InVisit, Busy, TypeOK
    <3>. QED
        BY <2>6, <3>1, <3>2
  <2>7. CASE Cancel(w) \/ IOError(w)
      BY <2>2, <2>4, <2>7 DEF Cancel, IOError, drainVars, Goto, InVisit, Busy, TypeOK
  <2>. QED
      BY <1>1, <1>2, <1>3, <2>2, <2>3, <2>5, <2>6, <2>7 DEF Actor, DrainStep
<1>. QED
    BY <1>1, <1>2, <1>3, <1>4, HandSteps

LEMMA ReceiptsStep ==
    ASSUME Steady, Copies, Receipts, [Next]_vars
    PROVE  Receipts'
<1>. TypeInv /\ TypeOK /\ Typed
    BY DEF Copies, TypeInv, TypeOK, Typed
<1>1. ASSUME NEW e \in Events, NEW d \in Destinations
      PROVE  /\ \E k \in 0..Size(e, d) : Arrived(e, d, k)'
             /\ e \notin enqueued' => got'[e][d] = {}
  <2>1. e \notin enqueued' => e \notin enqueued
      BY PendingShrinks
  <2>2. CASE got' = got
      BY <2>1, <2>2 DEF Receipts, Arrived
  <2>3. CASE \E w \in Workers : Send(w)
    <3>1. PICK w \in Workers : Send(w)
        BY <2>3
    <3>2. ev[w].id \in enqueued
        BY <3>1 DEF Send, Copies, Known, KnownFor, InDrain, Draining, Busy
    <3>. QED
        BY <2>1, <3>1, <3>2, SendReached DEF Receipts
  <2>. QED
      BY <2>2, <2>3, GotGrows
<1>2. ASSUME NEW e \in Events, NEW d \in Pending(e)'
      PROVE  Reached(e, d, Stored(e, d))'
  <2>1. CASE d \in Pending(e) /\ Stored(e, d)' = Stored(e, d)
    <3>1. PICK k : k = Stored(e, d)
        OBVIOUS
    <3>2. Reached(e, d, k) /\ d \in Destinations
        BY <2>1, <3>1, PendingType DEF Receipts
    <3>3. Reached(e, d, k)'
        BY <3>2, ReachedKept
    <3>. QED
        BY <2>1, <3>1, <3>3
  <2>2. CASE \E w \in Workers : Actor(w)
    <3>1. PICK w \in Workers : Actor(w)
        BY <2>2
    <3>2. PICK k : k = state[w].chunk
        OBVIOUS
    <3>3. CASE Writes(w, e, d) /\ Stored(e, d)' = k
      <4>1. Reached(e, d, k) /\ d \in Destinations
          BY <3>2, <3>3, CopiesInRange DEF Writes, Receipts, VisitReached, InVisit, Busy
      <4>2. Reached(e, d, k)'
          BY <4>1, ReachedKept
      <4>. QED
          BY <3>3, <4>2
    <3>. QED
        BY <2>1, <3>1, <3>2, <3>3, ActorStored
  <2>3. CASE \E f \in Events : Enqueue(f) \/ Drop(f)
    <3>1. CASE events'[e] = events[e]
        BY <2>1, <3>1 DEF Pending, Stored
    <3>2. CASE Stored(e, d)' = 0
      <4>1. Reached(e, d, 0)'
          BY SizeType DEF Reached
      <4>. QED
          BY <3>2, <4>1
    <3>. QED
        BY <2>3, <3>1, <3>2, EnqueueEffect, DropEffect DEF Pending
  <2>4. CASE EditProviders \/ UNCHANGED vars
      BY <2>1, <2>4 DEF EditProviders, vars, queueVars, Pending, Stored
  <2>5. CASE Tick
      BY <2>1, <2>5, TickEffect
  <2>. QED
      BY <2>2, <2>3, <2>4, <2>5, NextCases
<1>3. ASSUME NEW w \in Workers
      PROVE  HandsReached(w)' /\ VisitReached(w)'
  <2>1. CASE Still(w) \/ UNCHANGED vars
      BY <2>1, HandsKept, VisitKept DEF Still, vars, drainVars, InDrain, InVisit
  <2>2. CASE Actor(w)
      BY <2>2, ReachedActor
  <2>3. CASE Tick
    <3>1. /\ pc' = pc /\ keys' = keys /\ dest' = dest /\ state' = state /\ config' = config
          /\ \A b \in claimed'[w] : \E c \in claimed[w] : TickCopy(b, c)
          /\ InDrain(w) => TickCopy(ev'[w], ev[w])
        BY <2>3, TickHands, CopiesInRange
    <3>2. HandsReached(w) /\ got' = got
        BY <2>3 DEF Receipts, Tick
    <3>3. \A e, d, k : Reached(e, d, k) <=> Reached(e, d, k)'
        BY <3>2 DEF Reached, Has
    <3>4. ASSUME NEW b \in claimed'[w], NEW d \in DOMAIN b.deliveries
          PROVE  Reached(b.id, d, b.deliveries[d].chunk)'
      <4>1. PICK c \in claimed[w] : TickCopy(b, c)
          BY <3>1, <3>4
      <4>. QED
          BY <3>2, <3>3, <3>4, <4>1 DEF HandsReached, TickCopy
    <3>5. ASSUME InDrain(w)', NEW d \in keys'[w]
          PROVE  Reached(ev[w].id, d, ev[w].deliveries[d].chunk)'
      <4>1. PICK b, c : b = ev'[w] /\ c = ev[w]
          OBVIOUS
      <4>2. TickCopy(b, c) /\ d \in DOMAIN c.deliveries /\ Reached(c.id, d, c.deliveries[d].chunk)
          BY <3>1, <3>2, <3>5, <4>1, CopiesInRange DEF HandsReached, InDrain
      <4>3. Reached(b.id, d, b.deliveries[d].chunk)'
          BY <3>3, <4>2 DEF TickCopy
      <4>. QED
          BY <4>1, <4>3
    <3>6. HandsReached(w)'
        BY <3>4, <3>5 DEF HandsReached
    <3>7. VisitReached(w)'
      <4>1. CASE ~InVisit(w)
          BY <3>1, <4>1 DEF VisitReached, InVisit
      <4>2. CASE InVisit(w)
          BY <3>1, <4>2, VisitKept, CopiesInRange DEF TickCopy, InVisit
      <4>. QED
          BY <4>1, <4>2
    <3>. QED
        BY <3>6, <3>7
  <2>4. Still(w) \/ UNCHANGED vars \/ Actor(w) \/ Tick
      BY NextCases, OthersStill, EnqueueEffect, DropEffect DEF EditProviders, drainVars, Still
  <2>. QED
      BY <2>1, <2>2, <2>3, <2>4
<1>. QED
    BY <1>1, <1>2, <1>3 DEF Receipts

LEMMA ReceiptsHold ==
    ASSUME Steady
    PROVE  Spec => []Receipts
<1>1. Init => Receipts
  <2>. SUFFICES ASSUME Init
                PROVE  Receipts
      OBVIOUS
  <2>1. /\ \A e \in Events : Pending(e) = {}
        /\ \A w \in Workers : claimed[w] = {} /\ ~InDrain(w) /\ ~InVisit(w)
      BY DEF Init, Pending, InDrain, InVisit, Draining, Busy
  <2>2. ASSUME NEW e \in Events, NEW d \in Destinations
        PROVE  got[e][d] = {} /\ Arrived(e, d, 0) /\ 0 \in 0..Size(e, d)
      BY SizeType DEF Init, Arrived
  <2>. QED
      BY <2>1, <2>2 DEF Receipts, HandsReached, VisitReached
<1>2. Copies /\ Receipts /\ [Next]_vars => Receipts'
    BY ReceiptsStep
<1>. QED
    BY <1>1, <1>2, CopiesHold, PTL DEF Spec

(* The chunks of an event reach a destination in their order, and the queue *)
(* never believes in one that was not received.                             *)
THEOREM ChunksArriveInOrder ==
    ASSUME Steady
    PROVE  Spec => []ChunksInOrder
<1>1. Copies /\ Receipts => ChunksInOrder
  <2>. SUFFICES ASSUME Copies, Receipts, NEW e \in Events, NEW d \in Destinations
                PROVE  /\ \E n \in 0..TextChunks[e] : got[e][d] \ {Whole} = 1..n
                       /\ d \in Pending(e) =>
                            \A k \in 1..events[e].deliveries[d].chunk :
                                {k, Whole} \cap got[e][d] # {}
      BY DEF ChunksInOrder
  <2>1. TextChunks[e] \in Nat \ {0}
      BY DispatchAssumption
  <2>2. PICK n \in 0..Size(e, d) : Arrived(e, d, n)
      BY DEF Receipts
  <2>3. \E m \in 0..TextChunks[e] : got[e][d] \ {Whole} = 1..m
    <3>1. CASE Reported(e, d)
      <4>1. got[e][d] \ {Whole} = {} /\ 0 \in 0..TextChunks[e] /\ 1..0 = {}
          BY <2>1, <2>2, <3>1 DEF Arrived
      <4>. QED
          BY <4>1
    <3>2. CASE ~Reported(e, d)
      <4>1. got[e][d] = 1..n /\ n \in 0..TextChunks[e]
          BY <2>2, <3>2 DEF Arrived, Size
      <4>2. Whole \notin 1..n
          BY <2>1, <4>1 DEF Whole
      <4>. QED
          BY <4>1, <4>2
    <3>. QED
        BY <3>1, <3>2
  <2>4. ASSUME d \in Pending(e), NEW k \in 1..events[e].deliveries[d].chunk
        PROVE  {k, Whole} \cap got[e][d] # {}
    <3>1. Stored(e, d) \in Nat /\ Reached(e, d, Stored(e, d))
        BY <2>4, PendingType DEF Receipts, Copies, TypeInv, TypeOK, Typed
    <3>2. k - 1 \in Nat /\ k - 1 < Stored(e, d)
        BY <3>1 DEF Stored
    <3>3. Has(e, d, k - 1)
        BY <3>1, <3>2 DEF Reached
    <3>4. Part(e, d, k - 1) \in {k, Whole}
        BY <3>2 DEF Part
    <3>. QED
        BY <3>3, <3>4 DEF Has
  <2>. QED
      BY <2>3, <2>4
<1>. QED
    BY <1>1, CopiesHold, ReceiptsHold, PTL

LEMMA AllComplete ==
    ASSUME NEW e \in Events, NEW d, All(e, d)
    PROVE  Complete(e, d)
<1>1. TextChunks[e] \in Nat \ {0}
    BY DispatchAssumption
<1>2. CASE Reported(e, d)
    BY <1>2 DEF All, Size, Has, Part, Complete
<1>3. CASE ~Reported(e, d)
  <2>1. ASSUME NEW k \in 1..TextChunks[e]
        PROVE  k \in got[e][d]
    <3>1. k - 1 \in Nat /\ k - 1 < Size(e, d) /\ Part(e, d, k - 1) = k
        BY <1>1, <1>3 DEF Size, Part
    <3>. QED
        BY <3>1 DEF All, Has
  <2>. QED
      BY <2>1 DEF Complete
<1>. QED
    BY <1>2, <1>3

(* A destination leaves the queue only as served, and with all of the event *)
(* received.                                                                *)
LEMMA LeavesComplete ==
    ASSUME Copies, Receipts, NEW w \in Workers, Actor(w), NEW e \in Events,
           NEW d \in Pending(e) \ Pending(e)'
    PROVE  Complete(e, d)
<1>1. pc[w] = "finish" /\ ev[w].id = e /\ dest[w] = d
    BY ActorStored DEF Copies
<1>. QED
    BY <1>1, AllComplete DEF Receipts, VisitReached, InVisit, Busy

LEMMA CompleteKept ==
    ASSUME TypeInv, [Next]_vars, NEW e \in Events, NEW d \in Destinations, Complete(e, d)
    PROVE  Complete(e, d)'
BY GotGrows DEF Complete

(* What is not delivered in full is still queued, or left with its target,  *)
(* with any number of crashes, lost answers and expired leases: a save that *)
(* ends a delivery follows the receipt of its last message.                 *)
THEOREM NothingIsLost ==
    ASSUME Steady
    PROVE  Spec => []NothingLost
<1>1. Init => NothingLost
    BY DEF Init, NothingLost
<1>2. ASSUME Copies, Receipts, NothingLost, [Next]_vars
      PROVE  NothingLost'
  <2>. SUFFICES ASSUME NEW e \in enqueued' \ dropped', NEW d \in AddressedTo[e] \ Pending(e)'
                PROVE  Complete(e, d)'
      BY DEF NothingLost
  <2>1. e \in Events
      BY <1>2, ActorType, TickType, OtherType, NextCases DEF Copies, TypeInv, TypeOK
  <2>2. d \in Destinations /\ Typed /\ TypeOK /\ TypeInv
      BY <1>2, <2>1, DispatchAssumption DEF Copies, TypeInv, TypeOK, Typed
  <2>3. CASE e \in enqueued \ dropped /\ d \notin Pending(e)
      BY <1>2, <2>1, <2>2, <2>3, CompleteKept DEF NothingLost
  <2>4. CASE \E w \in Workers : Actor(w)
      BY <1>2, <2>1, <2>2, <2>3, <2>4, LeavesComplete, CompleteKept, ActorQueue
  <2>5. CASE \E f \in Events : Enqueue(f)
    <3>1. PICK f \in Events : Enqueue(f)
        BY <2>5
    <3>2. e # f /\ Pending(e)' = Pending(e)
        BY <2>1, <2>2, <3>1, EnqueueEffect DEF Pending
    <3>. QED
        BY <2>2, <2>3, <3>1, <3>2, EnqueueEffect DEF Enqueue
  <2>6. CASE \E f \in Events : Drop(f)
    <3>1. PICK f \in Events : Drop(f)
        BY <2>6
    <3>2. events'[e] = events[e] /\ enqueued' = enqueued /\ dropped \subseteq dropped'
        BY <2>1, <2>2, <3>1, DropEffect DEF Drop
    <3>. QED
        BY <2>3, <3>2 DEF Pending
  <2>7. CASE EditProviders \/ UNCHANGED vars
      BY <2>3, <2>7 DEF EditProviders, vars, queueVars, Pending
  <2>8. CASE Tick
      BY <2>1, <2>2, <2>3, <2>8, TickEffect DEF Tick
  <2>. QED
      BY <1>2, <2>4, <2>5, <2>6, <2>7, <2>8, NextCases
<1>. QED
    BY <1>1, <1>2, CopiesHold, ReceiptsHold, PTL DEF Spec

--------------------------------------------------------------------------------
(* The queue that the dispatchers implement *)

Waiting == [e \in Events |-> Pending(e)]
Received == [e \in Events |-> {d \in AddressedTo[e] : Complete(e, d)}]

(* A step that does not touch the queue changes nothing in the abstract one *)
(* but, at a send, that one destination may have received all of its event. *)
LEMMA RefineActor ==
    ASSUME Copies, Receipts, [Next]_vars, NEW w \in Workers, Actor(w)
    PROVE  [Abstract!Next]_(Abstract!qvars)
<1>. TypeInv /\ TypeOK /\ Typed
    BY DEF Copies, TypeInv, TypeOK, Typed
<1>1. enqueued' = enqueued /\ dropped' = dropped
    BY ActorQueue
<1>2. PICK e, d : e = ev[w].id /\ d = dest[w]
    OBVIOUS
<1>3. CASE Send(w)
  <2>1. events' = events /\ InVisit(w) /\ InDrain(w)
      BY <1>3 DEF Send, queueVars, InVisit, InDrain, Draining, Busy
  <2>2. /\ e \in Events /\ d \in Destinations /\ e \in enqueued /\ d \in AddressedTo[e]
      BY <1>2, <2>1, MessageType DEF Copies, Known, KnownFor, TypeInv, ShapeOf
  <2>3. Waiting' = Waiting
      BY <2>1 DEF Waiting, Pending
  <2>4. \A x \in Events : \A y \in Destinations :
          x # e \/ y # d => (Complete(x, y)' <=> Complete(x, y))
    <3>1. Receive(w) \/ got' = got
        BY <1>3 DEF Send
    <3>2. \A x \in Events : \A y \in Destinations :
            x # e \/ y # d => got'[x][y] = got[x][y]
        BY <1>2, <2>2, <3>1 DEF Receive, TypeOK
    <3>. QED
        BY <3>2 DEF Complete
  <2>5. Complete(e, d) => Complete(e, d)'
      BY <2>2, CompleteKept
  <2>6. CASE Complete(e, d)' => Complete(e, d)
    <3>1. \A x \in Events : \A y \in AddressedTo[x] : Complete(x, y)' <=> Complete(x, y)
        BY <2>4, <2>5, <2>6, DispatchAssumption
    <3>2. Received' = Received
        BY <3>1 DEF Received
    <3>. QED
        BY <1>1, <2>3, <3>2 DEF Abstract!qvars, Waiting, Received
  <2>7. CASE Complete(e, d)' /\ ~Complete(e, d)
    <3>1. Received' = [Received EXCEPT ![e] = @ \cup {d}]
      <4>1. \A x \in Events : {y \in AddressedTo[x] : Complete(x, y)'} =
              IF x = e THEN {y \in AddressedTo[x] : Complete(x, y)} \cup {d}
              ELSE {y \in AddressedTo[x] : Complete(x, y)}
          BY <2>2, <2>4, <2>7, DispatchAssumption
      <4>. QED
          BY <2>2, <4>1 DEF Received
    <3>2. Abstract!Receive(e, d)
        BY <1>1, <2>2, <2>3, <2>7, <3>1 DEF Abstract!Receive, Waiting, Received
    <3>. QED
        BY <2>2, <3>2 DEF Abstract!Next
  <2>. QED
      BY <2>6, <2>7
<1>4. CASE ~Send(w)
  <2>1. CASE got' = got
    <3>1. Received' = Received
        BY <2>1 DEF Received, Complete
    <3>2. CASE \A x \in Events : Pending(x)' = Pending(x)
      <4>1. Waiting' = Waiting
          BY <3>2 DEF Waiting
      <4>. QED
          BY <1>1, <3>1, <4>1 DEF Abstract!qvars, Waiting, Received
    <3>3. CASE \E x \in Events : Pending(x)' # Pending(x)
      <4>0. PICK x \in Events : \E y \in Pending(x) : y \notin Pending(x)'
          BY <3>3, ActorStored
      <4>1. PICK y \in Pending(x) : y \notin Pending(x)'
          BY <4>0
      <4>2. /\ \A z \in Events : Pending(z)' \subseteq Pending(z)
            /\ \A z \in Events : \A v \in Pending(z) \ Pending(z)' : z = x /\ v = y
          BY <4>1, ActorStored
      <4>3. Waiting' = [Waiting EXCEPT ![x] = @ \ {y}]
        <5>1. \A z \in Events : Pending(z)' = IF z = x THEN Pending(z) \ {y} ELSE Pending(z)
            BY <4>1, <4>2
        <5>. QED
            BY <5>1 DEF Waiting
      <4>4. Complete(x, y) /\ y \in AddressedTo[x] /\ y \in Destinations
          BY <4>1, LeavesComplete, DispatchAssumption DEF Copies, Known
      <4>5. Abstract!Settle(x, y)
          BY <1>1, <3>1, <4>1, <4>3, <4>4 DEF Abstract!Settle, Waiting, Received
      <4>. QED
          BY <4>4, <4>5 DEF Abstract!Next
    <3>. QED
        BY <3>2, <3>3
  <2>. QED
      BY <1>4, <2>1 DEF Actor, DrainStep, Claim, Loop, Visit, Save, Progress, Fail, SaveThen,
         Served, Release, ReleaseRest, Exit, Crash, Fresh, Cancel, IOError,
         SkipRelease, ghostVars
<1>. QED
    BY <1>3, <1>4

(* While the providers file is steady, the dispatchers together are one     *)
(* queue: a save, a lease, a refusal and a crash are nothing to it; a       *)
(* message is at most the receipt of its event, and the end of a delivery   *)
(* is the settlement of a destination that received all of it.              *)
THEOREM DispatchersAreAQueue ==
    ASSUME Steady
    PROVE  Spec => ImplementsQueue
<1>1. Init => Abstract!Init
  <2>. SUFFICES ASSUME Init
                PROVE  Abstract!Init
      OBVIOUS
  <2>1. \A e \in Events : Pending(e) = {} /\ \A d \in AddressedTo[e] : ~Complete(e, d)
    <3>. SUFFICES ASSUME NEW e \in Events, NEW d \in AddressedTo[e]
                  PROVE  ~Complete(e, d)
        BY DEF Init, Pending
    <3>1. got[e][d] = {} /\ 1 \in 1..TextChunks[e]
        BY DispatchAssumption DEF Init
    <3>. QED
        BY <3>1 DEF Complete
  <2>. QED
      BY <2>1 DEF Init, Abstract!Init
<1>2. ASSUME Copies, Receipts, [Next]_vars
      PROVE  [Abstract!Next]_(Abstract!qvars)
  <2>. TypeInv /\ TypeOK /\ Typed
      BY <1>2 DEF Copies, TypeInv, TypeOK, Typed
  <2>1. CASE \E w \in Workers : Actor(w)
      BY <1>2, <2>1, RefineActor
  <2>2. ASSUME got' = got
        PROVE  Received' = Received
      BY <2>2 DEF Received, Complete
  <2>3. CASE \E e \in Events : Enqueue(e)
    <3>1. PICK e \in Events : Enqueue(e)
        BY <2>3
    <3>2. Waiting' = [Waiting EXCEPT ![e] = AddressedTo[e]]
      <4>1. \A f \in Events : Pending(f)' = IF f = e THEN AddressedTo[f] ELSE Pending(f)
          BY <3>1, EnqueueEffect DEF Pending
      <4>. QED
          BY <4>1 DEF Waiting
    <3>3. got' = got /\ dropped' = dropped /\ e \notin enqueued /\ enqueued' = enqueued \cup {e}
        BY <3>1 DEF Enqueue, ghostVars
    <3>4. Abstract!Put(e)
        BY <2>2, <3>2, <3>3 DEF Abstract!Put, Waiting, Received
    <3>. QED
        BY <3>4 DEF Abstract!Next
  <2>4. CASE \E e \in Events : Drop(e)
    <3>1. PICK e \in Events : Drop(e)
        BY <2>4
    <3>2. PICK gone : gone = {f \in Events : events[f] # None /\ TargetOf[f] = TargetOf[e]}
        OBVIOUS
    <3>3. \A f \in Events : (Pending(f) # {}) <=> (events[f] # None)
        BY PendingType DEF Pending
    <3>4. gone = {f \in Events : Waiting[f] # {} /\ TargetOf[f] = TargetOf[e]}
        BY <3>2, <3>3 DEF Waiting
    <3>5. Waiting' = [f \in Events |-> IF f \in gone THEN {} ELSE Waiting[f]]
      <4>1. \A f \in Events : Pending(f)' = IF f \in gone THEN {} ELSE Pending(f)
          BY <3>1, <3>2, DropEffect DEF Pending, Drop
      <4>. QED
          BY <4>1 DEF Waiting
    <3>6. /\ got' = got /\ dropped' = dropped \cup gone /\ enqueued' = enqueued
          /\ Waiting[e] # {}
        BY <3>1, <3>2, <3>3, DropEffect DEF Drop, ghostVars, Waiting
    <3>7. Abstract!Remove(e)
        BY <2>2, <3>4, <3>5, <3>6 DEF Abstract!Remove, Waiting, Received
    <3>. QED
        BY <3>7 DEF Abstract!Next
  <2>5. CASE EditProviders \/ UNCHANGED vars \/ Tick
    <3>1. /\ \A e \in Events : Pending(e)' = Pending(e)
          /\ got' = got /\ dropped' = dropped /\ enqueued' = enqueued
      <4>1. CASE EditProviders \/ UNCHANGED vars
          BY <4>1 DEF EditProviders, vars, queueVars, ghostVars, Pending
      <4>2. CASE Tick
          BY <4>2, TickEffect DEF Tick
      <4>. QED
          BY <2>5, <4>1, <4>2
    <3>2. Waiting' = Waiting
        BY <3>1 DEF Waiting
    <3>. QED
        BY <2>2, <3>1, <3>2 DEF Abstract!qvars, Waiting, Received
  <2>. QED
      BY <1>2, <2>1, <2>3, <2>4, <2>5, NextCases
<1>. QED
    BY <1>1, <1>2, CopiesHold, ReceiptsHold, PTL DEF Spec, ImplementsQueue, Abstract!Spec

--------------------------------------------------------------------------------
(* Repeated messages *)

(* A destination is at most one message ahead of what is stored for it, and *)
(* no message is sent before the state that counts the ones before it.      *)
NearStored ==
    /\ \A e \in Events : \A d \in Pending(e) : \A i \in Nat :
         i > Stored(e, d) /\ i < Size(e, d) => ~Has(e, d, i)
    /\ \A w \in Workers : pc[w] = "send" /\ dest[w] \in Pending(ev[w].id) =>
         state[w].chunk <= Stored(ev[w].id, dest[w])

LEMMA PendingLater ==
    ASSUME Typed', NEW e \in Events, NEW d \in Pending(e)'
    PROVE  d \in Destinations /\ Stored(e, d)' \in Nat
<1>1. events'[e] # None => /\ DOMAIN events'[e].deliveries \in Groups
                           /\ events'[e].deliveries \in [DOMAIN events'[e].deliveries -> Delivery]
    BY RecordType DEF Typed
<1>2. \A s \in Delivery : s.chunk \in Nat
    BY DEF Delivery
<1>. QED
    BY <1>1, <1>2 DEF Pending, Groups, Stored

LEMMA NearStoredStep ==
    ASSUME Steady, Copies, Receipts, NearStored, [Next]_vars
    PROVE  NearStored'
<1>. TypeInv /\ TypeOK /\ Typed /\ Typed'
  <2>1. TypeInv'
      BY ActorType, TickType, OtherType, NextCases DEF Copies
  <2>. QED
      BY <2>1 DEF Copies, TypeInv, TypeOK, Typed
<1>1. ASSUME NEW e \in Events, NEW d \in Pending(e)', NEW i \in Nat,
             i > Stored(e, d)', i < Size(e, d)
      PROVE  ~Has(e, d, i)'
  <2>1. CASE e \notin enqueued
    <3>1. \E f \in Events : Enqueue(f)
      <4>1. Pending(e) = {}
          BY <2>1 DEF TypeInv, Queued, Pending
      <4>2. d \notin Pending(e)
          BY <4>1
      <4>3. ~(\E w \in Workers : Actor(w)) /\ ~Tick /\ ~(\E f \in Events : Drop(f))
        <5>1. events[e] = None
            BY <2>1 DEF TypeInv, Queued
        <5>. QED
            BY <4>2, <5>1, ActorStored, TickEffect, DropEffect DEF Pending
      <4>4. ~EditProviders /\ ~UNCHANGED vars
          BY <4>2 DEF EditProviders, vars, queueVars, Pending
      <4>. QED
          BY <4>3, <4>4, NextCases
    <3>2. got' = got /\ got[e][d] = {}
      <4>1. d \in Destinations
          BY PendingLater
      <4>. QED
          BY <2>1, <3>1, <4>1 DEF Enqueue, ghostVars, Receipts
    <3>. QED
        BY <3>2 DEF Has
  <2>2. CASE e \in enqueued
    <3>1. d \in Pending(e) /\ Stored(e, d) \in Nat /\ Stored(e, d)' \in Nat
          /\ Stored(e, d)' >= Stored(e, d) /\ d \in Destinations
        BY <2>2, StoredGrows, PendingType, PendingLater
    <3>2. ~Has(e, d, i)
        BY <1>1, <3>1 DEF NearStored
    <3>3. CASE got'[e][d] = got[e][d]
        BY <3>2, <3>3 DEF Has
    <3>4. CASE got'[e][d] # got[e][d]
      <4>1. PICK w \in Workers : Send(w)
          BY <3>4, GotGrows
      <4>2. PICK k : k = state[w].chunk
          OBVIOUS
      <4>3. ev[w].id = e /\ dest[w] = d /\ pc[w] = "send" /\ InVisit(w)
          BY <3>1, <3>4, <4>1, SendReached DEF Send, InVisit, Busy
      <4>4. k \in Nat /\ k <= Stored(e, d)
          BY <3>1, <4>2, <4>3, MessageType DEF NearStored
      <4>5. Message(w) = Part(e, d, k)
          BY <3>1, <4>2, <4>3, SamePlan DEF Message, Part, Receipts, VisitReached
      <4>6. got'[e][d] = got[e][d] \cup {Part(e, d, k)}
          BY <3>1, <3>4, <4>1, <4>3, <4>5 DEF Send, Receive, TypeOK
      <4>7. Part(e, d, i) # Part(e, d, k)
          BY <1>1, <3>1, <4>4 DEF Part, Size
      <4>. QED
          BY <3>2, <4>6, <4>7 DEF Has
    <3>. QED
        BY <3>3, <3>4
  <2>. QED
      BY <2>1, <2>2
<1>2. ASSUME NEW w \in Workers, pc'[w] = "send", dest'[w] \in Pending(ev[w].id)'
      PROVE  state'[w].chunk <= Stored(ev[w].id, dest[w])'
  <2>1. CASE /\ pc[w] = "send" /\ ev'[w].id = ev[w].id /\ dest'[w] = dest[w]
             /\ state'[w] = state[w]
    <3>1. PICK e, d : e = ev[w].id /\ d = dest[w]
        OBVIOUS
    <3>2. e \in Events /\ e \in enqueued /\ InVisit(w) /\ state[w].chunk \in Nat
        BY <2>1, <3>1, MessageType DEF Copies, Known, KnownFor, InVisit, InDrain, Draining, Busy
    <3>3. d \in Pending(e) /\ Stored(e, d)' >= Stored(e, d) /\ d \in Pending(e)'
        BY <1>2, <2>1, <3>1, <3>2, StoredGrows
    <3>4. Stored(e, d) \in Nat /\ Stored(e, d)' \in Nat /\ state[w].chunk <= Stored(e, d)
        BY <2>1, <3>1, <3>2, <3>3, PendingType, PendingLater DEF NearStored
    <3>. QED
        BY <2>1, <3>1, <3>2, <3>3, <3>4
  <2>2. CASE Save(w) /\ CanSave(w, ev[w].id, dest[w])
    <3>1. PICK e, d : e = ev[w].id /\ d = dest[w]
        OBVIOUS
    <3>2. /\ e \in Events /\ d \in Pending(e) /\ state[w] \in Delivery /\ state[w].chunk \in Nat
          /\ SaveState(e, d, state[w])
          /\ ev'[w] = ev[w] /\ dest'[w] = dest[w] /\ state'[w] = state[w]
        BY <2>2, <3>1, MessageType DEF Save, SaveThen, InVisit, Busy, CanSave
    <3>3. Stored(e, d)' = state[w].chunk
        BY <3>2, SaveStateEffect DEF Stored
    <3>. QED
        BY <3>1, <3>2, <3>3
  <2>3. CASE Actor(w)
      BY <1>2, <2>1, <2>2, <2>3, ComesToSend
  <2>4. CASE Still(w) \/ UNCHANGED vars
      BY <1>2, <2>1, <2>4 DEF Still, vars, drainVars
  <2>5. CASE Tick
    <3>1. pc' = pc /\ dest' = dest /\ state' = state
        BY <2>5, TickHands
    <3>2. InDrain(w)
        BY <1>2, <3>1 DEF InDrain, Draining, Busy
    <3>3. ev'[w].id = ev[w].id
        BY <2>5, <3>2, TickHands, CopiesInRange DEF TickCopy
    <3>. QED
        BY <1>2, <2>1, <3>1, <3>3
  <2>. QED
      BY <2>3, <2>4, <2>5, NextCases, OthersStill, EnqueueEffect, DropEffect
         DEF EditProviders, drainVars, Still
<1>. QED
    BY <1>1, <1>2 DEF NearStored

(* The destination is about to receive a message for the first time, from a *)
(* worker that has the time to store it.                                    *)
NewAt(e, d) ==
    \E w \in Workers : /\ pc[w] = "send" /\ ev[w].id = e /\ dest[w] = d
                       /\ Guarded(w) /\ ~Has(e, d, state[w].chunk)

(* A worker in the middle of a send there still has that time.              *)
Covered(e, d) ==
    \E w \in Workers : Sending(w) /\ ev[w].id = e /\ dest[w] = d /\ Live(w, e)

(* It received a message that is not stored, and no worker is to store it.  *)
OwedAt(e, d) == d \in Pending(e) /\ Has(e, d, Stored(e, d)) /\ ~Covered(e, d)

Senders == {w \in Workers : pc[w] = "send"}
New == {x \in Events \X Destinations : NewAt(x[1], x[2])}
Owed == {x \in Events \X Destinations : OwedAt(x[1], x[2])}

(* The messages repeated so far, those under way and those owed are no more *)
(* than the faults and the messages that are new.                           *)
Charged == dups + Cardinality(Senders) + Cardinality(Owed) <= faults + Cardinality(New)

(* What one worker and one destination add to that.                         *)
One(P) == IF P THEN 1 ELSE 0
Share(w, e, d) == One(pc[w] = "send") + One(OwedAt(e, d)) - One(NewAt(e, d))

NewElse(e, d) == \A f \in Events : \A y \in Destinations :
    NewAt(f, y) /\ (f # e \/ y # d) => NewAt(f, y)'

OwedElse(e, d) == \A f \in Events : \A y \in Destinations :
    OwedAt(f, y)' /\ (f # e \/ y # d) => OwedAt(f, y)

LEMMA FiniteCharge ==
    /\ IsFiniteSet(Senders) /\ IsFiniteSet(New) /\ IsFiniteSet(Owed)
    /\ Cardinality(Senders) \in Nat /\ Cardinality(New) \in Nat /\ Cardinality(Owed) \in Nat
    /\ IsFiniteSet(Senders') /\ IsFiniteSet(New') /\ IsFiniteSet(Owed')
    /\ Cardinality(Senders') \in Nat /\ Cardinality(New') \in Nat /\ Cardinality(Owed') \in Nat
<1>1. IsFiniteSet(Workers) /\ IsFiniteSet(Events \X Destinations)
    BY DispatchAssumption, FS_Product
<1>2. IsFiniteSet(Senders) /\ IsFiniteSet(New) /\ IsFiniteSet(Owed)
    BY <1>1, FS_Subset DEF Senders, New, Owed
<1>3. IsFiniteSet(Senders') /\ IsFiniteSet(New') /\ IsFiniteSet(Owed')
    BY <1>1, FS_Subset DEF Senders, New, Owed
<1>. QED
    BY <1>2, <1>3, FS_CardinalityType

(* All but one element of a set is in the other one: the difference of the  *)
(* cardinalities is that of the one element.                                *)
LEMMA AllButOne ==
    ASSUME NEW A, NEW B, NEW x, IsFiniteSet(A), IsFiniteSet(B), A \ {x} \subseteq B
    PROVE  Cardinality(A) - One(x \in A) <= Cardinality(B) - One(x \in B)
<1>1. A \ {x} \subseteq B \ {x}
    OBVIOUS
<1>2. /\ IsFiniteSet(A \ {x}) /\ Cardinality(A \ {x}) = Cardinality(A) - One(x \in A)
      /\ IsFiniteSet(B \ {x}) /\ Cardinality(B \ {x}) = Cardinality(B) - One(x \in B)
      /\ Cardinality(A) \in Nat /\ Cardinality(B) \in Nat
    BY FS_RemoveElement, FS_CardinalityType DEF One
<1>3. Cardinality(A \ {x}) <= Cardinality(B \ {x})
    BY <1>1, <1>2, FS_Subset
<1>. QED
    BY <1>2, <1>3

(* A step that touches one worker and one destination pays for itself when  *)
(* it does so there.                                                        *)
LEMMA Account ==
    ASSUME Charged, NEW w \in Workers, NEW e \in Events, NEW d \in Destinations,
           dups \in Nat, faults \in Nat, dups' \in Nat, faults' \in Nat,
           \A u \in Workers \ {w} : pc'[u] = "send" => pc[u] = "send",
           NewElse(e, d), OwedElse(e, d),
           dups' + Share(w, e, d)' - Share(w, e, d) <= faults' - faults + dups
    PROVE  Charged'
<1>. DEFINE x == <<e, d>>
<1>1. /\ w \in Senders <=> pc[w] = "send"
      /\ w \in Senders' <=> pc'[w] = "send"
      /\ x \in New <=> NewAt(e, d)
      /\ x \in New' <=> NewAt(e, d)'
      /\ x \in Owed <=> OwedAt(e, d)
      /\ x \in Owed' <=> OwedAt(e, d)'
    BY DEF Senders, New, Owed
<1>2. Senders' \ {w} \subseteq Senders
    BY DEF Senders
<1>3. New \ {x} \subseteq New'
    BY DEF New, NewElse
<1>4. Owed' \ {x} \subseteq Owed
    BY DEF Owed, OwedElse
<1>5. /\ Cardinality(Senders') - One(w \in Senders') <= Cardinality(Senders) - One(w \in Senders)
      /\ Cardinality(New) - One(x \in New) <= Cardinality(New') - One(x \in New')
      /\ Cardinality(Owed') - One(x \in Owed') <= Cardinality(Owed) - One(x \in Owed)
    BY <1>2, <1>3, <1>4, FiniteCharge, AllButOne
<1>6. /\ One(w \in Senders) = One(pc[w] = "send") /\ One(w \in Senders') = One(pc'[w] = "send")
      /\ One(x \in New) = One(NewAt(e, d)) /\ One(x \in New') = One(NewAt(e, d)')
      /\ One(x \in Owed) = One(OwedAt(e, d)) /\ One(x \in Owed') = One(OwedAt(e, d)')
    BY <1>1 DEF One
<1>7. /\ One(pc[w] = "send") \in Nat /\ One(pc'[w] = "send") \in Nat
      /\ One(NewAt(e, d)) \in Nat /\ One(NewAt(e, d)') \in Nat
      /\ One(OwedAt(e, d)) \in Nat /\ One(OwedAt(e, d)') \in Nat
    BY DEF One
<1>8. /\ Share(w, e, d) = One(pc[w] = "send") + One(OwedAt(e, d)) - One(NewAt(e, d))
      /\ Share(w, e, d)' = One(pc'[w] = "send") + One(OwedAt(e, d)') - One(NewAt(e, d)')
    BY DEF Share, One
<1>. HIDE DEF x
<1>. QED
    BY <1>5, <1>6, <1>7, <1>8, FiniteCharge DEF Charged

LEMMA ActorGot ==
    ASSUME NEW w \in Workers, Actor(w), ~Send(w)
    PROVE  got' = got /\ dups' = dups
BY DEF Actor, DrainStep, Claim, Loop, Visit, Save, Progress, Fail, SaveThen,
   Served, Release, ReleaseRest, Exit, Crash, Fresh, Cancel, IOError,
   SkipRelease, ghostVars

(* A worker in the middle of a send keeps its place, and the time it has,   *)
(* while others take their steps.                                           *)
LEMMA Bystander ==
    ASSUME Copies, NEW w \in Workers, Actor(w), NEW u \in Workers \ {w}, Sending(u)
    PROVE  /\ pc'[u] = pc[u] /\ ev'[u] = ev[u] /\ dest'[u] = dest[u] /\ state'[u] = state[u]
           /\ Guarded(u) => Guarded(u)'
           /\ \A e \in Events : Live(u, e) => Live(u, e)'
<1>1. Still(u)
    BY OthersStill DEF Copies, TypeInv
<1>2. \A e \in Events : Live(u, e) => Live(u, e)'
    BY OwnedElsewhere DEF Copies
<1>3. Elsewhere(u) /\ InDrain(u)
    BY SendInDrain DEF Elsewhere
<1>. QED
    BY <1>1, <1>2, <1>3, GuardKept DEF Still

(* A destination about to receive a new message still is, unless the worker *)
(* that takes the step was the one to send it.                              *)
LEMMA NewKept ==
    ASSUME Copies, NEW w \in Workers, Actor(w), NEW e, NEW d,
           NewAt(e, d), got'[e][d] = got[e][d],
           ~(/\ pc[w] = "send" /\ ev[w].id = e /\ dest[w] = d
             /\ Guarded(w) /\ ~Has(e, d, state[w].chunk))
    PROVE  NewAt(e, d)'
<1>1. PICK u \in Workers : /\ pc[u] = "send" /\ ev[u].id = e /\ dest[u] = d
                           /\ Guarded(u) /\ ~Has(e, d, state[u].chunk)
    BY DEF NewAt
<1>2. u # w /\ Sending(u)
    BY <1>1 DEF Sending
<1>3. /\ pc'[u] = "send" /\ ev'[u].id = e /\ dest'[u] = d /\ state'[u] = state[u]
      /\ Guarded(u)'
    BY <1>1, <1>2, Bystander
<1>. QED
    BY <1>1, <1>3 DEF NewAt, Has

(* A destination to which a message is owed after a step was owed it before, *)
(* unless the worker that takes the step was the one to store it.           *)
LEMMA OwedKept ==
    ASSUME Copies, NEW w \in Workers, Actor(w), NEW e \in Events, NEW d,
           OwedAt(e, d)', got'[e][d] = got[e][d], Stored(e, d)' = Stored(e, d),
           ~(Sending(w) /\ ev[w].id = e /\ dest[w] = d /\ Live(w, e))
    PROVE  OwedAt(e, d)
<1>1. d \in Pending(e)
    BY ActorStored DEF OwedAt, Copies
<1>2. Has(e, d, Stored(e, d))
    BY DEF OwedAt, Has, Part
<1>3. ~Covered(e, d)
  <2>. SUFFICES ASSUME NEW u \in Workers, Sending(u), ev[u].id = e, dest[u] = d, Live(u, e)
                PROVE  FALSE
      BY DEF Covered
  <2>1. u # w
      OBVIOUS
  <2>2. pc'[u] = pc[u] /\ ev'[u] = ev[u] /\ dest'[u] = dest[u] /\ Live(u, e)'
      BY <2>1, Bystander
  <2>. QED
      BY <2>2 DEF OwedAt, Covered, Sending
<1>. QED
    BY <1>1, <1>2, <1>3 DEF OwedAt

(* What a worker does changes nothing at the destinations that it does not  *)
(* serve.                                                                   *)
LEMMA Apart ==
    ASSUME Copies, NEW w \in Workers, Actor(w), NEW e \in Events, NEW d \in Destinations,
           ~(InVisit(w) /\ ev[w].id = e /\ dest[w] = d)
    PROVE  /\ NewAt(e, d) => NewAt(e, d)'
           /\ OwedAt(e, d)' => OwedAt(e, d)
<1>1. got'[e][d] = got[e][d]
  <2>1. CASE Send(w)
    <3>1. InVisit(w) /\ ev[w].id \in Events /\ dest[w] \in Destinations
        BY <2>1, MessageType DEF Send, InVisit, Busy, Copies
    <3>. QED
        BY <2>1, <3>1 DEF Send, Receive, Copies, TypeInv, TypeOK
  <2>. QED
      BY <2>1, ActorGot
<1>2. ~((pc[w] = "send" \/ Sending(w)) /\ ev[w].id = e /\ dest[w] = d)
    BY DEF Sending, InVisit, Busy
<1>3. NewAt(e, d) => NewAt(e, d)'
    BY <1>1, <1>2, NewKept
<1>4. ASSUME OwedAt(e, d)'
      PROVE  OwedAt(e, d)
  <2>1. d \in Pending(e)'
      BY <1>4 DEF OwedAt
  <2>2. Stored(e, d)' = Stored(e, d)
      BY <2>1, ActorStored DEF Writes, InVisit, Busy, Copies
  <2>. QED
      BY <1>1, <1>2, <1>4, <2>2, OwedKept
<1>. QED
    BY <1>3, <1>4

(* A step that adds no sender and nothing owed, and takes nothing new away, *)
(* costs nothing.                                                           *)
LEMMA QuietStep ==
    ASSUME Charged, dups \in Nat, faults \in Nat, faults' \in Nat,
           dups' = dups, faults' >= faults,
           \A u \in Workers : pc'[u] = "send" => pc[u] = "send",
           \A e \in Events : \A d \in Destinations :
               /\ NewAt(e, d) => NewAt(e, d)'
               /\ OwedAt(e, d)' => OwedAt(e, d)
    PROVE  Charged'
<1>1. Senders' \subseteq Senders /\ New \subseteq New' /\ Owed' \subseteq Owed
    BY DEF Senders, New, Owed
<1>2. /\ Cardinality(Senders') <= Cardinality(Senders)
      /\ Cardinality(New) <= Cardinality(New')
      /\ Cardinality(Owed') <= Cardinality(Owed)
    BY <1>1, FiniteCharge, FS_Subset
<1>. QED
    BY <1>2, FiniteCharge DEF Charged

(* The first message that a save announces was owed before, or is new.      *)
LEMMA SaveCharge ==
    ASSUME Copies, NEW w \in Workers, Save(w), CanSave(w, ev[w].id, dest[w]),
           NEW e \in Events, NEW d \in Destinations, e = ev[w].id, d = dest[w]
    PROVE  Share(w, e, d)' <= Share(w, e, d)
<1>1. PICK k : k = state[w].chunk
    OBVIOUS
<1>2. /\ pc[w] = "save" /\ InVisit(w) /\ state[w] \in Delivery /\ k \in Nat
      /\ d \in Pending(e) /\ Holds(w, e) /\ SaveState(e, d, state[w])
      /\ pc'[w] = "send" /\ ev'[w] = ev[w] /\ dest'[w] = dest[w] /\ state'[w] = state[w]
      /\ Typed /\ got' = got
    BY <1>1, MessageType DEF Save, SaveThen, Goto, CanSave, InVisit, Busy, ghostVars,
       Copies, TypeInv, TypeOK, Typed
<1>3. Stored(e, d) = k /\ Stored(e, d)' = k
    BY <1>1, <1>2, SaveStateEffect DEF Stored, Copies, Exact, ExactFor
<1>4. Live(w, e)'
    BY <1>2, SaveStateEffect, DispatchAssumption DEF Live, Holds
<1>5. ~OwedAt(e, d)'
    BY <1>2, <1>4 DEF OwedAt, Covered, Sending
<1>6. ASSUME NEW u \in Workers, Holds(u, e)
      PROVE  pc[u] = "save"
    BY <1>2, <1>6 DEF Holds
<1>7. ~NewAt(e, d)
    BY <1>2, <1>6 DEF NewAt, Guarded, Live, Holds
<1>8. ~Covered(e, d)
    BY <1>6 DEF Covered, Live, Sending
<1>9. CASE Has(e, d, k)
  <2>1. OwedAt(e, d)
      BY <1>2, <1>3, <1>8, <1>9 DEF OwedAt
  <2>. QED
      BY <1>2, <1>5, <1>7, <2>1 DEF Share, One
<1>10. CASE ~Has(e, d, k)
  <2>1. ~Has(e, d, k)' /\ Guarded(w)'
      BY <1>2, <1>4, <1>10 DEF Has, Guarded
  <2>2. NewAt(e, d)'
      BY <1>1, <1>2, <2>1 DEF NewAt
  <2>. QED
      BY <1>2, <1>5, <1>7, <2>2 DEF Share, One
<1>. QED
    BY <1>9, <1>10

(* A message that was received before costs what its sender stood for; one  *)
(* that was not is no longer new.                                           *)
LEMMA SendCharge ==
    ASSUME Steady, Copies, Receipts, [Next]_vars, NEW w \in Workers, Send(w),
           NEW e \in Events, NEW d \in Destinations, e = ev[w].id, d = dest[w]
    PROVE  dups' + Share(w, e, d)' - Share(w, e, d) <= faults' - faults + dups
<1>1. PICK k : k = state[w].chunk
    OBVIOUS
<1>2. /\ pc[w] = "send" /\ InVisit(w) /\ Sending(w) /\ Actor(w) /\ events' = events
      /\ ev'[w] = ev[w] /\ dest'[w] = dest[w]
      /\ pc'[w] \in {"progress", "finish", "fail"} /\ dups \in Nat /\ faults \in Nat
    BY DEF Send, Goto, queueVars, InVisit, Busy, Sending, Actor, DrainStep, Copies, TypeInv,
       TypeOK
<1>3. Message(w) = Part(e, d, k)
    BY <1>1, <1>2, SamePlan DEF Message, Part, Receipts, VisitReached, Copies
<1>4. Stored(e, d)' = Stored(e, d) /\ Pending(e)' = Pending(e)
    BY <1>2 DEF Stored, Pending
<1>5. /\ Live(w, e) => Live(w, e)'
      /\ \A u \in Workers \ {w} : Sending(u) /\ ev[u].id = e /\ dest[u] = d /\ Live(u, e) =>
           Sending(u)' /\ ev'[u].id = e /\ dest'[u] = d /\ Live(u, e)'
  <2>1. Live(w, e) => Live(w, e)'
      BY <1>2 DEF Live, Holds
  <2>2. ASSUME NEW u \in Workers \ {w}, Sending(u), ev[u].id = e, dest[u] = d, Live(u, e)
        PROVE  Sending(u)' /\ ev'[u].id = e /\ dest'[u] = d /\ Live(u, e)'
      BY <1>2, <2>2, Bystander DEF Sending
  <2>. QED
      BY <2>1, <2>2
<1>6. pc'[w] # "fail" /\ Covered(e, d) => Covered(e, d)'
  <2>. SUFFICES ASSUME pc'[w] # "fail", NEW u \in Workers,
                       Sending(u), ev[u].id = e, dest[u] = d, Live(u, e)
                PROVE  Sending(u)' /\ ev'[u].id = e /\ dest'[u] = d /\ Live(u, e)'
      BY DEF Covered
  <2>. QED
      BY <1>2, <1>5 DEF Sending
<1>7. ASSUME Has(e, d, k)
      PROVE  got' = got /\ (NewAt(e, d) => NewAt(e, d)')
  <2>0. got[e][d] \cup {Message(w)} = got[e][d]
      BY <1>3, <1>7 DEF Has
  <2>1. got' = got
    <3>1. CASE Receive(w)
      <4>1. got' = [got EXCEPT ![e][d] = got[e][d]]
          BY <2>0, <3>1 DEF Receive
      <4>. QED
          BY <4>1 DEF Copies, TypeInv, TypeOK
    <3>. QED
        BY <3>1 DEF Send
  <2>. QED
      BY <1>1, <1>2, <1>7, <2>1, NewKept
<1>8. CASE pc'[w] # "fail"
  <2>1. Receive(w) /\ faults' = faults
      BY <1>2, <1>8 DEF Send, Goto, Copies, TypeInv, TypeOK
  <2>2. CASE Has(e, d, k)
    <3>1. dups' = dups + 1
        BY <1>3, <2>1, <2>2 DEF Receive, Has
    <3>2. OwedAt(e, d)' => OwedAt(e, d)
        BY <1>4, <1>6, <1>7, <1>8, <2>2 DEF OwedAt, Has
    <3>. QED
        BY <1>2, <1>7, <2>1, <2>2, <3>1, <3>2 DEF Share, One
  <2>3. CASE ~Has(e, d, k)
    <3>1. dups' = dups
        BY <1>3, <2>1, <2>3 DEF Receive, Has
    <3>2. OwedAt(e, d)' => ~NewAt(e, d)
      <4>. SUFFICES ASSUME OwedAt(e, d)', NEW u \in Workers, pc[u] = "send", ev[u].id = e,
                           dest[u] = d, Guarded(u)
                    PROVE  FALSE
          BY DEF NewAt
      <4>1. events[e] # None
          BY <1>4 DEF OwedAt, Pending
      <4>2. Covered(e, d)
          BY <4>1 DEF Guarded, Covered, Sending
      <4>. QED
          BY <1>6, <1>8, <4>2 DEF OwedAt
    <3>. QED
        BY <1>2, <2>1, <3>1, <3>2 DEF Share, One
  <2>. QED
      BY <2>2, <2>3
<1>9. CASE pc'[w] = "fail" /\ faults' = faults /\ got' = got /\ dups' = dups
  <2>1. CASE Has(e, d, k)
      BY <1>2, <1>7, <1>9, <2>1 DEF Share, One
  <2>2. CASE ~Has(e, d, k)
    <3>1. OwedAt(e, d)' => OwedAt(e, d)
      <4>. SUFFICES ASSUME OwedAt(e, d)', ~OwedAt(e, d)
                    PROVE  FALSE
          OBVIOUS
      <4>1. d \in Pending(e) /\ Has(e, d, Stored(e, d))
          BY <1>4, <1>9 DEF OwedAt, Has
      <4>2. Live(w, e)
          BY <1>2, <1>4, <1>9, OwedKept
      <4>3. Stored(e, d) = k
          BY <1>1, <1>2, <4>1, <4>2 DEF Live, CanSave, Copies, Exact, ExactFor
      <4>. QED
          BY <2>2, <4>1, <4>3
    <3>. QED
        BY <1>2, <1>9, <3>1 DEF Share, One
  <2>. QED
      BY <2>1, <2>2
<1>10. CASE pc'[w] = "fail" /\ faults' = faults + 1
  <2>1. CASE Has(e, d, k)
    <3>1. dups' \in {dups, dups + 1}
        BY DEF Send, Receive
    <3>. QED
        BY <1>2, <1>7, <1>10, <2>1, <3>1 DEF Share, One
  <2>2. CASE ~Has(e, d, k)
    <3>1. dups' = dups
        BY <1>3, <2>2 DEF Send, Receive, Has
    <3>. QED
        BY <1>2, <1>10, <3>1 DEF Share, One
  <2>. QED
      BY <2>1, <2>2
<1>. QED
    BY <1>2, <1>8, <1>9, <1>10 DEF Send, Fault, Goto, Copies, TypeInv, TypeOK

(* The other steps of a visit store what was received, or leave at most one *)
(* message owed when something fails.                                       *)
LEMMA VisitCharge ==
    ASSUME Steady, Copies, Receipts, NearStored, [Next]_vars, NEW w \in Workers, Actor(w),
           InVisit(w), ~Send(w), NEW e \in Events, NEW d \in Destinations,
           e = ev[w].id, d = dest[w]
    PROVE  dups' + Share(w, e, d)' - Share(w, e, d) <= faults' - faults + dups
<1>1. PICK k : k = state[w].chunk
    OBVIOUS
<1>2. /\ got' = got /\ dups' = dups /\ dups \in Nat /\ faults \in Nat /\ k \in Nat /\ Typed
      /\ faults' \in Nat /\ faults' >= faults
    BY <1>1, ActorGot, MessageType, FaultsCounted DEF Copies, TypeInv, TypeOK, Typed
<1>3. pc[w] # "send" => (NewAt(e, d) => NewAt(e, d)')
    BY <1>2, NewKept
<1>0. Share(w, e, d) \in Int /\ Share(w, e, d)' \in Int
    BY DEF Share, One
<1>4. ASSUME pc[w] # "send", pc'[w] # "send", OwedAt(e, d)' => OwedAt(e, d)
      PROVE  Share(w, e, d)' <= Share(w, e, d)
    BY <1>3, <1>4 DEF Share, One
<1>5. CASE Save(w) /\ CanSave(w, e, d)
    BY <1>2, <1>5, <1>0, SaveCharge
<1>6. CASE (Save(w) \/ Progress(w) \/ Fail(w) \/ Served(w)) /\ ~CanSave(w, e, d)
  <2>1. events' = events /\ pc'[w] = "key" /\ pc[w] # "send"
      BY <1>6 DEF Save, Progress, Fail, SaveThen, Served, Goto, Copies, TypeInv, TypeOK
  <2>2. OwedAt(e, d)' => OwedAt(e, d)
    <3>1. CASE Live(w, e)
      <4>1. d \notin Pending(e)'
          BY <1>6, <2>1, <3>1 DEF Live, CanSave, Pending
      <4>. QED
          BY <4>1 DEF OwedAt
    <3>2. CASE ~Live(w, e)
      <4>1. Stored(e, d)' = Stored(e, d)
          BY <2>1 DEF Stored
      <4>. QED
          BY <1>2, <3>2, <4>1, OwedKept
    <3>. QED
        BY <3>1, <3>2
  <2>. QED
      BY <1>2, <1>0, <1>4, <2>1, <2>2
<1>7. CASE Progress(w) /\ CanSave(w, e, d)
  <2>1. /\ pc[w] = "progress" /\ pc'[w] = "save" /\ SaveState(e, d, state[w])
        /\ d \in Pending(e) /\ state[w] \in Delivery
      BY <1>7, MessageType DEF Progress, SaveThen, Goto, CanSave, Copies, TypeInv, TypeOK
  <2>2. Stored(e, d)' = k /\ k = Stored(e, d) + 1 /\ Stored(e, d) \in Nat
      BY <1>1, <1>2, <1>7, <2>1, SaveStateEffect, PendingType
         DEF Stored, Copies, Exact, ExactFor
  <2>3. k < Size(e, d)
      BY <1>1, <2>1 DEF Receipts, VisitReached, Reached
  <2>4. ~Has(e, d, k)
      BY <1>2, <2>1, <2>2, <2>3 DEF NearStored
  <2>5. ~OwedAt(e, d)'
      BY <1>2, <2>2, <2>4 DEF OwedAt, Has
  <2>. QED
      BY <1>2, <1>0, <1>4, <2>1, <2>5
<1>8. CASE Fail(w) /\ CanSave(w, e, d)
  <2>1. /\ pc[w] = "fail" /\ pc'[w] = "key" /\ SaveState(e, d, AfterRefusal(state[w]))
        /\ d \in Pending(e) /\ state[w] \in Delivery
      BY <1>8, MessageType DEF Fail, SaveThen, Goto, CanSave, Copies, TypeInv, TypeOK
  <2>2. AfterRefusal(state[w]) \in Delivery /\ AfterRefusal(state[w]).chunk = k
      BY <1>1, <2>1, StateTypes
  <2>3. Stored(e, d)' = Stored(e, d)
      BY <1>1, <1>2, <1>8, <2>1, <2>2, SaveStateEffect DEF Stored, Copies, Exact, ExactFor
  <2>4. OwedAt(e, d)' => OwedAt(e, d)
      BY <1>2, <2>1, <2>3, OwedKept DEF Sending
  <2>. QED
      BY <1>2, <1>0, <1>4, <2>1, <2>4
<1>9. CASE Served(w) /\ CanSave(w, e, d)
  <2>1. /\ pc[w] = "finish" /\ pc'[w] = "key" /\ SaveServed(e, d) /\ d \in Pending(e)
      BY <1>9 DEF Served, Goto, CanSave, Copies, TypeInv, TypeOK
  <2>2. d \notin Pending(e)'
      BY <1>2, <2>1, SaveServedEffect
  <2>3. ~OwedAt(e, d)'
      BY <2>2 DEF OwedAt
  <2>. QED
      BY <1>2, <1>0, <1>4, <2>1, <2>3
<1>10. CASE Crash(w) \/ IOError(w) \/ SkipRelease(w)
  <2>1. faults' = faults + 1 /\ pc'[w] # "send"
      BY <1>10, FaultsCounted DEF Crash, Fresh, IOError, SkipRelease, Goto, Copies, TypeInv, TypeOK
  <2>. QED
      BY <1>2, <1>3, <2>1 DEF Share, One
<1>11. CASE Cancel(w)
  <2>1. /\ faults' = faults + 1 /\ pc' = pc /\ ev' = ev /\ dest' = dest /\ state' = state
        /\ events' = events
      BY <1>11, FaultsCounted DEF Cancel, queueVars, drainVars, Copies
  <2>2. NewAt(e, d)' <=> NewAt(e, d)
      BY <1>2, <2>1 DEF NewAt, Guarded, Live, Holds, Has
  <2>. QED
      BY <1>2, <2>1, <2>2 DEF Share, One
<1>12. ~Claim(w) /\ ~Loop(w) /\ ~Visit(w) /\ ~Release(w) /\ ~ReleaseRest(w) /\ ~Exit(w)
    BY DEF InVisit, Busy, Claim, Loop, Visit, Release, ReleaseRest, Exit
<1>. QED
    BY <1>1, <1>2, <1>5, <1>6, <1>7, <1>8, <1>9, <1>10, <1>11, <1>12 DEF Actor, DrainStep

LEMMA ActorCharge ==
    ASSUME Steady, Copies, Copies', Receipts, NearStored, Charged, [Next]_vars,
           NEW w \in Workers, Actor(w)
    PROVE  Charged'
<1>1. /\ dups \in Nat /\ faults \in Nat /\ dups' \in Nat /\ faults' \in Nat
      /\ faults' >= faults
    BY FaultsCounted DEF Copies, TypeInv, TypeOK
<1>2. \A u \in Workers \ {w} : pc'[u] = pc[u]
    BY OthersStill DEF Still, Copies, TypeInv
<1>3. CASE InVisit(w)
  <2>1. PICK e, d : e = ev[w].id /\ d = dest[w]
      OBVIOUS
  <2>2. e \in Events /\ d \in Destinations
      BY <1>3, <2>1, MessageType DEF Copies
  <2>3. NewElse(e, d) /\ OwedElse(e, d)
      BY <2>1, Apart DEF NewElse, OwedElse
  <2>4. dups' + Share(w, e, d)' - Share(w, e, d) <= faults' - faults + dups
      BY <1>3, <2>1, <2>2, SendCharge, VisitCharge
  <2>. QED
      BY <1>1, <1>2, <2>2, <2>3, <2>4, Account
<1>4. CASE ~InVisit(w)
  <2>1. ~Send(w) /\ ~Save(w)
      BY <1>4 DEF Send, Save, InVisit, Busy
  <2>2. pc'[w] # "send"
      BY <1>4, <2>1, ComesToSend DEF InVisit, Busy
  <2>3. dups' = dups
      BY <2>1, ActorGot
  <2>. QED
      BY <1>1, <1>2, <1>4, <2>2, <2>3, Apart, QuietStep
<1>. QED
    BY <1>3, <1>4

(* An image is no larger than the set it is taken of.                       *)
LEMMA NoMore ==
    ASSUME NEW S, IsFiniteSet(S), NEW T, NEW f, \A t \in T : \E s \in S : f[s] = t
    PROVE  IsFiniteSet(T) /\ Cardinality(T) <= Cardinality(S)
<1>. DEFINE R == {s \in S : f[s] \in T}
            g == [s \in R |-> f[s]]
<1>1. g \in Surjection(R, T)
    BY DEF Surjection
<1>2. /\ IsFiniteSet(R) /\ Cardinality(R) <= Cardinality(S)
      /\ Cardinality(R) \in Nat /\ Cardinality(S) \in Nat
    BY FS_Subset, FS_CardinalityType
<1>. HIDE DEF R, g
<1>3. IsFiniteSet(T) /\ Cardinality(T) <= Cardinality(R)
    BY <1>1, <1>2, FS_Surjection
<1>. QED
    BY <1>2, <1>3, FS_CardinalityType

(* A tick takes away the time of the workers it overruns: each of them at   *)
(* the one destination that it serves.                                      *)
LEMMA TickCharge ==
    ASSUME Copies, Charged, Tick
    PROVE  Charged'
<1>. TypeInv /\ TypeOK /\ Typed
    BY DEF Copies, TypeInv, TypeOK, Typed
<1>. DEFINE Pair == [w \in Workers |-> <<ev[w].id, dest[w]>>]
            Lost == (New \ New') \cup (Owed' \ Owed)
<1>1. /\ got' = got /\ dups' = dups /\ faults' = faults + Cardinality(Overrun)
      /\ pc' = pc /\ dest' = dest /\ state' = state
      /\ \A e \in Events : Pending(e)' = Pending(e) /\ ((events'[e] = None) <=> (events[e] = None))
      /\ \A e \in Events : \A d \in Pending(e) : Stored(e, d)' = Stored(e, d)
    BY TickHands, TickEffect DEF Tick
<1>2. \A u \in Workers : Sending(u) => ev'[u].id = ev[u].id /\ ev[u].id \in Events /\ InVisit(u)
    BY TickHands, CopiesInRange, SendInDrain DEF TickCopy
<1>3. ASSUME NEW u \in Workers, Sending(u), u \notin Overrun
      PROVE  /\ Guarded(u) => Guarded(u)'
             /\ \A e \in Events : Live(u, e) /\ ev[u].id = e => Live(u, e)'
  <2>1. PICK e : e = ev[u].id
      OBVIOUS
  <2>2. Elsewhere(u) /\ InDrain(u)
      BY <1>3, SendInDrain DEF Elsewhere
  <2>3. Guarded(u) => Guarded(u)'
      BY <2>2, GuardKept
  <2>4. ASSUME Live(u, e)
        PROVE  Live(u, e)'
    <3>1. Guarded(u)' /\ events'[e] # None /\ ev'[u].id = e
        BY <1>1, <1>2, <1>3, <2>1, <2>3, <2>4 DEF Guarded, Live, Holds
    <3>. QED
        BY <3>1 DEF Guarded
  <2>. QED
      BY <2>1, <2>3, <2>4
<1>4. ASSUME NEW e \in Events, NEW d \in Destinations, NewAt(e, d), ~NewAt(e, d)'
      PROVE  \E u \in Overrun : Pair[u] = <<e, d>>
  <2>1. PICK u \in Workers : /\ pc[u] = "send" /\ ev[u].id = e /\ dest[u] = d
                             /\ Guarded(u) /\ ~Has(e, d, state[u].chunk)
      BY <1>4 DEF NewAt
  <2>2. Sending(u) /\ ~Guarded(u)'
      BY <1>1, <1>2, <1>4, <2>1 DEF NewAt, Has, Sending
  <2>. QED
      BY <1>3, <2>1, <2>2
<1>5. ASSUME NEW e \in Events, NEW d \in Destinations, OwedAt(e, d)', ~OwedAt(e, d)
      PROVE  /\ \E u \in Overrun : Pair[u] = <<e, d>>
             /\ ~NewAt(e, d)
  <2>1. d \in Pending(e) /\ Has(e, d, Stored(e, d)) /\ ~Covered(e, d)'
      BY <1>1, <1>5 DEF OwedAt, Has
  <2>2. PICK u \in Workers : Sending(u) /\ ev[u].id = e /\ dest[u] = d /\ Live(u, e)
      BY <1>5, <2>1 DEF OwedAt, Covered
  <2>3. ~Live(u, e)'
      BY <1>1, <1>2, <2>1, <2>2 DEF Covered, Sending
  <2>4. ~NewAt(e, d)
    <3>. SUFFICES ASSUME NEW v \in Workers, pc[v] = "send", ev[v].id = e, dest[v] = d,
                         Guarded(v), ~Has(e, d, state[v].chunk)
                  PROVE  FALSE
        BY DEF NewAt
    <3>1. Holds(v, e)
        BY <2>2 DEF Guarded, Live, Holds
    <3>2. state[v].chunk = Stored(e, d)
        BY <2>1, <3>1 DEF CanSave, Copies, Exact, ExactFor, InVisit, Busy
    <3>. QED
        BY <2>1, <3>2
  <2>. QED
      BY <1>3, <2>2, <2>3, <2>4
<1>6. \A x \in Lost : \E u \in Overrun : Pair[u] = x
  <2>. SUFFICES ASSUME NEW x \in Lost
                PROVE  \E u \in Overrun : Pair[u] = x
      OBVIOUS
  <2>1. PICK e \in Events, d \in Destinations : x = <<e, d>>
      BY DEF New, Owed
  <2>2. \/ NewAt(e, d) /\ ~NewAt(e, d)'
        \/ OwedAt(e, d)' /\ ~OwedAt(e, d)
      BY <2>1 DEF New, Owed
  <2>. HIDE DEF Pair
  <2>. QED
      BY <1>4, <1>5, <2>1, <2>2
<1>7. (New \ New') \cap (Owed' \ Owed) = {}
    BY <1>5 DEF New, Owed
<1>8. Senders' = Senders
    BY <1>1 DEF Senders
<1>. HIDE DEF Pair
<1>9. /\ IsFiniteSet(Overrun) /\ Cardinality(Overrun) \in Nat
      /\ Cardinality(Lost) <= Cardinality(Overrun)
  <2>1. IsFiniteSet(Overrun)
      BY DispatchAssumption, FS_Subset DEF Overrun
  <2>. QED
      BY <1>6, <2>1, NoMore, FS_CardinalityType
<1>10. /\ Cardinality(Lost) = Cardinality(New \ New') + Cardinality(Owed' \ Owed)
       /\ Cardinality(New) <= Cardinality(New') + Cardinality(New \ New')
       /\ Cardinality(Owed') <= Cardinality(Owed) + Cardinality(Owed' \ Owed)
       /\ Cardinality(Lost) \in Nat
       /\ Cardinality(New \ New') \in Nat /\ Cardinality(Owed' \ Owed) \in Nat
  <2>1. ASSUME NEW A, NEW B, IsFiniteSet(A), IsFiniteSet(B)
        PROVE  /\ Cardinality(A) <= Cardinality(B) + Cardinality(A \ B)
               /\ IsFiniteSet(A \ B) /\ Cardinality(A \ B) \in Nat
    <3>1. IsFiniteSet(A \ B) /\ Cardinality(A \ B) = Cardinality(A) - Cardinality(A \cap B)
        BY <2>1, FS_Difference
    <3>2. A \cap B \in SUBSET B
        OBVIOUS
    <3>3. IsFiniteSet(A \cap B) /\ Cardinality(A \cap B) <= Cardinality(B)
        BY <2>1, <3>2, FS_Subset
    <3>. QED
        BY <2>1, <3>1, <3>3, FS_CardinalityType
  <2>2. /\ IsFiniteSet(New \ New') /\ IsFiniteSet(Owed' \ Owed)
        /\ Cardinality(New) <= Cardinality(New') + Cardinality(New \ New')
        /\ Cardinality(Owed') <= Cardinality(Owed) + Cardinality(Owed' \ Owed)
        /\ Cardinality(New \ New') \in Nat /\ Cardinality(Owed' \ Owed) \in Nat
      BY <2>1, FiniteCharge
  <2>3. /\ IsFiniteSet(Lost)
        /\ Cardinality(Lost) = Cardinality(New \ New') + Cardinality(Owed' \ Owed)
                                 - Cardinality((New \ New') \cap (Owed' \ Owed))
      BY <2>2, FS_Union
  <2>4. Cardinality((New \ New') \cap (Owed' \ Owed)) = 0
      BY <1>7, FS_EmptySet
  <2>. QED
      BY <2>2, <2>3, <2>4
<1>. HIDE DEF Lost
<1>. QED
    BY <1>1, <1>8, <1>9, <1>10, FiniteCharge DEF Charged, TypeOK

LEMMA ChargedStep ==
    ASSUME Steady, Copies, Copies', Receipts, NearStored, Charged, [Next]_vars
    PROVE  Charged'
<1>. TypeInv /\ TypeOK /\ Typed
    BY DEF Copies, TypeInv, TypeOK, Typed
<1>1. ASSUME NEW f \in Events, Enqueue(f) \/ Drop(f)
      PROVE  Charged'
  <2>1. /\ got' = got /\ dups' = dups /\ faults' = faults /\ Typed'
        /\ \A u \in Workers : Still(u)
      BY <1>1, EnqueueEffect, DropEffect DEF Enqueue, Drop, ghostVars
  <2>2. \A e \in enqueued : events'[e] \in {None, events[e]}
      BY <1>1, EnqueueEffect, DropEffect DEF TypeOK
  <2>3. ASSUME NEW u \in Workers, Sending(u)
        PROVE  ev[u].id \in enqueued
      BY <2>3, SendInDrain DEF Copies, Known, KnownFor
  <2>4. ASSUME NEW e \in Events, NEW d \in Destinations, NewAt(e, d)
        PROVE  NewAt(e, d)'
    <3>1. PICK u \in Workers : /\ pc[u] = "send" /\ ev[u].id = e /\ dest[u] = d
                               /\ Guarded(u) /\ ~Has(e, d, state[u].chunk)
        BY <2>4 DEF NewAt
    <3>2. Guarded(u)'
        BY <2>1, <2>2, <2>3, <3>1 DEF Guarded, Live, Holds, Still, Sending
    <3>. QED
        BY <2>1, <3>1, <3>2 DEF NewAt, Has, Still
  <2>5. ASSUME NEW e \in Events, NEW d \in Destinations, OwedAt(e, d)'
        PROVE  OwedAt(e, d)
    <3>1. CASE e \in enqueued
      <4>1. events'[e] = events[e]
          BY <2>2, <2>5, <3>1 DEF OwedAt, Pending
      <4>2. Covered(e, d) => Covered(e, d)'
          BY <2>1, <4>1 DEF Covered, Live, Holds, Still, Sending
      <4>. QED
          BY <2>1, <2>5, <4>1, <4>2 DEF OwedAt, Has, Pending, Stored
    <3>2. CASE e \notin enqueued
      <4>1. got'[e][d] = {}
          BY <2>1, <3>2 DEF Receipts
      <4>. QED
          BY <2>5, <4>1 DEF OwedAt, Has
    <3>. QED
        BY <3>1, <3>2
  <2>. QED
      BY <2>1, <2>4, <2>5, QuietStep DEF Still, TypeOK
<1>2. CASE EditProviders \/ UNCHANGED vars
  <2>1. /\ events' = events /\ pc' = pc /\ ev' = ev /\ dest' = dest /\ state' = state
        /\ got' = got /\ dups' = dups /\ faults' = faults
      BY <1>2 DEF EditProviders, vars, queueVars, drainVars, ghostVars
  <2>2. \A e \in Events : \A d \in Destinations :
          (NewAt(e, d)' <=> NewAt(e, d)) /\ (OwedAt(e, d)' <=> OwedAt(e, d))
      BY <2>1 DEF NewAt, OwedAt, Covered, Guarded, Live, Holds, Has, Pending, Stored, Sending
  <2>. QED
      BY <2>1, <2>2, QuietStep DEF TypeOK
<1>. QED
    BY <1>1, <1>2, ActorCharge, TickCharge, NextCases

(* While the providers file is steady, every repeated message is paid for   *)
(* by a fault: a crash, a lost answer, a transaction that failed, a drain   *)
(* that was cancelled, or a worker whose lease ran out in the middle of a   *)
(* send.                                                                    *)
THEOREM RepeatsArePaidFor ==
    ASSUME Steady
    PROVE  Spec => []DuplicatesNeedFaults
<1>1. Init => NearStored /\ Charged
  <2>. SUFFICES ASSUME Init
                PROVE  NearStored /\ Charged
      OBVIOUS
  <2>1. \A e \in Events : Pending(e) = {}
      BY DEF Init, Pending
  <2>2. Senders = {} /\ Owed = {} /\ NearStored
      BY <2>1 DEF Init, Senders, Owed, OwedAt, NearStored
  <2>3. dups = 0 /\ faults = 0
      BY DEF Init
  <2>. QED
      BY <2>2, <2>3, FS_EmptySet, FiniteCharge DEF Charged
<1>2. Copies /\ Receipts /\ NearStored /\ [Next]_vars => NearStored'
    BY NearStoredStep
<1>3. Copies /\ Copies' /\ Receipts /\ NearStored /\ Charged /\ [Next]_vars => Charged'
    BY ChargedStep
<1>4. ASSUME Copies, Charged
      PROVE  DuplicatesNeedFaults
  <2>. DEFINE Pair == [w \in Workers |-> <<ev[w].id, dest[w]>>]
  <2>1. \A x \in New : \E w \in Senders : Pair[w] = x
    <3>1. \A x \in Events \X Destinations : x = <<x[1], x[2]>>
        OBVIOUS
    <3>. QED
        BY <3>1 DEF New, NewAt, Senders
  <2>. HIDE DEF Pair
  <2>2. Cardinality(New) <= Cardinality(Senders)
      BY <2>1, FiniteCharge, NoMore
  <2>3. dups \in Nat /\ faults \in Nat
      BY <1>4 DEF Copies, TypeInv, TypeOK
  <2>. QED
      BY <1>4, <2>2, <2>3, FiniteCharge DEF Charged, DuplicatesNeedFaults
<1>. QED
    BY <1>1, <1>2, <1>3, <1>4, CopiesHold, ReceiptsHold, PTL DEF Spec
================================================================================
