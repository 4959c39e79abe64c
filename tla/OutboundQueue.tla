---------------------------- MODULE OutboundQueue ----------------------------
(***************************************************************************)
(* The outbound band queue of a Connection (lib/connection/queue.js).      *)
(*                                                                         *)
(* One storage object per band: an array behind a head cursor for the      *)
(* Emergency, Control and Bulk bands, an insertion-ordered Map for the     *)
(* Liveness and Streaming bands.  `store' holds both as sequences and      *)
(* `cursor' counts the dead slots in front of an array (always 0 for a     *)
(* Map).  `counts' is the code's own occupancy table, kept apart from the  *)
(* storage because the capacity checks read it and nothing else.           *)
(***************************************************************************)
EXTENDS Integers, Sequences, SequencesExt

CONSTANTS
  Requests,         \* the EnqueueRequests the callers may make
  Capacity,         \* depth cap of the four capped bands (DEFAULT_CAPACITY)
  AgeStep,          \* clock units per one-band promotion (AGE_STEP_MS)
  ClockMayStepBack, \* TRUE: the injected clock is a wall clock that may be set back
  NoItem,           \* what dequeue returns on an empty queue (null)
  MaxSeq,           \* bound: enqueue calls in a behaviour
  MaxNow            \* bound: clock readings

EMERGENCY == 0
LIVENESS  == 1
CONTROL   == 2
STREAMING == 3
BULK      == 4

Bands      == 0..4
ArrayBands == {EMERGENCY, CONTROL, BULK}
MapBands   == {LIVENESS, STREAMING}
CappedBands == Bands \ {LIVENESS}

AGE_CLAMP_BAND == CONTROL

\* A request names a band; a band outside Bands is accepted and ignored.
ASSUME RequestsAssumption ==
  \A r \in Requests : DOMAIN r = {"band", "identityId", "name", "target", "value"}
ASSUME CapacityAssumption ==
  /\ DOMAIN Capacity = CappedBands
  /\ \A b \in CappedBands : Capacity[b] \in Nat \ {0}
ASSUME ClockAssumption ==
  AgeStep \in Nat \ {0} /\ ClockMayStepBack \in BOOLEAN
ASSUME BoundsAssumption == MaxSeq \in Nat /\ MaxNow \in Nat

VARIABLES
  store,    \* [Bands -> Seq(item)]
  cursor,   \* [Bands -> Nat]  dead slots in front of an array band
  counts,   \* [Bands -> Nat]  occupancy as the code tracks it
  nextSeq,  \* the insertion counter _seq
  now,      \* what the injected clock reads
  outcome   \* what the last call returned or threw: [op, item]

vars == <<store, cursor, counts, nextSeq, now, outcome>>

\* The queue item built for request r before the band is looked at.
ItemOf(r) ==
  [band |-> r.band, identityId |-> r.identityId, name |-> r.name,
   target |-> r.target, value |-> r.value, enqueuedAt |-> now, seq |-> nextSeq]

Item ==
  [band : Bands, identityId : {r.identityId : r \in Requests},
   name : {r.name : r \in Requests}, target : {r.target : r \in Requests},
   value : {r.value : r \in Requests}, enqueuedAt : Nat, seq : Nat]

\* Positions of the live items of a band; the dead prefix is not queued.
Live(b)   == cursor[b] + 1 .. Len(store[b])
Queued(b) == {store[b][i] : i \in Live(b)}
AllQueued == UNION {Queued(b) : b \in Bands}
Occupied(b) == Live(b) # {}

-----------------------------------------------------------------------------
(* Selection *)

\* Mutant: the ageing clamp is lost and an old item rises to band 0.
EffectiveBandUnclamped(x) ==
  IF x.band <= AGE_CLAMP_BAND THEN x.band
  ELSE LET promoted == x.band - (now - x.enqueuedAt) \div AgeStep
       IN  IF promoted < EMERGENCY THEN EMERGENCY ELSE promoted

\* Mutant: bulk never ages.
EffectiveBandNoAgeing(x) == x.band

\* The band an item competes at: Streaming and Bulk rise one band per AgeStep,
\* never above Control; the quotient rounds toward minus infinity (Math.floor).
EffectiveBand(x) ==
  IF x.band <= AGE_CLAMP_BAND THEN x.band
  ELSE LET promoted == x.band - (now - x.enqueuedAt) \div AgeStep
       IN  IF promoted < AGE_CLAMP_BAND THEN AGE_CLAMP_BAND ELSE promoted

\* x is sent before y: a more urgent effective band, then first come.
Before(x, y) ==
  \/ EffectiveBand(x) < EffectiveBand(y)
  \/ EffectiveBand(x) = EffectiveBand(y) /\ x.seq < y.seq

BandHead(b) == store[b][cursor[b] + 1]

\* Mutant: the first band found wins a tie, whatever its insertion order.
BetterNoTieBreak(b, c) ==
  IF Occupied(c) /\ (~Occupied(b) \/ EffectiveBand(BandHead(c)) < EffectiveBand(BandHead(b)))
  THEN c ELSE b

\* One round of the selection loop: b is the best band so far, c the next one.
Better(b, c) ==
  IF Occupied(c) /\ (~Occupied(b) \/ Before(BandHead(c), BandHead(b))) THEN c ELSE b

\* The band whose head wins; meaningful when some band is occupied.
BestBand == Better(Better(Better(Better(EMERGENCY, LIVENESS), CONTROL), STREAMING), BULK)

-----------------------------------------------------------------------------
(* Enqueue *)

SameSlot(x, r) ==
  /\ x.identityId = r.identityId
  /\ r.band = STREAMING => x.name = r.name /\ x.target = r.target

\* Where the Map of r's band already holds r's key.
SlotsOf(r) == {i \in 1..Len(store[r.band]) : SameSlot(store[r.band][i], r)}

Accept(r) == nextSeq' = nextSeq + 1 /\ UNCHANGED <<now, cursor>>

\* Liveness: delete the identity's outstanding heartbeat, then insert at the tail.
EnqueueLiveness(r) ==
  /\ \/ \E i \in SlotsOf(r) :
          /\ store' = [store EXCEPT ![LIVENESS] = Append(RemoveAt(@, i), ItemOf(r))]
          /\ UNCHANGED counts
     \/ /\ SlotsOf(r) = {}
        /\ store' = [store EXCEPT ![LIVENESS] = Append(@, ItemOf(r))]
        /\ counts' = [counts EXCEPT ![LIVENESS] = @ + 1]
  /\ outcome' = [op |-> "accepted", item |-> ItemOf(r)]

\* Streaming: a queued key takes the new value and keeps its age and place.
CoalesceStreaming(r) ==
  \E i \in SlotsOf(r) :
    /\ store' = [store EXCEPT ![STREAMING][i].value = r.value]
    /\ UNCHANGED counts
    /\ outcome' = [op |-> "coalesced", item |-> store'[STREAMING][i]]

\* Streaming: a new key drops the oldest slot when the band is full.
InsertStreaming(r) ==
  /\ SlotsOf(r) = {}
  /\ \/ /\ counts[STREAMING] >= Capacity[STREAMING]
        /\ store' = [store EXCEPT ![STREAMING] = Append(Tail(@), ItemOf(r))]
        /\ UNCHANGED counts
     \/ /\ counts[STREAMING] < Capacity[STREAMING]
        /\ store' = [store EXCEPT ![STREAMING] = Append(@, ItemOf(r))]
        /\ counts' = [counts EXCEPT ![STREAMING] = @ + 1]
  /\ outcome' = [op |-> "accepted", item |-> ItemOf(r)]

\* Mutant: overflow drops the oldest control item, as Streaming does.
EnqueueBoundedDropsOldest(r) ==
  /\ counts[r.band] < Capacity[r.band] \/ cursor[r.band] = 0
  /\ store' = [store EXCEPT ![r.band] =
                 Append(IF counts[r.band] < Capacity[r.band] THEN @ ELSE Tail(@), ItemOf(r))]
  /\ counts' = [counts EXCEPT ![r.band] =
                 IF counts[r.band] < Capacity[r.band] THEN @ + 1 ELSE @]
  /\ outcome' = [op |-> "accepted", item |-> ItemOf(r)]

\* Emergency, Control, Bulk: room for one more, appended at the tail.
EnqueueBounded(r) ==
  /\ counts[r.band] < Capacity[r.band]
  /\ store' = [store EXCEPT ![r.band] = Append(@, ItemOf(r))]
  /\ counts' = [counts EXCEPT ![r.band] = @ + 1]
  /\ outcome' = [op |-> "accepted", item |-> ItemOf(r)]

\* Emergency, Control, Bulk at capacity: QueueOverflowError into the caller.
OverflowBounded(r) ==
  /\ counts[r.band] >= Capacity[r.band]
  /\ outcome' = [op |-> "overflow", item |-> NoItem]
  /\ UNCHANGED <<store, counts>>

\* enqueue(request).  _seq advances whatever becomes of the item.
Enqueue(r) ==
  /\ nextSeq < MaxSeq
  /\ Accept(r)
  /\ \/ r.band = LIVENESS  /\ EnqueueLiveness(r)
     \/ r.band = STREAMING /\ (CoalesceStreaming(r) \/ InsertStreaming(r))
     \/ r.band \in ArrayBands /\ (EnqueueBounded(r) \/ OverflowBounded(r))
     \/ /\ r.band \notin Bands
        /\ outcome' = [op |-> "ignored", item |-> NoItem]
        /\ UNCHANGED <<store, counts>>

-----------------------------------------------------------------------------
(* Dequeue, teardown, clock *)

\* Mutant: compaction drops the dead prefix and keeps the cursor.
RemoveHeadKeepsCursor(b) ==
  IF b \in MapBands
  THEN store' = [store EXCEPT ![b] = Tail(@)] /\ UNCHANGED cursor
  ELSE LET h == cursor[b] + 1 IN
       /\ store' = [store EXCEPT ![b] = IF 2 * h >= Len(@) THEN SubSeq(@, h + 1, Len(@)) ELSE @]
       /\ cursor' = [cursor EXCEPT ![b] = h]

\* A Map deletes its first entry; an array advances the cursor and gives the
\* dead prefix back once it is at least half of the array.
RemoveHead(b) ==
  IF b \in MapBands
  THEN store' = [store EXCEPT ![b] = Tail(@)] /\ UNCHANGED cursor
  ELSE LET h == cursor[b] + 1 IN
       IF 2 * h >= Len(store[b])
       THEN /\ store' = [store EXCEPT ![b] = SubSeq(@, h + 1, Len(@))]
            /\ cursor' = [cursor EXCEPT ![b] = 0]
       ELSE cursor' = [cursor EXCEPT ![b] = h] /\ UNCHANGED store

Dequeue ==
  /\ \E b \in Bands : Occupied(b)
  /\ RemoveHead(BestBand)
  /\ counts' = [counts EXCEPT ![BestBand] = @ - 1]
  /\ outcome' = [op |-> "dequeued", item |-> BandHead(BestBand)]
  /\ UNCHANGED <<nextSeq, now>>

DequeueEmpty ==
  /\ \A b \in Bands : ~Occupied(b)
  /\ outcome' = [op |-> "empty", item |-> NoItem]
  /\ UNCHANGED <<store, cursor, counts, nextSeq, now>>

Clear ==
  /\ store' = [b \in Bands |-> <<>>]
  /\ cursor' = [b \in Bands |-> 0]
  /\ counts' = [b \in Bands |-> 0]
  /\ outcome' = [op |-> "cleared", item |-> NoItem]
  /\ UNCHANGED <<nextSeq, now>>

\* Time passes between two calls; a wall clock may be set back (Date.now is the
\* default clock of the runtime).
Tick ==
  /\ \E t \in 0..MaxNow : (t = now + 1 \/ (ClockMayStepBack /\ t < now)) /\ now' = t
  /\ outcome' = [op |-> "none", item |-> NoItem]
  /\ UNCHANGED <<store, cursor, counts, nextSeq>>

Init ==
  /\ store = [b \in Bands |-> <<>>]
  /\ cursor = [b \in Bands |-> 0]
  /\ counts = [b \in Bands |-> 0]
  /\ nextSeq = 0
  /\ now = 0
  /\ outcome = [op |-> "none", item |-> NoItem]

Next ==
  \/ \E r \in Requests : Enqueue(r)
  \/ Dequeue
  \/ DequeueEmpty
  \/ Clear
  \/ Tick

Spec == Init /\ [][Next]_vars

-----------------------------------------------------------------------------
(* Properties *)

\* Every variable holds what its declaration says, the storage holds items of
\* its own band, and a cursor never runs past the array it indexes.
TypeOK ==
  /\ store \in [Bands -> Seq(Item)]
  /\ \A b \in Bands : \A i \in 1..Len(store[b]) : store[b][i].band = b
  /\ cursor \in [Bands -> Nat]
  /\ \A b \in MapBands : cursor[b] = 0
  /\ counts \in [Bands -> Nat]
  /\ nextSeq \in Nat /\ now \in Nat

\* The occupancy table the capacity checks read agrees with the storage after
\* any mix of replacements, overflow drops, compactions and teardowns
\* (queue.js:106 keeps the two apart).
CountsAreExact == \A b \in Bands : counts[b] = Len(store[b]) - cursor[b]

\* No capped band ever holds more than its cap (bands.js:61).
WithinCapacity == \A b \in CappedBands : Len(store[b]) - cursor[b] <= Capacity[b]

\* The dead prefix of an array is always shorter than what is still queued in
\* it, so the array stays within twice the capacity (queue.js:311).
DeadPrefixBounded == \A b \in Bands : cursor[b] = 0 \/ 2 * cursor[b] < Len(store[b])

\* At most one heartbeat per identity and one slot per (identity, message,
\* target) are ever outstanding, and two identities never share a slot.
OneSlotPerKey ==
  \A b \in MapBands : \A i, j \in 1..Len(store[b]) :
    SameSlot(store[b][i], store[b][j]) => i = j

\* Comparing the five band heads selects the item that precedes EVERY queued
\* item, not only the other heads (the claim of the comments at queue.js:91
\* and queue.js:108): ageing lifts no later item past its own band's head.
SelectionIsGlobal ==
  \A x \in AllQueued : ~Before(x, BandHead(BestBand))

\* Every band keeps its items in the order they were first queued: insertion
\* numbers rise along the storage and stay below the counter and, with a clock
\* that never runs backwards, ages fall along it (the order the head-only
\* comparison relies on, queue.js:110-115).
SlotsInOrder ==
  \A b \in Bands :
    /\ \A i, j \in 1..Len(store[b]) : i < j =>
         /\ store[b][i].seq < store[b][j].seq
         /\ ClockMayStepBack \/ store[b][i].enqueuedAt <= store[b][j].enqueuedAt
    /\ \A i \in 1..Len(store[b]) :
         /\ store[b][i].seq < nextSeq
         /\ ClockMayStepBack \/ store[b][i].enqueuedAt <= now

\* The inductive invariant behind the proofs.
IInv ==
  /\ TypeOK
  /\ CountsAreExact
  /\ WithinCapacity
  /\ DeadPrefixBounded
  /\ OneSlotPerKey
  /\ SlotsInOrder

\* A user action, an emergency stop and a bulk frame leave the queue by being
\* sent or by teardown; no overflow, replacement or compaction loses one.
LeavesBySending ==
  \A b \in ArrayBands : \A x \in Queued(b) :
    \/ x \in Queued(b)'
    \/ outcome' = [op |-> "dequeued", item |-> x]
    \/ outcome'.op = "cleared"

NothingLostSilently == [][LeavesBySending]_vars

\* However long anything has waited, it never goes out before a waiting
\* emergency or heartbeat, and no heartbeat before an emergency.
LeavesUrgentFirst ==
  outcome'.op = "dequeued" =>
    \A x \in AllQueued : x.band \in {EMERGENCY, LIVENESS} => outcome'.item.band <= x.band

UrgentFirst == [][LeavesUrgentFirst]_vars

\* Ageing ends starvation: once an item has waited one AgeStep per band above
\* Control, only an emergency, a heartbeat or an older item still overtakes it.
AgedIsNotOvertaken ==
  [][outcome'.op = "dequeued" =>
       \A x \in AllQueued :
         now - x.enqueuedAt >= (x.band - CONTROL) * AgeStep =>
           outcome'.item.band <= LIVENESS \/ outcome'.item.seq <= x.seq]_vars

\* The abstract scheduler over the set of everything queued.
Scheduler == INSTANCE BandScheduler WITH items <- AllQueued

\* With a clock that never runs backwards the queue implements it.
ImplementsScheduler == Scheduler!Spec
=============================================================================
