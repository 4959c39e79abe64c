---------------------------- MODULE BandScheduler ----------------------------
(***************************************************************************)
(* What the outbound queue promises its callers, whatever it is built      *)
(* from: a set of waiting items, an occupancy rule per band on the way in, *)
(* and on the way out the one item that precedes ALL others.  There are no *)
(* per-band lists, heads, cursors or counters here; OutboundQueue shows    *)
(* that comparing five list heads is enough.                               *)
(***************************************************************************)
EXTENDS Integers, FiniteSets

CONSTANTS Requests, Capacity, AgeStep, NoItem, MaxSeq, MaxNow

VARIABLES
  items,    \* the set of waiting items
  nextSeq,  \* numbers the enqueue calls
  now,      \* the clock
  outcome   \* what the last call returned or threw

vars == <<items, nextSeq, now, outcome>>

Emergency == 0
Liveness  == 1
Control   == 2
Streaming == 3
Bulk      == 4

OnBand(b) == {x \in items : x.band = b}
Full(b)   == Cardinality(OnBand(b)) >= Capacity[b]

\* The band an item competes at after waiting: one band per AgeStep, down to Control.
Urgency(x) ==
  LET aged == x.band - (now - x.enqueuedAt) \div AgeStep
  IN  IF x.band <= Control THEN x.band ELSE IF aged < Control THEN Control ELSE aged

Precedes(x, y) ==
  \/ Urgency(x) < Urgency(y)
  \/ Urgency(x) = Urgency(y) /\ x.seq < y.seq

Oldest(b) == CHOOSE x \in OnBand(b) : \A y \in OnBand(b) : x.seq <= y.seq

Fresh(r) ==
  [band |-> r.band, identityId |-> r.identityId, name |-> r.name,
   target |-> r.target, value |-> r.value, enqueuedAt |-> now, seq |-> nextSeq]

SameStream(x, r) ==
  x.identityId = r.identityId /\ x.name = r.name /\ x.target = r.target

\* A heartbeat supersedes the identity's waiting one.
OfferHeartbeat(r) ==
  /\ r.band = Liveness
  /\ items' = {x \in items : ~(x.band = Liveness /\ x.identityId = r.identityId)} \cup {Fresh(r)}
  /\ outcome' = [op |-> "accepted", item |-> Fresh(r)]

\* A value for a stream that is already waiting takes over its slot.
OfferUpdate(r) ==
  /\ r.band = Streaming
  /\ \E x \in OnBand(Streaming) :
       /\ SameStream(x, r)
       /\ items' = (items \ {x}) \cup {[x EXCEPT !.value = r.value]}
       /\ outcome' = [op |-> "coalesced", item |-> [x EXCEPT !.value = r.value]]

\* A new stream always gets in, at the expense of the oldest when full.
OfferStream(r) ==
  /\ r.band = Streaming
  /\ \A x \in OnBand(Streaming) : ~SameStream(x, r)
  /\ items' = (IF Full(Streaming) THEN items \ {Oldest(Streaming)} ELSE items) \cup {Fresh(r)}
  /\ outcome' = [op |-> "accepted", item |-> Fresh(r)]

\* Emergency, Control and Bulk are kept or refused aloud, never displaced.
OfferCapped(r) ==
  /\ r.band \in {Emergency, Control, Bulk}
  /\ IF Full(r.band)
     THEN UNCHANGED items /\ outcome' = [op |-> "overflow", item |-> NoItem]
     ELSE /\ items' = items \cup {Fresh(r)}
          /\ outcome' = [op |-> "accepted", item |-> Fresh(r)]

OfferUnknown(r) ==
  /\ r.band \notin Emergency..Bulk
  /\ UNCHANGED items
  /\ outcome' = [op |-> "ignored", item |-> NoItem]

Offer(r) ==
  /\ nextSeq < MaxSeq
  /\ nextSeq' = nextSeq + 1
  /\ UNCHANGED now
  /\ OfferHeartbeat(r) \/ OfferUpdate(r) \/ OfferStream(r) \/ OfferCapped(r) \/ OfferUnknown(r)

Take ==
  /\ \E x \in items :
       /\ \A y \in items \ {x} : Precedes(x, y)
       /\ items' = items \ {x}
       /\ outcome' = [op |-> "dequeued", item |-> x]
  /\ UNCHANGED <<nextSeq, now>>

TakeNothing ==
  /\ items = {}
  /\ outcome' = [op |-> "empty", item |-> NoItem]
  /\ UNCHANGED <<items, nextSeq, now>>

Discard ==
  /\ items' = {}
  /\ outcome' = [op |-> "cleared", item |-> NoItem]
  /\ UNCHANGED <<nextSeq, now>>

Wait ==
  /\ now < MaxNow
  /\ now' = now + 1
  /\ outcome' = [op |-> "none", item |-> NoItem]
  /\ UNCHANGED <<items, nextSeq>>

Init == items = {} /\ nextSeq = 0 /\ now = 0 /\ outcome = [op |-> "none", item |-> NoItem]

Next ==
  \/ \E r \in Requests : Offer(r)
  \/ Take \/ TakeNothing \/ Discard \/ Wait

Spec == Init /\ [][Next]_vars
=============================================================================
