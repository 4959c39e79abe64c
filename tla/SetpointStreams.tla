---------------------------- MODULE SetpointStreams ----------------------------
(***************************************************************************)
(* Setpoint streams (nodes/mavlink-move.js, lib/move/index.js) under the   *)
(* lock registry they share with Fan-out (lib/delivery/lock.js,            *)
(* lib/fanout/index.js), over the streaming band of one connection.        *)
(*                                                                         *)
(* A Move node keeps at most one stream: it repeats a setpoint until it is *)
(* stopped, replaced, retargeted, expires, or the node closes.  The end of *)
(* control is marked by a brake.  The band coalesces: a message of the     *)
(* same name to the same target takes the place of the one before it       *)
(* (module OutboundQueue; its cap is never reached by these few slots).    *)
(***************************************************************************)
EXTENDS Integers, Sequences, FiniteSets

CONSTANTS
  Nodes, Targets,
  Kinds,         \* messages streamed: "local", "global", "attitude"
  SendMayThrow,  \* TRUE: Connection.send may throw
  MaxStreams,    \* bound: streams started
  MaxQueued,     \* bound: slots in use when Fan-out sends
  None

All == "all"  \* destination of a broadcast
NoStream == 0

StreamAssumption ==
  /\ Kinds \subseteq {"local", "global", "attitude"}
  /\ {MaxStreams, MaxQueued} \subseteq Nat /\ SendMayThrow \in BOOLEAN
  /\ All \notin Targets /\ None \notin Nat

VARIABLES
  slot,      \* per node: its stream, or None
  closed,    \* nodes that are closed
  held,      \* targets locked in streamLocks
  streams,   \* the streams started so far: [node, target, kind]
  ticking,   \* streams whose interval runs
  expiring,  \* streams whose TTL timer is armed
  band,      \* the streaming band: [to, name, stream, brake]
  last       \* per target: the setpoint or brake that reached it last

vars == <<slot, closed, held, streams, ticking, expiring, band, last>>

TargetOf(k) == streams[k].target

\* Position streams end in a brake; sticks and attitudes end in silence.
Braking(k) == streams[k].kind # "attitude"

Setpoint(k, to, kind) == [to |-> to, name |-> kind, stream |-> k, brake |-> FALSE]
Brake(k) == [to |-> TargetOf(k), name |-> "local", stream |-> k, brake |-> TRUE]

\* The band with f in it: in the slot of its name and target, or behind all.
Coalesced(b, f) ==
  IF \E i \in DOMAIN b : b[i].to = f.to /\ b[i].name = f.name
  THEN [i \in DOMAIN b |-> IF b[i].to = f.to /\ b[i].name = f.name THEN f ELSE b[i]]
  ELSE Append(b, f)

-----------------------------------------------------------------------------
(* The end of a stream *)

\* stop() clears both timers before it brakes.
Halt(k) == ticking' = ticking \ {k} /\ expiring' = expiring \ {k}

\* The brake of k reaches the band, is not due, or its send throws.
Brakes(k, b) ==
  \/ Braking(k) /\ band' = Coalesced(b, Brake(k))
  \/ ~Braking(k) /\ band' = b
  \/ Braking(k) /\ SendMayThrow /\ band' = b

\* Mutant: the lock is freed only if the brake was taken.
ClearSlotIfBraked(n) ==
  /\ slot' = [slot EXCEPT ![n] = None]
  /\ held' = IF band' = band THEN held ELSE held \ {TargetOf(slot[n])}

\* clearSlot: the slot is empty and the target free, whatever the brake did.
ClearSlot(n) ==
  /\ slot' = [slot EXCEPT ![n] = None]
  /\ held' = held \ {TargetOf(slot[n])}

\* An explicit stop.
Stop(n) ==
  /\ n \notin closed /\ slot[n] # None
  /\ Halt(slot[n]) /\ Brakes(slot[n], band)
  /\ ClearSlot(n)
  /\ UNCHANGED <<closed, streams, last>>

Close(n) ==
  /\ n \notin closed /\ closed' = closed \cup {n}
  /\ \/ /\ slot[n] # None
        /\ Halt(slot[n]) /\ Brakes(slot[n], band) /\ ClearSlot(n)
     \/ slot[n] = None /\ UNCHANGED <<slot, held, ticking, expiring, band>>
  /\ UNCHANGED <<streams, last>>

\* A redeploy builds the node anew; the registry is the process's.
Redeploy(n) ==
  /\ n \in closed /\ closed' = closed \ {n}
  /\ UNCHANGED <<slot, held, streams, ticking, expiring, band, last>>

\* The TTL of k: stop() if it still runs, then onExpire clears the node's slot.
Expire(k) ==
  /\ k \in expiring
  /\ \/ k \in ticking /\ Halt(k) /\ Brakes(k, band)
     \/ k \notin ticking /\ expiring' = expiring \ {k} /\ UNCHANGED <<ticking, band>>
  /\ ClearSlot(streams[k].node)
  /\ UNCHANGED <<closed, streams, last>>

-----------------------------------------------------------------------------
(* The start of a stream *)

SameKey(n, t) == slot[n] # None /\ TargetOf(slot[n]) = t

\* The node has the lock of t already or can acquire it.
MayStream(n, t) == SameKey(n, t) \/ t \notin held

\* The bookkeeping of a stream that is about to run; its timers replace those
\* of the one before.
Begins(n, t, kind, ttl) ==
  LET k == Len(streams) + 1 IN
  /\ n \notin closed /\ k <= MaxStreams /\ MayStream(n, t)
  /\ streams' = Append(streams, [node |-> n, target |-> t, kind |-> kind])
  /\ slot' = [slot EXCEPT ![n] = k]
  /\ ticking' = (ticking \ {slot[n]}) \cup {k}
  /\ expiring' = (expiring \ {slot[n]}) \cup (IF ttl THEN {k} ELSE {})
  /\ UNCHANGED <<closed, last>>

\* The node streamed nothing, or replaces its stream to t without a brake.
StartsOrReplaces(n, t, kind, ttl) ==
  /\ slot[n] = None \/ SameKey(n, t)
  /\ Begins(n, t, kind, ttl)
  /\ band' = Coalesced(band, Setpoint(Len(streams) + 1, t, kind))
  /\ held' = held \cup {t}

\* The node leaves another target: the new stream sends first, then the old brakes.
Retargets(n, t, kind, ttl) ==
  /\ slot[n] # None /\ ~SameKey(n, t)
  /\ Begins(n, t, kind, ttl)
  /\ Brakes(slot[n], Coalesced(band, Setpoint(Len(streams) + 1, t, kind)))
  /\ held' = (held \ {TargetOf(slot[n])}) \cup {t}

\* The first send throws: a lock taken for it is given back, what ran goes on.
StartThrows(n, t) ==
  /\ SendMayThrow /\ n \notin closed /\ MayStream(n, t)
  /\ UNCHANGED vars

\* An interval fires; a send that throws is contained.
Tick(k) ==
  /\ k \in ticking
  /\ band' = Coalesced(band, Setpoint(k, TargetOf(k), streams[k].kind))
  /\ UNCHANGED <<slot, closed, held, streams, ticking, expiring, last>>

-----------------------------------------------------------------------------
(* Fan-out and the link *)

\* Mutant: the lock is not looked at.
MayFanOutAlways(t) == TRUE

\* streamLockRefusal.
MayFanOut(t) == t \notin held

\* One setpoint to one vehicle, or to all of them.
FanOut(t, kind) ==
  /\ Len(band) < MaxQueued
  /\ MayFanOut(t)
  /\ band' = Coalesced(band, Setpoint(NoStream, t, kind))
  /\ UNCHANGED <<slot, closed, held, streams, ticking, expiring, last>>

Broadcast(kind) ==
  /\ Len(band) < MaxQueued
  /\ \A t \in Targets : MayFanOut(t)
  /\ band' = Coalesced(band, Setpoint(NoStream, All, kind))
  /\ UNCHANGED <<slot, closed, held, streams, ticking, expiring, last>>

\* The pump takes the oldest slot.
Transmit ==
  /\ band # <<>>
  /\ last' = [t \in Targets |-> IF Head(band).to \in {t, All} THEN Head(band) ELSE last[t]]
  /\ band' = Tail(band)
  /\ UNCHANGED <<slot, closed, held, streams, ticking, expiring>>

\* A redial discards what was queued.
LinkRestored ==
  /\ band # <<>> /\ band' = <<>>
  /\ UNCHANGED <<slot, closed, held, streams, ticking, expiring, last>>

-----------------------------------------------------------------------------
Init ==
  /\ slot = [n \in Nodes |-> None] /\ closed = {}
  /\ held = {} /\ streams = <<>> /\ ticking = {} /\ expiring = {}
  /\ band = <<>> /\ last = [t \in Targets |-> Setpoint(NoStream, t, "local")]

Next ==
  \/ \E n \in Nodes : Stop(n) \/ Close(n) \/ Redeploy(n)
  \/ \E n \in Nodes, t \in Targets, kind \in Kinds, ttl \in BOOLEAN :
       StartsOrReplaces(n, t, kind, ttl) \/ Retargets(n, t, kind, ttl)
  \/ \E n \in Nodes, t \in Targets : StartThrows(n, t)
  \/ \E k \in ticking : Tick(k)
  \/ \E k \in expiring : Expire(k)
  \/ \E t \in Targets, kind \in Kinds : FanOut(t, kind)
  \/ \E kind \in Kinds : Broadcast(kind)
  \/ Transmit
  \/ LinkRestored

Spec == Init /\ [][Next]_vars

-----------------------------------------------------------------------------
(* Properties *)

Frames == [to : Targets \cup {All}, name : Kinds \cup {"local"}, stream : 0..MaxStreams, brake : BOOLEAN]

\* Every variable holds what its declaration says.
TypeOK ==
  /\ slot \in [Nodes -> DOMAIN streams \cup {None}]
  /\ closed \subseteq Nodes /\ held \subseteq Targets
  /\ streams \in Seq([node : Nodes, target : Targets, kind : Kinds]) /\ Len(streams) <= MaxStreams
  /\ ticking \subseteq DOMAIN streams /\ expiring \subseteq ticking
  /\ band \in Seq(Frames) /\ last \in [Targets -> Frames]

\* Two streams never feed one vehicle, whichever nodes start, retarget, expire,
\* close and come back (lock.js:10-14, move.js:172-180).
OneStreamPerTarget ==
  \A j, k \in ticking : TargetOf(j) = TargetOf(k) => j = k

\* A target is locked exactly while a stream runs to it, and a stream runs
\* exactly while it is in the slot of a node that is open: no path leaves a
\* target locked with nothing streaming to it (move.js:43-49).
LockFollowsStream ==
  /\ held = {TargetOf(k) : k \in ticking}
  /\ ticking = {slot[n] : n \in {m \in Nodes : slot[m] # None}}
  /\ \A n \in closed : slot[n] = None

\* What a node has in its slot is a stream of its own (move.js:172-180, 246-262).
SlotsAreOwn == \A n \in Nodes : slot[n] # None => streams[slot[n]].node = n

OneShotFor(b, t) == \E i \in DOMAIN b : b[i].stream = NoStream /\ b[i].to \in {t, All}

\* Fan-out never puts a setpoint behind the back of a running stream, to one
\* vehicle or to all (fanout/index.js:344-365, 421-443).
RespectsStreams ==
  \A t \in Targets : OneShotFor(band', t) /\ ~OneShotFor(band, t)
    => \A k \in ticking : TargetOf(k) # t

Overtaken(t) == last'[t].stream # NoStream /\ last'[t].stream <= last[t].stream

\* After a brake nothing of its stream or of an older one reaches the vehicle
\* that could take the place of the brake in the band (move/index.js:137, 222-231).
HeedsBrakes ==
  \A t \in Targets :
    last[t].brake /\ last'[t] # last[t] => last'[t].name # last[t].name \/ ~Overtaken(t)

\* What the comments say of the brake: it is the final setpoint, and marks the
\* end of control.
BrakeIsFinal ==
  [][\A t \in Targets : last[t].brake /\ last'[t] # last[t] => ~Overtaken(t)]_vars

\* A vehicle follows one stream at most, is locked exactly while it does, and the
\* stream is in the slot of the node it belongs to.
StreamsOwnTheirTargets == TypeOK /\ OneStreamPerTarget /\ LockFollowsStream /\ SlotsAreOwn
=============================================================================
