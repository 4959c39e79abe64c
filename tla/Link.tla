---------------------------------- MODULE Link ----------------------------------
(***************************************************************************)
(* What lasts on a link from one exchange to the next: the routes of the    *)
(* peer table and what a flow is told of it, the stamps of signing, the     *)
(* streams of setpoints, and the bands under a wall clock.  A behaviour is  *)
(* of one of them, chosen at the start; the feed takes the table with it.   *)
(***************************************************************************)
EXTENDS Integers, Sequences, FiniteSets, TLC

CONSTANTS
  None, Torn,
  Endpoints, Table,                                       \* PeerTable, and the numbers of its table
  Fed, Readings,                                          \* those of the table under StateFeed
  Streams, Sources, HasKey, AcceptInvalid, UnitsPerTick, OneMinute, SequenceModulus,
  MaxClock, MaxStamp, MaxEmits,                           \* Signing
  Nodes, Targets, Kinds, SendMayThrow, MaxStreams, MaxQueued,         \* SetpointStreams
  Requests, Capacity, AgeStep, ClockMayStepBack, MaxSeq, MaxNow       \* OutboundQueue

VARIABLES
  part,                                    \* a choice, never changed
  acceptInvalid, listed, record, now, lastSweep, dead, unheard,         \* PeerTable
  kind, values, feed, view, lapsed,                                      \* StateFeed
  clock, inbound, outbound, highest, seq, air, trusted, repeated, count, \* Signing
  slot, closed, held, streams, ticking, expiring, band, last,            \* SetpointStreams
  store, cursor, counts, nextSeq, wall, outcome                          \* OutboundQueue

peerVars == <<acceptInvalid, listed, record, now, lastSweep, dead, unheard>>
feedVars == <<kind, values, feed, view, lapsed>>
signingVars == <<clock, inbound, outbound, highest, seq, air, trusted, repeated, count>>
streamVars == <<slot, closed, held, streams, ticking, expiring, band, last>>
queueVars == <<store, cursor, counts, nextSeq, wall, outcome>>
vars == <<part, peerVars, feedVars, signingVars, streamVars, queueVars>>

P == INSTANCE PeerTable
       WITH Components <- Table.components, NoEndpoint <- None, Never <- None,
            StaleAge <- Table.stale, ExpireAge <- Table.expire, SweepPeriod <- Table.sweep,
            MaxNow <- Table.maxNow

F == INSTANCE StateFeed
       WITH Components <- Fed.components, NoEndpoint <- None, Never <- None,
            StaleAge <- Fed.stale, ExpireAge <- Fed.expire, SweepPeriod <- Fed.sweep,
            MaxNow <- Fed.maxNow, Blank <- None

S == INSTANCE Signing
M == INSTANCE SetpointStreams
Q == INSTANCE OutboundQueue WITH now <- wall, NoItem <- None

ASSUME PeerAssumption == P!ComponentsAssumption /\ P!AgesAssumption /\ P!NullsAssumption
ASSUME FeedAssumption ==
  F!ComponentsAssumption /\ F!AgesAssumption /\ F!NullsAssumption /\ F!BlankAssumption
ASSUME SigningAssumption == S!NumbersAssumption /\ S!FlagsAssumption
ASSUME StreamAssumption == M!StreamAssumption
ASSUME QueueAssumption ==
  Q!RequestsAssumption /\ Q!CapacityAssumption /\ Q!ClockAssumption /\ Q!BoundsAssumption

-----------------------------------------------------------------------------
(* Values for TLC *)

Vehicle == [sysid |-> 1, compid |-> 1]
Ground  == [sysid |-> 255, compid |-> 190]

BothKinds == [components |-> {Vehicle, Ground}, stale |-> 1, expire |-> 2, sweep |-> 1, maxNow |-> 4]
OneVehicle == [components |-> {Vehicle}, stale |-> 0, expire |-> 1, sweep |-> 1, maxNow |-> 2]

OneOfEachBand == {[band |-> b, identityId |-> 1, name |-> "sp", target |-> 1, value |-> 1] : b \in 0..4}
SmallBands == (0 :> 1) @@ (2 :> 2) @@ (3 :> 1) @@ (4 :> 3)

\* The names of a part are interchangeable.
Symmetry == Permutations(Endpoints) \cup Permutations(Sources)

-----------------------------------------------------------------------------
NoPeers ==
  /\ acceptInvalid = None /\ listed = None /\ record = None /\ now = None /\ lastSweep = None
  /\ dead = None /\ unheard = None
NoFeed == kind = None /\ values = None /\ feed = None /\ view = None /\ lapsed = None
NoSigning ==
  /\ clock = None /\ inbound = None /\ outbound = None /\ highest = None /\ seq = None
  /\ air = None /\ trusted = None /\ repeated = None /\ count = None
NoStreams ==
  /\ slot = None /\ closed = None /\ held = None /\ streams = None /\ ticking = None
  /\ expiring = None /\ band = None /\ last = None
NoQueue ==
  store = None /\ cursor = None /\ counts = None /\ nextSeq = None /\ wall = None /\ outcome = None

Init ==
  \/ part = "peers" /\ P!Init /\ NoFeed /\ NoSigning /\ NoStreams /\ NoQueue
  \/ part = "feed" /\ F!FeedInit /\ NoSigning /\ NoStreams /\ NoQueue
  \/ part = "signing" /\ S!Init /\ NoPeers /\ NoFeed /\ NoStreams /\ NoQueue
  \/ part = "streams" /\ M!Init /\ NoPeers /\ NoFeed /\ NoSigning /\ NoQueue
  \/ part = "queue" /\ Q!Init /\ NoPeers /\ NoFeed /\ NoSigning /\ NoStreams

Next ==
  /\ UNCHANGED part
  /\ \/ part = "peers" /\ P!Next /\ UNCHANGED <<feedVars, signingVars, streamVars, queueVars>>
     \/ part = "feed" /\ F!FeedNext /\ UNCHANGED <<signingVars, streamVars, queueVars>>
     \/ part = "signing" /\ S!Next /\ UNCHANGED <<peerVars, feedVars, streamVars, queueVars>>
     \/ part = "streams" /\ M!Next /\ UNCHANGED <<peerVars, feedVars, signingVars, queueVars>>
     \/ part = "queue" /\ Q!Next /\ UNCHANGED <<peerVars, feedVars, signingVars, streamVars>>

Spec == Init /\ [][Next]_vars

-----------------------------------------------------------------------------
(* Properties *)

\* Routes exist where there is one to have, avoid what failed, and are those of
\* vehicles (peer-table.js:38-45, 194); a silent component is marked and forgotten
\* in time, and a reconnect's mark stays until the new link is heard (137, 352-361);
\* and who keeps up with the feed knows what the table holds (506-511).
PeersAreTrue ==
  /\ part = "peers" => P!RoutesAreSound /\ P!FreshnessIsTrue
  /\ part = "feed" => F!KnownIsTrue

\* Every repetition of a signed frame is rejected and no established peer is
\* (signing.js:136-140, 180-225).
ReplaysAndOnlyReplays == part = "signing" => S!ReplaysAndOnlyReplays

\* A vehicle follows one stream at most, and is locked exactly while it does
\* (lock.js:10-14, move.js:43-49, 172-180).
StreamsOwnTheirTargets == part = "streams" => M!StreamsOwnTheirTargets

\* What leaves is in order.  A signed frame is stamped after all that we emitted
\* and all that verified peers showed us (signing.js:110-117); fan-out puts no
\* setpoint behind the back of a running stream, and after a brake nothing of its
\* stream takes its place (fanout/index.js:344-365, move/index.js:137, 222-231); and
\* whatever becomes of the clock, nothing that aged precedes an emergency or a
\* heartbeat and no accepted command is lost (queue.js:91-121, 191-232).
EmissionsAreOrdered ==
  [][/\ part = "signing" => S!StampLeads
     /\ part = "streams" => M!RespectsStreams /\ M!HeedsBrakes
     /\ part = "queue" => Q!LeavesUrgentFirst /\ Q!LeavesBySending]_vars
=============================================================================
