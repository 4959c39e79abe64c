------------------------------ MODULE Connection ------------------------------
(***************************************************************************)
(* The Connection runtime (lib/connection/runtime.js) with its heartbeat   *)
(* scheduler (lib/connection/heartbeat.js): opening and redialling a       *)
(* transport, the one-write-at-a-time pump, the write watchdog, the health *)
(* leases and teardown.                                                    *)
(*                                                                         *)
(* Every dial builds a transport of its own, numbered by `dials'; number 1 *)
(* is the one start() opens.  `transport' is this._transport, and since a  *)
(* transport loses its listeners in the step that unsets it, `transport'   *)
(* is also the only one whose events reach the runtime.  open() settles in *)
(* one step and its awaiting caller continues in another, so events land   *)
(* in between.  The band queue is a set here (its order is OutboundQueue's *)
(* business): a frame of a name replaces the waiting one of that name.     *)
(***************************************************************************)
EXTENDS Integers, FiniteSets

CONSTANTS
  Modes,        \* kinds of link: "tcp" a client, "stream" a TCP server or serial, "udp"
  Names,        \* the messages flows send
  Identities,   \* the bound Local Identities (heartbeat and health per identity)
  Refused,      \* identities whose heartbeat the serializer refuses (no signing key)
  MaxDials,     \* bound: transports built in a behaviour
  WriteIds,     \* handles for in-flight writes, reused
  None          \* no transport, no handle

INITIAL_TCP_RETRIES == 3

ASSUME ModesAssumption == Modes \subseteq {"tcp", "stream", "udp"}
ASSUME SetsAssumption ==
  Refused \subseteq Identities /\ Names \cap Identities = {}
ASSUME DialsAssumption == MaxDials \in Nat \ {0} /\ None \notin 1..MaxDials
ASSUME WriteIdsAssumption == WriteIds # {} /\ None \notin WriteIds

VARIABLES
  mode,        \* the kind of this link; it never changes
  state, ready, draining, everConnected, initialReconnects, closed, doneCalled,
  transport,   \* this._transport: the number of a dial, or None
  dials,       \* transports built so far
  socket,      \* [1..MaxDials -> "none" | "opening" | "open" | "failed" | "closed"]
  opening,     \* what open() did: "none" | "pending" | "resolved" | "rejected"
  awaiting,    \* dials whose open() the runtime awaits
  finishing,   \* close()'s callback is with the transport
  queued,      \* frames in the band queue: [name, link]
  writes,      \* unsettled writes: [id, link, frame, left]; left destinations to report
  writeTimer,  \* this._writeTimer: the id of the write it watches, or None
  armed,       \* ids of the writes with a watchdog running
  pumpQueued,  \* a microtask that calls _pump is queued
  beating,     \* the heartbeat intervals run
  sweeps,      \* sweep intervals running
  redials,     \* redial timers running (this._reconnectTimer)
  faults,      \* identities under a fault
  leases       \* identities with a health lease running

linkVars  == <<state, ready, everConnected, initialReconnects, closed, doneCalled, finishing>>
dialVars  == <<transport, dials, socket, opening, awaiting, redials>>
pumpVars  == <<draining, queued, writes, writeTimer, armed, pumpQueued>>
timerVars == <<beating, sweeps>>
healthVars == <<faults, leases>>
vars == <<linkVars, dialVars, pumpVars, timerVars, healthVars>>

Dials  == 1..MaxDials
Frame  == [name : Names \cup Identities, link : Dials \cup {None}]
Stream == mode # "udp"

\* Continuations whose promise has settled: they run before any timer does.
Settled == {t \in awaiting : opening[t] \in {"resolved", "rejected"}}

-----------------------------------------------------------------------------
(* The pump *)

\* _disarmWriteTimer: whichever watchdog the handle names is cancelled.
Disarm == armed' = armed \ {writeTimer} /\ writeTimer' = None

FreshWrite == CHOOSE i \in WriteIds : i \notin {w.id : w \in writes} \cup armed

\* The transport took the write, and one or two destinations have yet to report.
InFlight(f) ==
  /\ \E left \in 1..2 :
       writes' = writes \cup {[id |-> FreshWrite, link |-> transport, frame |-> f, left |-> left]}
  /\ writeTimer' = FreshWrite
  /\ armed' = armed \cup {FreshWrite}
  /\ draining' = TRUE

\* Over inside _pump: the write completed or was refused inline, or serialize()
\* threw and the envelope is dropped.
Over == draining' = FALSE /\ UNCHANGED <<writes, writeTimer, armed>>

\* Mutant: a dropped envelope resumes nothing.
PumpStopsAtDrop(q, isReady, micro) ==
  \/ /\ ~isReady \/ draining \/ q = {}
     /\ queued' = q /\ pumpQueued' = micro
     /\ UNCHANGED <<draining, writes, writeTimer, armed>>
  \/ /\ isReady /\ ~draining
     /\ \E f \in q :
          /\ queued' = q \ {f}
          /\ \/ Over /\ pumpQueued' = (IF f.name \in Refused THEN micro ELSE TRUE)
             \/ f.name \notin Refused /\ InFlight(f) /\ pumpQueued' = micro

\* _pump() on queue q: nothing to do, or one frame leaves; a frame that is over
\* at once queues the microtask that takes the next.  micro: one is queued already.
Pump(q, isReady, micro) ==
  \/ /\ ~isReady \/ draining \/ q = {}
     /\ queued' = q /\ pumpQueued' = micro
     /\ UNCHANGED <<draining, writes, writeTimer, armed>>
  \/ /\ isReady /\ ~draining
     /\ \E f \in q :
          /\ queued' = q \ {f}
          /\ \/ Over /\ pumpQueued' = TRUE
             \/ f.name \notin Refused /\ InFlight(f) /\ pumpQueued' = micro

\* The queue once a frame called n is in it, stamped with the link it was meant for.
With(n) ==
  {f \in queued : f.name # n} \cup {[name |-> n, link |-> IF ready THEN transport ELSE None]}

\* send() and _enqueueOutbound: enqueue in whatever state, then pump.
Send(n) ==
  /\ state # "idle"
  /\ Pump(With(n), ready, pumpQueued)
  /\ UNCHANGED <<linkVars, dialVars, timerVars, healthVars>>

\* An identity's heartbeat interval fires; a faulted identity stays silent.
Beat(id) ==
  /\ beating /\ id \notin faults
  /\ Pump(With(id), ready, pumpQueued)
  /\ UNCHANGED <<linkVars, dialVars, timerVars, healthVars>>

PumpMicrotask ==
  /\ pumpQueued
  /\ Pump(queued, ready, FALSE)
  /\ UNCHANGED <<linkVars, dialVars, timerVars, healthVars>>

\* A destination reports; the last one releases the pump, off the stack.
WriteReports(w) ==
  /\ \/ /\ w.left > 1
        /\ writes' = (writes \ {w}) \cup {[w EXCEPT !.left = @ - 1]}
        /\ UNCHANGED <<draining, writeTimer, armed, pumpQueued>>
     \/ /\ w.left = 1
        /\ writes' = writes \ {w}
        /\ Disarm /\ draining' = FALSE /\ pumpQueued' = TRUE
  /\ UNCHANGED <<queued, linkVars, dialVars, timerVars, healthVars>>

-----------------------------------------------------------------------------
(* Losing a link and dialling again *)

\* The dead transport loses its listeners and is closed.  An open() still
\* pending was rejected by the very error that brought the runtime here.
DetachDead ==
  /\ transport' = None
  /\ IF transport = None THEN UNCHANGED <<socket, opening>>
     ELSE /\ socket' = [socket EXCEPT ![transport] = "closed"]
          /\ opening' = [opening EXCEPT ![transport] = IF @ = "pending" THEN "rejected" ELSE @]

\* One redial is armed, until a link that never connected has used up its retries.
Retry ==
  IF ~everConnected /\ initialReconnects = INITIAL_TCP_RETRIES
  THEN state' = "error" /\ UNCHANGED <<redials, initialReconnects>>
  ELSE /\ state' = "reconnecting"
       /\ redials' = redials + 1
       /\ initialReconnects' = IF everConnected THEN initialReconnects ELSE initialReconnects + 1

scheduleVars == <<state, redials, initialReconnects, transport, socket, opening>>

\* Mutant: the handle of a redial that fired still reads as one that is armed.
ScheduleReconnectOnce ==
  /\ IF closed \/ dials > 1 \/ redials > 0 THEN UNCHANGED scheduleVars ELSE DetachDead /\ Retry
  /\ UNCHANGED <<everConnected, closed, doneCalled, finishing, dials>>

\* _scheduleReconnect; a no-op on a closed link and while a redial is armed.
ScheduleReconnect ==
  /\ IF closed \/ redials > 0 THEN UNCHANGED scheduleVars ELSE DetachDead /\ Retry
  /\ UNCHANGED <<everConnected, closed, doneCalled, finishing, dials>>

\* A link that never came up and is not retried fails for good.
GiveUp ==
  /\ state' = "error"
  /\ socket' = [socket EXCEPT ![transport] = "failed"]
  /\ opening' = [opening EXCEPT ![transport] = IF @ = "pending" THEN "rejected" ELSE @]
  /\ UNCHANGED <<everConnected, initialReconnects, closed, doneCalled, finishing, transport, dials, redials, awaiting>>

\* _onTransportError: stop pump, watchdog and heartbeats (never the sweep), then
\* redial, or give up on a UDP, server or serial link that never came up.
TransportError ==
  /\ ready' = FALSE /\ draining' = FALSE /\ Disarm
  /\ beating' = FALSE
  /\ IF everConnected \/ mode = "tcp" THEN ScheduleReconnect /\ UNCHANGED awaiting ELSE GiveUp
  /\ UNCHANGED <<sweeps, queued, healthVars>>

\* The socket of the current transport raises an error: once open, or, on a
\* stream, while connecting.  A stream transport fails its writes on the way,
\* dgram cancels them a turn of the event loop later.
SocketFails ==
  /\ transport # None
  /\ \/ socket[transport] = "open" /\ (transport = 1 /\ transport \in awaiting => mode = "tcp")
     \/ socket[transport] = "opening" /\ Stream
  /\ TransportError
  /\ IF Stream
     THEN /\ writes' = {w \in writes : w.link # transport}
          /\ pumpQueued' = (pumpQueued \/ \E w \in writes : w.link = transport)
     ELSE UNCHANGED <<writes, pumpQueued>>

\* The watchdog expires: that write is settled, whatever is reported for it
\* later, and the link has failed.
WriteTimesOut ==
  /\ writeTimer \in armed
  /\ Settled = {}
  /\ TransportError
  /\ writes' = {w \in writes : w.id # writeTimer /\ (Stream => w.link # transport)}
  /\ UNCHANGED pumpQueued

-----------------------------------------------------------------------------
(* Opening *)

\* A new transport from the bound config, its open() issued and awaited.
Dial ==
  /\ dials < MaxDials
  /\ dials' = dials + 1
  /\ transport' = dials + 1
  /\ socket' = [socket EXCEPT ![dials + 1] = "opening"]
  /\ opening' = [opening EXCEPT ![dials + 1] = "pending"]
  /\ awaiting' = awaiting \cup {dials + 1}

\* start(), up to its await.
Start ==
  /\ state = "idle"
  /\ Dial
  /\ state' = "connecting"
  /\ UNCHANGED <<redials, ready, everConnected, initialReconnects, closed, doneCalled, finishing,
                 pumpVars, timerVars, healthVars>>

\* open() settles: the socket is open, or it failed without an error event (a
\* failed bind or port), or serialport is done with a port closed meanwhile.
OpenSettles(t) ==
  /\ opening[t] = "pending"
  /\ \/ /\ socket[t] = "opening"
        /\ socket' = [socket EXCEPT ![t] = "open"]
        /\ opening' = [opening EXCEPT ![t] = "resolved"]
     \/ /\ socket[t] = "opening" /\ mode # "tcp"
        /\ socket' = [socket EXCEPT ![t] = "failed"]
        /\ opening' = [opening EXCEPT ![t] = "rejected"]
     \/ /\ socket[t] = "closed" /\ mode = "stream"
        /\ UNCHANGED socket
        /\ \E how \in {"resolved", "rejected"} : opening' = [opening EXCEPT ![t] = how]
  /\ UNCHANGED <<transport, dials, redials, awaiting, linkVars, pumpVars, timerVars, healthVars>>

Continues(t) == t \in Settled /\ awaiting' = awaiting \ {t}

\* start() goes on after a failed open().
StartFails ==
  /\ Continues(1) /\ opening[1] = "rejected"
  /\ \/ closed /\ UNCHANGED <<linkVars, transport, dials, socket, opening, redials>>
     \/ ~closed /\ mode = "tcp" /\ ScheduleReconnect /\ UNCHANGED ready
     \/ /\ ~closed /\ mode # "tcp" /\ state' = "error"
        /\ UNCHANGED <<ready, everConnected, initialReconnects, closed, doneCalled, finishing,
                       transport, dials, socket, opening, redials>>
  /\ UNCHANGED <<pumpVars, timerVars, healthVars>>

\* An attempt goes on after a failed open().
RedialFails(t) ==
  /\ t # 1 /\ Continues(t) /\ opening[t] = "rejected"
  /\ IF closed THEN UNCHANGED <<linkVars, transport, dials, socket, opening, redials>>
     ELSE ScheduleReconnect /\ UNCHANGED ready
  /\ UNCHANGED <<pumpVars, timerVars, healthVars>>

\* The open() of t succeeded too late: close() won, or an error took the transport away.
Stale(t) ==
  /\ Continues(t) /\ opening[t] = "resolved"
  /\ closed \/ transport # t
  /\ socket' = [socket EXCEPT ![t] = "closed"]
  /\ UNCHANGED <<transport, dials, opening, redials, linkVars, pumpVars, timerVars, healthVars>>

\* Mutant: the continuation does not look whose transport is current.
LinkIsCurrentUnchecked(t) == Continues(t) /\ opening[t] = "resolved" /\ ~closed

\* t is open and still the runtime's transport.
LinkIsCurrent(t) ==
  /\ Continues(t) /\ opening[t] = "resolved"
  /\ ~closed /\ transport = t

\* Ready, connected, heartbeats on, pump kicked with queue q.
Resume(q) ==
  /\ ready' = TRUE /\ everConnected' = TRUE /\ state' = "connected"
  /\ beating' = TRUE
  /\ Pump(q, TRUE, pumpQueued)
  /\ UNCHANGED <<initialReconnects, closed, doneCalled, finishing,
                 transport, dials, socket, opening, redials, healthVars>>

\* start() brings the first transport up: what was sent meanwhile rides.
StartSucceeds ==
  /\ LinkIsCurrent(1)
  /\ Resume(queued)
  /\ sweeps' = sweeps + 1

\* An attempt brings its transport up: the queue is cleared first, and the sweep
\* is started only if no link ever came up before.
RedialSucceeds(t) ==
  /\ t # 1 /\ LinkIsCurrent(t)
  /\ Resume({})
  /\ sweeps' = IF everConnected THEN sweeps ELSE sweeps + 1

\* The redial timer fires.  Its delay of at least half a second outlasts every
\* microtask and every cancelled write of the transport before.
RedialFires ==
  /\ redials > 0
  /\ Settled = {} /\ writes = {}
  /\ redials' = redials - 1
  /\ Dial
  /\ UNCHANGED <<linkVars, pumpVars, timerVars, healthVars>>

-----------------------------------------------------------------------------
(* Teardown *)

\* Heartbeats, sweep, watchdog, redial and health leases.
CancelTimers ==
  /\ beating' = FALSE /\ sweeps' = (IF sweeps > 0 THEN sweeps - 1 ELSE 0) /\ Disarm
  /\ leases' = {}
  /\ redials' = 0

\* close(done): everything stops in this step; done follows from the
\* transport's own close callback, inline or later.
Close ==
  /\ state # "idle" /\ ~closed
  /\ closed' = TRUE
  /\ CancelTimers
  /\ queued' = {} /\ ready' = FALSE
  /\ IF transport = None
     THEN /\ doneCalled' = TRUE /\ state' = "closed"
          /\ UNCHANGED <<finishing, socket, opening, writes, draining, pumpQueued>>
     ELSE /\ finishing' = TRUE
          /\ socket' = [socket EXCEPT ![transport] = "closed"]
          /\ opening' = [opening EXCEPT ![transport] =
                           IF @ = "pending" /\ mode = "tcp" THEN "rejected" ELSE @]
          /\ UNCHANGED <<doneCalled, state>>
          /\ IF Stream /\ writes # {}
             THEN writes' = {} /\ draining' = FALSE /\ pumpQueued' = TRUE
             ELSE UNCHANGED <<writes, draining, pumpQueued>>
  /\ UNCHANGED <<everConnected, initialReconnects, transport, dials, awaiting, faults>>

\* transport.close() calls back: done, and the CLOSED badge.
CloseReported ==
  /\ finishing
  /\ finishing' = FALSE /\ doneCalled' = TRUE /\ state' = "closed"
  /\ UNCHANGED <<ready, everConnected, initialReconnects, closed, dialVars, pumpVars, timerVars, healthVars>>

-----------------------------------------------------------------------------
(* Health leases *)

\* assertHealth(id, true, ttl): refused once closed.
AssertHealthy(id) ==
  /\ state # "idle" /\ ~closed
  /\ faults' = faults \ {id} /\ leases' = leases \cup {id}
  /\ UNCHANGED <<linkVars, dialVars, pumpVars, timerVars>>

AssertUnhealthy(id) ==
  /\ state # "idle" /\ ~closed
  /\ faults' = faults \cup {id} /\ leases' = leases \ {id}
  /\ UNCHANGED <<linkVars, dialVars, pumpVars, timerVars>>

\* The flow went quiet: the lease fires and faults the identity.
LeaseExpires(id) ==
  /\ id \in leases
  /\ Settled = {}
  /\ leases' = leases \ {id} /\ faults' = faults \cup {id}
  /\ UNCHANGED <<linkVars, dialVars, pumpVars, timerVars>>

-----------------------------------------------------------------------------
Init ==
  /\ mode \in Modes
  /\ state = "idle" /\ ready = FALSE /\ draining = FALSE
  /\ everConnected = FALSE /\ initialReconnects = 0
  /\ closed = FALSE /\ doneCalled = FALSE /\ finishing = FALSE
  /\ transport = None /\ dials = 0
  /\ socket = [t \in Dials |-> "none"] /\ opening = [t \in Dials |-> "none"]
  /\ awaiting = {} /\ redials = 0
  /\ queued = {} /\ writes = {}
  /\ writeTimer = None /\ armed = {} /\ pumpQueued = FALSE
  /\ beating = FALSE /\ sweeps = 0
  /\ faults = {} /\ leases = {}

Redial ==
  \/ RedialFires
  \/ \E t \in Dials : RedialFails(t) \/ RedialSucceeds(t)

Step ==
  \/ Start
  \/ \E t \in Dials : OpenSettles(t)
  \/ StartFails
  \/ StartSucceeds
  \/ \E t \in Dials : Stale(t)
  \/ Redial
  \/ \E n \in Names : Send(n)
  \/ \E id \in Identities : Beat(id)
  \/ PumpMicrotask
  \/ \E w \in writes : WriteReports(w)
  \/ SocketFails
  \/ WriteTimesOut
  \/ Close
  \/ CloseReported
  \/ \E id \in Identities : AssertHealthy(id) \/ AssertUnhealthy(id) \/ LeaseExpires(id)

Next == Step /\ UNCHANGED mode

Spec == Init /\ [][Next]_<<vars, mode>>

\* The event loop runs what is due: microtasks, timers, and the answer of the
\* operating system to an open or a close.  No fairness on completions of
\* writes beyond a cancelled one, none on sends, beats, errors and teardown.
Fairness ==
  /\ WF_vars(StartFails \/ StartSucceeds \/ \E t \in Dials : Stale(t))
  /\ WF_vars(Redial)
  /\ WF_vars(\E t \in Dials : OpenSettles(t))
  /\ WF_vars(PumpMicrotask)
  /\ WF_vars(WriteTimesOut)
  /\ WF_vars(\E w \in writes : w.link # transport /\ WriteReports(w))
  /\ WF_vars(CloseReported)

FairSpec == Spec /\ Fairness

-----------------------------------------------------------------------------
(* Properties *)

\* Every variable holds what its declaration says; the first connection is
\* retried at most INITIAL_TCP_RETRIES times (runtime.js:79).
TypeOK ==
  /\ mode \in Modes
  /\ state \in {"idle", "connecting", "connected", "reconnecting", "closed", "error"}
  /\ {ready, draining, everConnected, closed, doneCalled, finishing, pumpQueued, beating} \subseteq BOOLEAN
  /\ initialReconnects \in 0..INITIAL_TCP_RETRIES
  /\ transport \in Dials \cup {None} /\ dials \in 0..MaxDials
  /\ socket \in [Dials -> {"none", "opening", "open", "failed", "closed"}]
  /\ opening \in [Dials -> {"none", "pending", "resolved", "rejected"}]
  /\ awaiting \subseteq Dials
  /\ queued \subseteq Frame
  /\ writes \subseteq [id : WriteIds, link : Dials, frame : Frame, left : 1..2]
  /\ writeTimer \in WriteIds \cup {None} /\ armed \subseteq WriteIds
  /\ sweeps \in Nat /\ redials \in Nat
  /\ faults \subseteq Identities /\ leases \subseteq Identities

\* The completion callback is the only release: while a link is up it never
\* carries two unsettled writes, whatever errors, timeouts and late reports of
\* older links came before (runtime.js:505).
OneWriteInFlight ==
  /\ ready /\ ~draining => writes = {}
  /\ Cardinality({w \in writes : w.link = transport}) <= 1

\* Every write a live link waits for is watched, by the one watchdog that is
\* running: no completion cancels another write's (runtime.js:650).
EveryWriteIsWatched ==
  /\ armed \subseteq {writeTimer}
  /\ ready /\ draining => \E w \in writes : w.link = transport /\ w.id = writeTimer /\ w.id \in armed

\* A live link with something queued is writing or about to look again: no
\* drop, refusal or inline completion puts the pump to sleep (runtime.js:564, 626).
PumpNeverSleeps == ready /\ queued # {} => draining \/ pumpQueued

\* No frame goes out on a link it was not queued for; only the deploy-time
\* transport carries what was queued while it was opening (runtime.js:903-922).
NoStaleIntent == \A w \in writes : w.frame.link = w.link \/ w.link = 1

\* A link that is not up and not finished has its next step arranged: exactly
\* one redial armed, or an attempt whose open() is awaited (runtime.js:812).
RecoveryIsArmed ==
  /\ redials <= 1
  /\ redials = 1 => state = "reconnecting" /\ transport = None
  /\ state \in {"connecting", "reconnecting"} /\ ~closed => redials = 1 \/ transport \in awaiting

\* A socket the runtime no longer holds is never left open or connecting,
\* except inside the turn that is about to close it (runtime.js:880-902).
NoOrphanSocket ==
  \A t \in Dials : socket[t] \in {"opening", "open"} => t = transport /\ ~closed

\* Nothing armed survives teardown, and nothing arms itself afterwards: the
\* continuations of opens in flight, late reports and microtasks included
\* (runtime.js:447-463).
TornDownStaysDown ==
  closed => /\ ~ready /\ ~beating /\ sweeps = 0 /\ redials = 0
            /\ armed = {} /\ leases = {}

\* CONNECTED is only shown over an open socket the runtime owns, with the
\* pump enabled and the heartbeats running; and heartbeats only run then.
ConnectedMeansLive ==
  /\ state = "connected" /\ ~closed =>
       ready /\ transport # None /\ socket[transport] = "open" /\ transport \notin awaiting
  /\ beating <=> ready

\* Exactly one freshness sweep runs from the first connection until teardown,
\* across every outage (runtime.js:796-800, 936).
OneSweepAcrossOutages == ~closed => sweeps = (IF everConnected THEN 1 ELSE 0)

\* An identity under a fault has no lease left that could outlive it.
LeaseExcludesFault == leases \cap faults = {}

\* A live link never waits on one write for ever: it reports or the watchdog
\* takes the link down (runtime.js:508).
NoWedgedWrite == (ready /\ draining) ~> ~(ready /\ draining)

\* Recovery goes on until the link is up, given up or closed (or the model's
\* bound on dials is reached).
RecoveryProgresses ==
  state \in {"connecting", "reconnecting"} ~>
    state \in {"connected", "error", "closed"} \/ dials = MaxDials

\* close() always calls done, whatever was opening, draining or down (runtime.js:436).
DoneIsCalled == closed ~> doneCalled

\* The pump is exclusive, watched and awake, and sends nothing of an earlier link.
PumpIsSound == OneWriteInFlight /\ EveryWriteIsWatched /\ PumpNeverSleeps /\ NoStaleIntent

\* No socket, timer, lease or heartbeat outlives the link or the connection
\* that owns it, whichever open() continues after a close or an error.
NothingOutlivesItsOwner == NoOrphanSocket /\ TornDownStaysDown

\* What the connection shows of itself is so: its state, its heartbeats, its
\* sweep, its health, and that what it let go of is gone.
StateIsTrue ==
  TypeOK /\ ConnectedMeansLive /\ OneSweepAcrossOutages /\ LeaseExcludesFault /\ NothingOutlivesItsOwner /\ RecoveryIsArmed

\* A link that stalls is taken down, a link that is down comes back, and a
\* connection that is closed says so.
LinkComesBack == NoWedgedWrite /\ RecoveryProgresses /\ DoneIsCalled
=============================================================================
