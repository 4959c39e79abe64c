--------------------------- MODULE ConnectionProofs ---------------------------
(***************************************************************************)
(* Proofs about Connection, for any identities, messages and number of     *)
(* dials: what it shows of itself is so, nothing outlives its owner, the   *)
(* redial is armed once, and the pump is exclusive, watched, awake and     *)
(* true to the link a frame was queued for.                                *)
(***************************************************************************)
EXTENDS Connection, FiniteSetTheorems, TLAPS

(***************************************************************************)
(* The inductive invariant has a part for the link and one for the pump.   *)
(***************************************************************************)

\* What TypeOK says of everything but the pump.
LinkTyped ==
  /\ mode \in Modes
  /\ state \in {"idle", "connecting", "connected", "reconnecting", "closed", "error"}
  /\ ready \in BOOLEAN /\ everConnected \in BOOLEAN /\ closed \in BOOLEAN
  /\ doneCalled \in BOOLEAN /\ finishing \in BOOLEAN /\ beating \in BOOLEAN
  /\ initialReconnects \in 0..INITIAL_TCP_RETRIES
  /\ transport \in Dials \cup {None} /\ dials \in 0..MaxDials
  /\ socket \in [Dials -> {"none", "opening", "open", "failed", "closed"}]
  /\ opening \in [Dials -> {"none", "pending", "resolved", "rejected"}]
  /\ awaiting \subseteq Dials
  /\ sweeps \in Nat /\ redials \in Nat
  /\ faults \subseteq Identities /\ leases \subseteq Identities

\* Only the latest dial can be the runtime's transport or have its open()
\* awaited, and before start() there is none.
OnlyTheLatest ==
  /\ transport # None => transport = dials
  /\ awaiting \subseteq {dials}
  /\ state = "idle" => dials = 0 /\ ~closed

\* An open() that is awaited while its transport was taken away has settled,
\* and as long as the transport is current its socket is where open() is.
OpensAreTrue ==
  /\ \A t \in Dials : socket[t] = "opening" => opening[t] = "pending"
  /\ \A t \in awaiting :
       /\ opening[t] # "none"
       /\ ~closed /\ t # transport => opening[t] # "pending"
       /\ ~closed /\ t = transport /\ opening[t] = "pending" => socket[t] = "opening"
       /\ ~closed /\ t = transport /\ opening[t] = "resolved" => socket[t] = "open"

\* start() has gone on once a link was up, and only a TCP client dials again
\* before that.
FirstLink ==
  /\ everConnected => dials # 0
  /\ everConnected /\ dials = 1 => awaiting = {}
  /\ ~everConnected /\ mode # "tcp" => dials <= 1 /\ redials = 0

\* What being ready and finishing says of the rest.
ReadyMeansConnected ==
  /\ ready => state = "connected" /\ ~closed /\ everConnected
  /\ finishing => closed

\* What a close leaves of the link.
LinkTornDown == closed => ~ready /\ ~beating /\ sweeps = 0 /\ redials = 0 /\ leases = {}

LinkInv ==
  /\ LinkTyped /\ OnlyTheLatest /\ OpensAreTrue /\ FirstLink /\ ReadyMeansConnected /\ LinkTornDown
  /\ ConnectedMeansLive /\ OneSweepAcrossOutages /\ LeaseExcludesFault /\ NoOrphanSocket /\ RecoveryIsArmed

PumpTyped ==
  /\ draining \in BOOLEAN /\ pumpQueued \in BOOLEAN
  /\ queued \subseteq Frame
  /\ writes \subseteq [id : WriteIds, link : Dials, frame : Frame, left : 1..2]
  /\ writeTimer \in WriteIds \cup {None} /\ armed \subseteq WriteIds

\* One write is unsettled at a time, of whatever link: the next link waits for
\* the last report of the one before.
WritesAreExclusive ==
  /\ \A v, w \in writes : v = w
  /\ ready /\ ~draining => writes = {} /\ armed = {}
  /\ transport # None /\ ~ready /\ ~closed => writes = {}
  /\ draining => ready \/ closed
  /\ ~ready => armed = {}
  /\ writes # {} => everConnected

\* What waits while a link is up was queued for it, or before the first one.
QueueIsOfTheLink == ready => \A f \in queued : f.link = transport \/ transport = 1

PumpInv ==
  /\ PumpTyped /\ WritesAreExclusive /\ QueueIsOfTheLink
  /\ EveryWriteIsWatched /\ PumpNeverSleeps /\ NoStaleIntent

ConnectionInv == LinkInv /\ PumpInv

-----------------------------------------------------------------------------
(* The pump *)

\* With nothing in flight every handle is free.
LEMMA FreshIsAHandle ==
  ASSUME WriteIdsAssumption, writes = {}, armed = {}
  PROVE  FreshWrite \in WriteIds
BY DEF FreshWrite, WriteIdsAssumption

\* A step that leaves the pump alone, on a link that stays up or stays down.
LEMMA PumpLeftAlone ==
  ASSUME PumpInv, UNCHANGED <<pumpVars, ready, everConnected, closed>>,
         transport' # transport => ~ready /\ (transport' = None \/ writes = {})
  PROVE  PumpInv'
<1> USE DEF PumpInv, pumpVars
<1>1. PumpTyped'
  BY DEF PumpTyped
<1>2. WritesAreExclusive'
  BY DEF WritesAreExclusive
<1>3. QueueIsOfTheLink' /\ PumpNeverSleeps' /\ NoStaleIntent'
  BY DEF QueueIsOfTheLink, PumpNeverSleeps, NoStaleIntent
<1>4. EveryWriteIsWatched'
  BY DEF EveryWriteIsWatched
<1> QED BY <1>1, <1>2, <1>3, <1>4

\* _pump() on a queue that is of the link, the link up as it was or coming up
\* with nothing in flight.
LEMMA PumpKeeps ==
  ASSUME WriteIdsAssumption, PumpInv,
         NEW q \in SUBSET Frame, NEW isReady \in BOOLEAN, NEW micro \in BOOLEAN,
         Pump(q, isReady, micro), ready' = isReady, UNCHANGED <<transport, closed>>,
         isReady => transport \in Dials /\ ~closed /\ everConnected',
         everConnected => everConnected',
         isReady /\ ~ready => ~draining /\ writes = {} /\ armed = {},
         ~isReady => ~ready,
         isReady => \A f \in q : f.link = transport \/ transport = 1
  PROVE  PumpInv'
<1> USE DEF PumpInv
<1>1. CASE ~isReady \/ draining \/ q = {}
  <2>1. /\ queued' = q /\ pumpQueued' = micro
        /\ UNCHANGED <<draining, writes, writeTimer, armed>>
    BY <1>1 DEF Pump
  <2>2. PumpTyped'
    BY <2>1 DEF PumpTyped
  <2>3. WritesAreExclusive'
    BY <2>1 DEF WritesAreExclusive
  <2>4. QueueIsOfTheLink' /\ PumpNeverSleeps' /\ NoStaleIntent'
    BY <1>1, <2>1 DEF QueueIsOfTheLink, PumpNeverSleeps, NoStaleIntent
  <2>5. EveryWriteIsWatched'
    BY <2>1 DEF EveryWriteIsWatched
  <2> QED BY <2>2, <2>3, <2>4, <2>5
<1>2. CASE isReady /\ ~draining /\ q # {}
  <2>1. writes = {} /\ armed = {}
    BY <1>2 DEF WritesAreExclusive
  <2>2. PICK f \in q :
          /\ queued' = q \ {f}
          /\ \/ Over /\ pumpQueued' = TRUE
             \/ InFlight(f) /\ pumpQueued' = micro
    BY <1>2 DEF Pump
  <2>3. QueueIsOfTheLink'
    BY <2>2 DEF QueueIsOfTheLink
  <2>4. CASE Over /\ pumpQueued' = TRUE
    <3>1. draining' = FALSE /\ UNCHANGED <<writes, writeTimer, armed>>
      BY <2>4 DEF Over
    <3>2. PumpTyped'
      BY <2>2, <2>4, <3>1 DEF PumpTyped
    <3>3. WritesAreExclusive' /\ EveryWriteIsWatched'
      BY <2>1, <3>1 DEF WritesAreExclusive, EveryWriteIsWatched
    <3>4. PumpNeverSleeps' /\ NoStaleIntent'
      BY <2>1, <2>4, <3>1 DEF PumpNeverSleeps, NoStaleIntent
    <3> QED BY <2>3, <3>2, <3>3, <3>4
  <2>5. CASE InFlight(f) /\ pumpQueued' = micro
    <3>1. PICK left \in 1..2 :
            writes' = {[id |-> FreshWrite, link |-> transport, frame |-> f, left |-> left]}
      BY <2>1, <2>5 DEF InFlight
    <3>2. writeTimer' = FreshWrite /\ armed' = {FreshWrite} /\ draining' = TRUE
      BY <2>1, <2>5 DEF InFlight
    <3>3. FreshWrite \in WriteIds
      BY <2>1, FreshIsAHandle
    <3>4. PumpTyped'
      BY <1>2, <2>2, <2>5, <3>1, <3>2, <3>3 DEF PumpTyped
    <3>5. WritesAreExclusive'
      BY <1>2, <3>1, <3>2 DEF WritesAreExclusive
    <3>6. EveryWriteIsWatched'
      BY <3>1, <3>2 DEF EveryWriteIsWatched
    <3>7. PumpNeverSleeps'
      BY <3>2 DEF PumpNeverSleeps
    <3>8. NoStaleIntent'
      BY <1>2, <3>1 DEF NoStaleIntent
    <3> QED BY <2>3, <3>4, <3>5, <3>6, <3>7, <3>8
  <2> QED BY <2>2, <2>4, <2>5
<1> QED BY <1>1, <1>2

\* A write that is still to report more, or that reports its last.
LEMMA ReportKeepsPump ==
  ASSUME WriteIdsAssumption, ConnectionInv, NEW w \in writes, WriteReports(w)
  PROVE  PumpInv'
<1> USE DEF ConnectionInv, PumpInv
<1>1. UNCHANGED <<queued, ready, everConnected, closed, transport>> /\ writes = {w}
  BY DEF WriteReports, WritesAreExclusive, linkVars, dialVars
<1>2. QueueIsOfTheLink'
  BY <1>1 DEF QueueIsOfTheLink
<1>3. w \in [id : WriteIds, link : Dials, frame : Frame, left : 1..2]
  BY DEF PumpTyped
<1>4. CASE w.left > 1
  <2>1. writes' = {[w EXCEPT !.left = w.left - 1]} /\ UNCHANGED <<draining, writeTimer, armed, pumpQueued>>
    BY <1>1, <1>4 DEF WriteReports
  <2>2. w.left - 1 \in 1..2
    BY <1>3, <1>4
  <2>3. /\ [w EXCEPT !.left = w.left - 1] \in [id : WriteIds, link : Dials, frame : Frame, left : 1..2]
        /\ [w EXCEPT !.left = w.left - 1].id = w.id
        /\ [w EXCEPT !.left = w.left - 1].link = w.link
        /\ [w EXCEPT !.left = w.left - 1].frame = w.frame
    BY <1>3, <2>2
  <2>4. PumpTyped'
    BY <1>1, <2>1, <2>3 DEF PumpTyped
  <2>5. WritesAreExclusive'
    BY <1>1, <2>1 DEF WritesAreExclusive
  <2>6. EveryWriteIsWatched'
    BY <1>1, <2>1, <2>3 DEF EveryWriteIsWatched
  <2>7. PumpNeverSleeps' /\ NoStaleIntent'
    BY <1>1, <2>1, <2>3 DEF PumpNeverSleeps, NoStaleIntent
  <2> QED BY <1>2, <2>4, <2>5, <2>6, <2>7
<1>5. CASE w.left = 1
  <2>1. /\ writes' = {} /\ draining' = FALSE /\ pumpQueued' = TRUE
        /\ armed' = armed \ {writeTimer} /\ writeTimer' = None
    BY <1>1, <1>3, <1>5 DEF WriteReports, Disarm
  <2>2. armed' = {}
    BY <2>1 DEF EveryWriteIsWatched
  <2>3. PumpTyped'
    BY <1>1, <2>1, <2>2 DEF PumpTyped
  <2>4. WritesAreExclusive' /\ EveryWriteIsWatched'
    BY <2>1, <2>2 DEF WritesAreExclusive, EveryWriteIsWatched
  <2>5. PumpNeverSleeps' /\ NoStaleIntent'
    BY <2>1 DEF PumpNeverSleeps, NoStaleIntent
  <2> QED BY <1>2, <2>3, <2>4, <2>5
<1> QED BY <1>3, <1>4, <1>5

-----------------------------------------------------------------------------
(* The link *)

\* A step that leaves the link, the dials, the timers and the health alone.
LEMMA LinkLeftAlone ==
  ASSUME LinkInv, UNCHANGED <<linkVars, dialVars, timerVars, healthVars, mode>>
  PROVE  LinkInv'
<1> USE DEF ConnectionInv, LinkInv, PumpInv
<1>1. LinkTyped'
  BY DEF LinkTyped, linkVars, dialVars, timerVars, healthVars
<1>2. OnlyTheLatest'
  BY DEF OnlyTheLatest, linkVars, dialVars, timerVars, healthVars
<1>3. OpensAreTrue'
  BY DEF OpensAreTrue, linkVars, dialVars, timerVars, healthVars
<1>4. FirstLink'
  BY DEF FirstLink, linkVars, dialVars, timerVars, healthVars
<1>5. ReadyMeansConnected' /\ LinkTornDown'
  BY DEF ReadyMeansConnected, LinkTornDown, linkVars, dialVars, timerVars, healthVars
<1>6. ConnectedMeansLive'
  BY DEF ConnectedMeansLive, linkVars, dialVars, timerVars, healthVars
<1>7. OneSweepAcrossOutages' /\ LeaseExcludesFault'
  BY DEF OneSweepAcrossOutages, LeaseExcludesFault, linkVars, dialVars, timerVars, healthVars
<1>8. NoOrphanSocket'
  BY DEF NoOrphanSocket, linkVars, dialVars, timerVars, healthVars
<1>9. RecoveryIsArmed'
  BY DEF RecoveryIsArmed, linkVars, dialVars, timerVars, healthVars
<1> QED BY <1>1, <1>2, <1>3, <1>4, <1>5, <1>6, <1>7, <1>8, <1>9

\* The dial that a step makes.
LEMMA DialOpens ==
  ASSUME DialsAssumption, LinkTyped, Dial
  PROVE  /\ dials' = dials + 1 /\ dials' \in Dials /\ dials' # None /\ transport' = dials'
         /\ awaiting' = awaiting \cup {dials'}
         /\ socket' \in [Dials -> {"none", "opening", "open", "failed", "closed"}]
         /\ opening' \in [Dials -> {"none", "pending", "resolved", "rejected"}]
         /\ \A t \in Dials : /\ socket'[t] = IF t = dials' THEN "opening" ELSE socket[t]
                             /\ opening'[t] = IF t = dials' THEN "pending" ELSE opening[t]
<1>1. dials + 1 \in Dials /\ dials' = dials + 1 /\ dials' # None
  BY DEF DialsAssumption, LinkTyped, Dial, Dials
<1> QED BY <1>1 DEF LinkTyped, Dial

\* No redial is armed, or one.
LEMMA RedialsAreFew ==
  ASSUME LinkTyped, RecoveryIsArmed
  PROVE  redials = 0 \/ (redials = 1 /\ state = "reconnecting" /\ transport = None)
BY DEF LinkTyped, RecoveryIsArmed

\* A dial that starts where none is awaited, none current and no redial left.
LEMMA DialKeepsLink ==
  ASSUME DialsAssumption, LinkInv, Dial, UNCHANGED mode, ~closed, transport = None, awaiting = {},
         state' \in {"connecting", "reconnecting"}, redials' = 0,
         everConnected \/ mode = "tcp" \/ dials = 0,
         UNCHANGED <<ready, everConnected, initialReconnects, closed, doneCalled, finishing,
                     beating, sweeps, faults, leases>>
  PROVE  LinkInv'
<1> USE DEF LinkInv
<1>1. /\ dials' = dials + 1 /\ dials' \in Dials /\ dials' # None /\ transport' = dials'
      /\ awaiting' = {dials'}
      /\ socket' \in [Dials -> {"none", "opening", "open", "failed", "closed"}]
      /\ opening' \in [Dials -> {"none", "pending", "resolved", "rejected"}]
      /\ \A t \in Dials : /\ socket'[t] = IF t = dials' THEN "opening" ELSE socket[t]
                          /\ opening'[t] = IF t = dials' THEN "pending" ELSE opening[t]
  BY DialOpens
<1>2. ~ready
  BY DEF ConnectedMeansLive, ReadyMeansConnected
<1>3. LinkTyped'
  BY <1>1 DEF LinkTyped, Dials
<1>4. OnlyTheLatest'
  BY <1>1 DEF OnlyTheLatest
<1>5. OpensAreTrue'
  BY <1>1 DEF OpensAreTrue
<1>6. FirstLink'
  BY <1>1 DEF FirstLink, LinkTyped, Dials
<1>7. ReadyMeansConnected' /\ LinkTornDown'
  BY <1>2 DEF ReadyMeansConnected, LinkTornDown
<1>8. ConnectedMeansLive'
  BY <1>2 DEF ConnectedMeansLive
<1>9. OneSweepAcrossOutages' /\ LeaseExcludesFault'
  BY DEF OneSweepAcrossOutages, LeaseExcludesFault
<1>10. NoOrphanSocket'
  BY <1>1, DialsAssumption DEF NoOrphanSocket, Dials
<1>11. RecoveryIsArmed'
  <2>1. transport' \in awaiting'
    BY <1>1
  <2> QED BY <2>1 DEF RecoveryIsArmed
<1> QED BY <1>3, <1>4, <1>5, <1>6, <1>7, <1>8, <1>9, <1>10, <1>11

\* An armed redial is left as it is; otherwise the dead transport is let go,
\* and one redial is armed or the link given up.
LEMMA ReconnectIsScheduled ==
  ASSUME DialsAssumption, LinkTyped, RecoveryIsArmed, ~closed, ScheduleReconnect
  PROVE  /\ transport' = None /\ UNCHANGED <<everConnected, closed, doneCalled, finishing, dials>>
         /\ redials' \in 0..1 /\ state' = (IF redials' = 1 THEN "reconnecting" ELSE "error")
         /\ initialReconnects' \in 0..INITIAL_TCP_RETRIES
         /\ socket' \in [Dials -> {"none", "opening", "open", "failed", "closed"}]
         /\ opening' \in [Dials -> {"none", "pending", "resolved", "rejected"}]
         /\ \A t \in Dials :
              /\ socket'[t] = IF t = transport THEN "closed" ELSE socket[t]
              /\ opening'[t] = IF t = transport /\ opening[t] = "pending" THEN "rejected" ELSE opening[t]
<1>1. None \notin Dials
  BY DEF DialsAssumption, Dials
<1>2. CASE redials = 1
  <2>1. UNCHANGED scheduleVars /\ UNCHANGED <<everConnected, closed, doneCalled, finishing, dials>>
    BY <1>2 DEF ScheduleReconnect
  <2>2. state = "reconnecting" /\ transport = None
    BY <1>2 DEF RecoveryIsArmed
  <2> QED BY <1>1, <1>2, <2>1, <2>2 DEF scheduleVars, LinkTyped
<1>3. CASE redials = 0
  <2>1. DetachDead /\ Retry /\ UNCHANGED <<everConnected, closed, doneCalled, finishing, dials>>
    BY <1>3 DEF ScheduleReconnect
  <2>2. /\ redials' \in 0..1 /\ state' = (IF redials' = 1 THEN "reconnecting" ELSE "error")
        /\ initialReconnects' \in 0..INITIAL_TCP_RETRIES
    BY <1>3, <2>1 DEF Retry, LinkTyped, INITIAL_TCP_RETRIES
  <2>3. CASE transport = None
    BY <1>1, <2>1, <2>2, <2>3 DEF DetachDead, LinkTyped
  <2>4. CASE transport # None
    <3>1. transport \in Dials
      BY <2>4 DEF LinkTyped
    <3>2. /\ socket' = [socket EXCEPT ![transport] = "closed"]
          /\ opening' = [opening EXCEPT ![transport] =
                           IF opening[transport] = "pending" THEN "rejected" ELSE opening[transport]]
          /\ transport' = None
      BY <2>1, <2>4 DEF DetachDead
    <3>3. opening[transport] \in {"none", "pending", "resolved", "rejected"}
      BY <3>1 DEF LinkTyped
    <3> QED BY <2>1, <2>2, <3>1, <3>2, <3>3 DEF LinkTyped
  <2> QED BY <2>3, <2>4
<1> QED BY <1>2, <1>3, RedialsAreFew

\* A link that is not up, or goes down, and is dialled again.
LEMMA ReconnectKeepsLink ==
  ASSUME DialsAssumption, LinkInv, ~closed, ScheduleReconnect, UNCHANGED mode,
         ready' = FALSE, beating' = FALSE, awaiting' \subseteq awaiting,
         everConnected \/ mode = "tcp", UNCHANGED <<sweeps, faults, leases>>
  PROVE  LinkInv'
<1> USE DEF LinkInv
<1>1. /\ transport' = None /\ UNCHANGED <<everConnected, closed, doneCalled, finishing, dials>>
      /\ redials' \in 0..1 /\ state' = (IF redials' = 1 THEN "reconnecting" ELSE "error")
      /\ initialReconnects' \in 0..INITIAL_TCP_RETRIES
      /\ socket' \in [Dials -> {"none", "opening", "open", "failed", "closed"}]
      /\ opening' \in [Dials -> {"none", "pending", "resolved", "rejected"}]
  BY ReconnectIsScheduled
<1>2. \A t \in Dials :
        /\ socket'[t] = IF t = transport THEN "closed" ELSE socket[t]
        /\ opening'[t] = IF t = transport /\ opening[t] = "pending" THEN "rejected" ELSE opening[t]
  BY ReconnectIsScheduled
<1>3. LinkTyped'
  <2>1. redials' \in Nat /\ state' \in {"reconnecting", "error"}
    BY <1>1
  <2> QED BY <1>1, <2>1 DEF LinkTyped
<1>4. OnlyTheLatest'
  BY <1>1 DEF OnlyTheLatest
<1>5. OpensAreTrue'
  <2>1. \A t \in Dials : socket'[t] = "opening" => opening'[t] = "pending"
    BY <1>2 DEF OpensAreTrue
  <2>2. ASSUME NEW t \in awaiting'
        PROVE  opening'[t] # "none" /\ opening'[t] # "pending" /\ t # transport'
    <3>1. t \in Dials /\ t \in awaiting /\ t # None
      BY DEF LinkTyped, DialsAssumption, Dials
    <3> QED BY <1>1, <1>2, <3>1 DEF OpensAreTrue
  <2> QED BY <2>1, <2>2 DEF OpensAreTrue
<1>6. FirstLink'
  BY <1>1 DEF FirstLink
<1>7. ReadyMeansConnected' /\ LinkTornDown'
  BY <1>1 DEF ReadyMeansConnected, LinkTornDown
<1>8. ConnectedMeansLive'
  BY <1>1 DEF ConnectedMeansLive
<1>9. OneSweepAcrossOutages' /\ LeaseExcludesFault'
  BY <1>1 DEF OneSweepAcrossOutages, LeaseExcludesFault
<1>10. NoOrphanSocket'
  BY <1>1, <1>2 DEF NoOrphanSocket
<1>11. RecoveryIsArmed'
  BY <1>1 DEF RecoveryIsArmed
<1> QED BY <1>3, <1>4, <1>5, <1>6, <1>7, <1>8, <1>9, <1>10, <1>11

\* start() dials for the first time.
LEMMA StartKeepsLink ==
  ASSUME DialsAssumption, LinkInv, UNCHANGED mode, Start
  PROVE  LinkInv'
<1> USE DEF LinkInv
<1>1. dials = 0 /\ ~closed /\ awaiting = {} /\ transport = None
  BY DialsAssumption DEF Start, OnlyTheLatest, LinkTyped, Dials
<1>2. redials = 0
  BY RedialsAreFew DEF Start, LinkTyped
<1> QED BY <1>1, <1>2, DialKeepsLink DEF Start, timerVars, healthVars

\* The redial timer fires: what was awaited has gone on.
LEMMA RedialKeepsLink ==
  ASSUME DialsAssumption, LinkInv, UNCHANGED mode, RedialFires
  PROVE  LinkInv'
<1> USE DEF LinkInv
<1>1. redials = 1 /\ transport = None /\ state = "reconnecting" /\ redials' = 0
  BY RedialsAreFew DEF RedialFires
<1>2. ~closed
  BY <1>1 DEF LinkTornDown
<1>3. everConnected \/ mode = "tcp"
  BY <1>1 DEF FirstLink, LinkTyped
<1>4. awaiting = {}
  <2>1. ASSUME NEW t \in awaiting
        PROVE  t \in Settled
    BY <1>1, <1>2, DialsAssumption DEF OpensAreTrue, LinkTyped, Settled, Dials
  <2> QED BY <2>1 DEF RedialFires
<1> QED BY <1>1, <1>2, <1>3, <1>4, DialKeepsLink DEF RedialFires, linkVars, timerVars, healthVars

\* An open() settles.
LEMMA SettlingKeepsLink ==
  ASSUME LinkInv, UNCHANGED mode, NEW t \in Dials, OpenSettles(t)
  PROVE  LinkInv'
<1> USE DEF LinkInv
<1>1. UNCHANGED <<transport, dials, redials, awaiting, linkVars, timerVars, healthVars>>
  BY DEF OpenSettles
<1>2. /\ opening'[t] \in {"resolved", "rejected"}
      /\ \/ socket[t] = "opening" /\ socket'[t] = "open"
         \/ socket[t] = "opening" /\ socket'[t] = "failed" /\ opening'[t] = "rejected"
         \/ socket[t] = "closed" /\ socket'[t] = "closed"
  BY DEF OpenSettles, LinkTyped
<1>3. \A u \in Dials \ {t} : opening'[u] = opening[u] /\ socket'[u] = socket[u]
  BY DEF OpenSettles, LinkTyped
<1>4. /\ socket' \in [Dials -> {"none", "opening", "open", "failed", "closed"}]
      /\ opening' \in [Dials -> {"none", "pending", "resolved", "rejected"}]
  BY DEF OpenSettles, LinkTyped
<1>5. opening[t] = "pending"
  BY DEF OpenSettles
<1>6. LinkTyped'
  BY <1>1, <1>4 DEF LinkTyped, linkVars, timerVars, healthVars
<1>7. OnlyTheLatest' /\ FirstLink' /\ ReadyMeansConnected' /\ LinkTornDown'
  BY <1>1 DEF OnlyTheLatest, FirstLink, ReadyMeansConnected, LinkTornDown, linkVars, timerVars, healthVars
<1>8. OneSweepAcrossOutages' /\ LeaseExcludesFault' /\ RecoveryIsArmed'
  BY <1>1 DEF OneSweepAcrossOutages, LeaseExcludesFault, RecoveryIsArmed, linkVars, timerVars, healthVars
<1>9. NoOrphanSocket'
  BY <1>1, <1>2, <1>3 DEF NoOrphanSocket, linkVars
<1>10. ConnectedMeansLive'
  <2>1. state = "connected" /\ ~closed => transport # t
    BY <1>2 DEF ConnectedMeansLive
  <2> QED BY <1>1, <1>3, <2>1 DEF ConnectedMeansLive, LinkTyped, linkVars, timerVars
<1>11. OpensAreTrue'
  <2>1. \A u \in Dials : socket'[u] = "opening" => opening'[u] = "pending"
    BY <1>2, <1>3 DEF OpensAreTrue
  <2>2. ASSUME NEW u \in awaiting'
        PROVE  /\ opening'[u] # "none"
               /\ ~closed' /\ u # transport' => opening'[u] # "pending"
               /\ ~closed' /\ u = transport' /\ opening'[u] = "pending" => socket'[u] = "opening"
               /\ ~closed' /\ u = transport' /\ opening'[u] = "resolved" => socket'[u] = "open"
    <3>1. u \in awaiting /\ u \in Dials
      BY <1>1 DEF LinkTyped
    <3>2. CASE u = t
      <4>1. socket[t] = "closed" => closed \/ t # transport
        BY <1>5, <3>1, <3>2 DEF OpensAreTrue
      <4> QED BY <1>1, <1>2, <3>2, <4>1 DEF linkVars
    <3>3. CASE u # t
      BY <1>1, <1>3, <3>1, <3>3 DEF OpensAreTrue, linkVars
    <3> QED BY <3>2, <3>3
  <2> QED BY <2>1, <2>2 DEF OpensAreTrue
<1> QED BY <1>6, <1>7, <1>8, <1>9, <1>10, <1>11

\* What a continuation of t's open() takes from the invariant: it is the
\* latest dial, and no link is up.
LEMMA ContinuationIsOfTheLatest ==
  ASSUME DialsAssumption, LinkInv, NEW t \in Dials, Continues(t)
  PROVE  /\ t \in awaiting /\ t = dials /\ awaiting' = {} /\ ~ready
         /\ ~closed /\ t # transport => transport = None
<1> USE DEF LinkInv
<1>1. t \in awaiting /\ t = dials /\ awaiting' = {}
  BY DEF Continues, Settled, OnlyTheLatest
<1>2. transport # t => transport = None
  BY <1>1 DEF OnlyTheLatest
<1>3. ~ready
  BY <1>1, <1>2 DEF ReadyMeansConnected, ConnectedMeansLive
<1> QED BY <1>1, <1>2, <1>3

\* An open() that goes on and leaves the rest of the link as it is.
LEMMA ContinuationKeepsLink ==
  ASSUME DialsAssumption, LinkInv, UNCHANGED mode, NEW t \in Dials, Continues(t),
         closed \/ transport # t,
         UNCHANGED <<linkVars, transport, dials, opening, redials, timerVars, healthVars>>,
         socket' = socket \/ socket' = [socket EXCEPT ![t] = "closed"]
  PROVE  LinkInv'
<1> USE DEF LinkInv
<1>1. t \in awaiting /\ awaiting' = {} /\ ~ready /\ (~closed => transport = None)
  BY ContinuationIsOfTheLatest
<1>2. socket' \in [Dials -> {"none", "opening", "open", "failed", "closed"}]
  BY DEF LinkTyped
<1>3. \A u \in Dials : socket'[u] = socket[u] \/ socket'[u] = "closed"
  BY DEF LinkTyped
<1>4. LinkTyped'
  BY <1>1, <1>2 DEF LinkTyped, linkVars, timerVars, healthVars
<1>5. OnlyTheLatest' /\ FirstLink' /\ ReadyMeansConnected' /\ LinkTornDown'
  BY <1>1 DEF OnlyTheLatest, FirstLink, ReadyMeansConnected, LinkTornDown, linkVars, timerVars, healthVars
<1>6. OneSweepAcrossOutages' /\ LeaseExcludesFault'
  BY DEF OneSweepAcrossOutages, LeaseExcludesFault, linkVars, timerVars, healthVars
<1>7. RecoveryIsArmed'
  <2>1. ~closed => transport \notin awaiting
    BY <1>1, DialsAssumption DEF LinkTyped, Dials
  <2> QED BY <1>1, <2>1 DEF RecoveryIsArmed, linkVars
<1>8. NoOrphanSocket'
  BY <1>3 DEF NoOrphanSocket, linkVars
<1>9. ConnectedMeansLive'
  BY <1>1 DEF ConnectedMeansLive, linkVars, timerVars
<1>10. OpensAreTrue'
  BY <1>1, <1>3 DEF OpensAreTrue
<1> QED BY <1>4, <1>5, <1>6, <1>7, <1>8, <1>9, <1>10

\* start() goes on after a failed open().
LEMMA StartFailureKeepsLink ==
  ASSUME DialsAssumption, LinkInv, UNCHANGED mode, StartFails
  PROVE  LinkInv'
<1> USE DEF LinkInv
<1>1. 1 \in Dials /\ Continues(1) /\ UNCHANGED <<timerVars, healthVars>>
  BY DialsAssumption DEF StartFails, Dials
<1>2. 1 = dials /\ 1 \in awaiting /\ awaiting' = {} /\ ~ready /\ (~closed /\ transport # 1 => transport = None)
  BY <1>1, ContinuationIsOfTheLatest
<1>3. ~everConnected /\ ~beating
  BY <1>2 DEF FirstLink, ConnectedMeansLive
<1>4. CASE closed
  <2>1. UNCHANGED <<linkVars, transport, dials, socket, opening, redials>>
    BY <1>4 DEF StartFails
  <2> QED BY <1>1, <1>4, <2>1, ContinuationKeepsLink
<1>5. CASE ~closed /\ mode = "tcp"
  <2>1. ScheduleReconnect /\ ready' = FALSE /\ beating' = FALSE
    BY <1>1, <1>2, <1>3, <1>5 DEF StartFails, timerVars, LinkTyped
  <2> QED BY <1>1, <1>2, <1>5, <2>1, ReconnectKeepsLink DEF timerVars, healthVars
<1>6. CASE ~closed /\ mode # "tcp"
  <2>1. /\ state' = "error"
        /\ UNCHANGED <<ready, everConnected, initialReconnects, closed, doneCalled, finishing,
                       transport, dials, socket, opening, redials>>
    BY <1>6 DEF StartFails
  <2>2. redials = 0
    BY <1>3, <1>6 DEF FirstLink
  <2>3. LinkTyped'
    BY <1>1, <1>2, <2>1 DEF LinkTyped, timerVars, healthVars
  <2>4. OnlyTheLatest' /\ FirstLink' /\ ReadyMeansConnected' /\ LinkTornDown'
    BY <1>1, <1>2, <1>3, <2>1 DEF OnlyTheLatest, FirstLink, ReadyMeansConnected, LinkTornDown, timerVars, healthVars
  <2>5. OneSweepAcrossOutages' /\ LeaseExcludesFault' /\ ConnectedMeansLive'
    BY <1>1, <2>1 DEF OneSweepAcrossOutages, LeaseExcludesFault, ConnectedMeansLive, timerVars, healthVars
  <2>6. NoOrphanSocket' /\ OpensAreTrue'
    BY <1>2, <2>1 DEF NoOrphanSocket, OpensAreTrue
  <2>7. RecoveryIsArmed'
    BY <2>1, <2>2 DEF RecoveryIsArmed
  <2> QED BY <2>3, <2>4, <2>5, <2>6, <2>7
<1> QED BY <1>4, <1>5, <1>6

\* An attempt goes on after a failed open().
LEMMA RedialFailureKeepsLink ==
  ASSUME DialsAssumption, LinkInv, UNCHANGED mode, NEW t \in Dials, RedialFails(t)
  PROVE  LinkInv'
<1> USE DEF LinkInv
<1>1. t # 1 /\ Continues(t) /\ UNCHANGED <<timerVars, healthVars>>
  BY DEF RedialFails
<1>2. t = dials /\ t \in awaiting /\ awaiting' = {} /\ ~ready
  BY <1>1, ContinuationIsOfTheLatest
<1>3. (everConnected \/ mode = "tcp") /\ ~beating
  BY <1>1, <1>2 DEF FirstLink, ConnectedMeansLive, Dials
<1>4. CASE closed
  <2>1. UNCHANGED <<linkVars, transport, dials, socket, opening, redials>>
    BY <1>4 DEF RedialFails
  <2> QED BY <1>1, <1>4, <2>1, ContinuationKeepsLink
<1>5. CASE ~closed
  <2>1. ScheduleReconnect /\ ready' = FALSE /\ beating' = FALSE
    BY <1>1, <1>2, <1>3, <1>5 DEF RedialFails, timerVars, LinkTyped
  <2> QED BY <1>1, <1>2, <1>3, <1>5, <2>1, ReconnectKeepsLink DEF timerVars, healthVars
<1> QED BY <1>4, <1>5

\* A transport that is open and current comes up.
LEMMA ComingUpKeepsLink ==
  ASSUME DialsAssumption, LinkInv, UNCHANGED mode, NEW t \in Dials, LinkIsCurrent(t),
         ready' = TRUE, everConnected' = TRUE, state' = "connected", beating' = TRUE, sweeps' = 1,
         UNCHANGED <<initialReconnects, closed, doneCalled, finishing,
                     transport, dials, socket, opening, redials, healthVars>>
  PROVE  LinkInv'
<1> USE DEF LinkInv
<1>1. Continues(t) /\ opening[t] = "resolved" /\ ~closed /\ transport = t
  BY DEF LinkIsCurrent
<1>2. t = dials /\ t \in awaiting /\ awaiting' = {} /\ ~ready /\ t # None
  BY <1>1, ContinuationIsOfTheLatest, DialsAssumption DEF Dials
<1>3. socket[t] = "open"
  BY <1>1, <1>2 DEF OpensAreTrue
<1>4. redials = 0
  BY <1>1, <1>2, RedialsAreFew
<1>5. LinkTyped'
  BY <1>2 DEF LinkTyped, healthVars
<1>6. OnlyTheLatest' /\ FirstLink' /\ ReadyMeansConnected' /\ LinkTornDown'
  BY <1>1, <1>2 DEF OnlyTheLatest, FirstLink, ReadyMeansConnected, LinkTornDown, healthVars, LinkTyped, Dials
<1>7. OneSweepAcrossOutages' /\ LeaseExcludesFault'
  BY DEF OneSweepAcrossOutages, LeaseExcludesFault, healthVars
<1>8. ConnectedMeansLive'
  BY <1>1, <1>2, <1>3 DEF ConnectedMeansLive
<1>9. NoOrphanSocket' /\ OpensAreTrue'
  BY <1>2 DEF NoOrphanSocket, OpensAreTrue
<1>10. RecoveryIsArmed'
  BY <1>4 DEF RecoveryIsArmed
<1> QED BY <1>5, <1>6, <1>7, <1>8, <1>9, <1>10

\* An error of the live or opening link, of its socket or of the watchdog.
LEMMA ErrorKeepsLink ==
  ASSUME DialsAssumption, LinkInv, UNCHANGED mode, transport # None, ~closed, TransportError,
         \/ ready
         \/ socket[transport] = "opening"
         \/ socket[transport] = "open" /\ (transport = 1 /\ transport \in awaiting => mode = "tcp")
  PROVE  LinkInv'
<1> USE DEF LinkInv
<1>1. ready' = FALSE /\ beating' = FALSE /\ UNCHANGED <<sweeps, healthVars>>
  BY DEF TransportError
<1>2. CASE everConnected \/ mode = "tcp"
  <2>1. ScheduleReconnect /\ awaiting' = awaiting
    BY <1>2 DEF TransportError
  <2> QED BY <1>1, <1>2, <2>1, ReconnectKeepsLink DEF healthVars
<1>3. CASE ~everConnected /\ mode # "tcp"
  <2>1. /\ state' = "error"
        /\ socket' = [socket EXCEPT ![transport] = "failed"]
        /\ opening' = [opening EXCEPT ![transport] = IF @ = "pending" THEN "rejected" ELSE @]
        /\ UNCHANGED <<everConnected, initialReconnects, closed, doneCalled, finishing,
                       transport, dials, redials, awaiting>>
    BY <1>3 DEF TransportError, GiveUp
  <2>2. transport = 1 /\ transport \in Dials /\ redials = 0 /\ ~ready
    BY <1>3 DEF FirstLink, OnlyTheLatest, LinkTyped, ReadyMeansConnected, Dials
  <2>3. /\ socket' \in [Dials -> {"none", "opening", "open", "failed", "closed"}]
        /\ \A t \in Dials : socket'[t] = IF t = transport THEN "failed" ELSE socket[t]
    BY <2>1, <2>2 DEF LinkTyped
  <2>4. /\ opening' \in [Dials -> {"none", "pending", "resolved", "rejected"}]
        /\ \A t \in Dials :
             opening'[t] = IF t = transport /\ opening[t] = "pending" THEN "rejected" ELSE opening[t]
    BY <2>1, <2>2 DEF LinkTyped
  <2>5. LinkTyped'
    BY <1>1, <2>1, <2>3, <2>4 DEF LinkTyped, healthVars
  <2>6. OnlyTheLatest' /\ FirstLink' /\ ReadyMeansConnected' /\ LinkTornDown'
    BY <1>1, <2>1 DEF OnlyTheLatest, FirstLink, ReadyMeansConnected, LinkTornDown, healthVars
  <2>7. OneSweepAcrossOutages' /\ LeaseExcludesFault' /\ ConnectedMeansLive'
    BY <1>1, <2>1 DEF OneSweepAcrossOutages, LeaseExcludesFault, ConnectedMeansLive, healthVars
  <2>8. NoOrphanSocket'
    BY <2>1, <2>3 DEF NoOrphanSocket
  <2>9. RecoveryIsArmed'
    BY <2>1, <2>2 DEF RecoveryIsArmed
  <2>10. OpensAreTrue'
    <3>1. \A t \in Dials : socket'[t] = "opening" => opening'[t] = "pending"
      BY <2>3, <2>4 DEF OpensAreTrue
    <3>2. transport \in awaiting => opening[transport] # "resolved"
      BY <1>3, <2>2 DEF OpensAreTrue
    <3>3. ASSUME NEW t \in awaiting'
          PROVE  /\ opening'[t] # "none"
                 /\ t # transport' => opening'[t] # "pending"
                 /\ t = transport' => opening'[t] \notin {"pending", "resolved"}
      <4>1. t \in awaiting /\ t \in Dials /\ transport' = transport
        BY <2>1 DEF LinkTyped
      <4> QED BY <2>4, <3>2, <4>1 DEF OpensAreTrue
    <3> QED BY <3>1, <3>3 DEF OpensAreTrue
  <2> QED BY <2>5, <2>6, <2>7, <2>8, <2>9, <2>10
<1> QED BY <1>2, <1>3

\* The pump after such an error: stopped, and waiting for older reports only.
LEMMA ErrorKeepsPump ==
  ASSUME ConnectionInv, transport # None, ~closed, closed' = closed, TransportError, writes' \subseteq writes,
         everConnected' = everConnected, pumpQueued' \in BOOLEAN, LinkInv'
  PROVE  PumpInv'
<1> USE DEF ConnectionInv, PumpInv
<1>1. /\ ready' = FALSE /\ draining' = FALSE /\ queued' = queued
      /\ armed' = armed \ {writeTimer} /\ writeTimer' = None
  BY DEF TransportError, Disarm
<1>2. armed' = {}
  BY <1>1 DEF EveryWriteIsWatched
<1>3. transport' # None => writes' = {}
  <2>1. CASE everConnected \/ mode = "tcp"
    BY <2>1, ReconnectIsScheduled, DialsAssumption DEF TransportError, LinkInv
  <2>2. CASE ~everConnected /\ mode # "tcp"
    BY <2>2 DEF WritesAreExclusive, LinkInv, ReadyMeansConnected
  <2> QED BY <2>1, <2>2
<1>4. PumpTyped'
  BY <1>1, <1>2 DEF PumpTyped
<1>5. WritesAreExclusive' /\ EveryWriteIsWatched'
  BY <1>1, <1>2, <1>3 DEF WritesAreExclusive, EveryWriteIsWatched
<1>6. PumpNeverSleeps' /\ NoStaleIntent' /\ QueueIsOfTheLink'
  BY <1>1 DEF PumpNeverSleeps, NoStaleIntent, QueueIsOfTheLink
<1> QED BY <1>4, <1>5, <1>6

\* The socket of the transport fails.
LEMMA SocketFailureKeeps ==
  ASSUME DialsAssumption, ConnectionInv, UNCHANGED mode, SocketFails
  PROVE  ConnectionInv'
<1> USE DEF ConnectionInv
<1>1. /\ transport # None /\ TransportError
      /\ \/ socket[transport] = "opening"
         \/ socket[transport] = "open" /\ (transport = 1 /\ transport \in awaiting => mode = "tcp")
  BY DEF SocketFails
<1>2. ~closed
  BY <1>1 DEF LinkInv, LinkTyped, NoOrphanSocket
<1>3. LinkInv'
  BY <1>1, <1>2, ErrorKeepsLink
<1>4. writes' \subseteq writes /\ pumpQueued' \in BOOLEAN
  BY DEF SocketFails, PumpInv, PumpTyped
<1>5. closed' = closed /\ everConnected' = everConnected
  BY <1>1 DEF TransportError, ScheduleReconnect, GiveUp
<1> QED BY <1>1, <1>2, <1>3, <1>4, <1>5, ErrorKeepsPump

\* The watchdog takes the link down.
LEMMA WatchdogKeeps ==
  ASSUME DialsAssumption, ConnectionInv, UNCHANGED mode, WriteTimesOut
  PROVE  ConnectionInv'
<1> USE DEF ConnectionInv
<1>1. TransportError /\ armed # {} /\ writes' \subseteq writes /\ pumpQueued' = pumpQueued
  BY DEF WriteTimesOut
<1>2. ready
  BY <1>1 DEF PumpInv, WritesAreExclusive
<1>3. transport # None /\ ~closed
  BY <1>2 DEF LinkInv, ReadyMeansConnected, ConnectedMeansLive
<1>4. LinkInv'
  BY <1>1, <1>2, <1>3, ErrorKeepsLink
<1>5. closed' = closed /\ everConnected' = everConnected
  BY <1>1 DEF TransportError, ScheduleReconnect, GiveUp
<1>6. pumpQueued' \in BOOLEAN
  BY <1>1 DEF PumpInv, PumpTyped
<1> QED BY <1>1, <1>3, <1>4, <1>5, <1>6, ErrorKeepsPump

\* close() stops everything it holds.
LEMMA CloseKeeps ==
  ASSUME DialsAssumption, ConnectionInv, UNCHANGED mode, Close
  PROVE  ConnectionInv'
<1> USE DEF ConnectionInv, LinkInv, PumpInv
<1>1. /\ state # "idle" /\ ~closed /\ closed' = TRUE
      /\ beating' = FALSE /\ leases' = {} /\ redials' = 0 /\ queued' = {} /\ ready' = FALSE
      /\ UNCHANGED <<everConnected, initialReconnects, transport, dials, awaiting, faults>>
  BY DEF Close, CancelTimers
<1>2. sweeps' = 0
  BY DEF Close, CancelTimers, OneSweepAcrossOutages, LinkTyped
<1>3. armed' = {} /\ writeTimer' = None
  BY DEF Close, CancelTimers, Disarm, EveryWriteIsWatched
<1>4. /\ doneCalled' \in BOOLEAN /\ finishing' \in BOOLEAN
      /\ state' \in {state, "closed"}
      /\ socket' \in [Dials -> {"none", "opening", "open", "failed", "closed"}]
      /\ opening' \in [Dials -> {"none", "pending", "resolved", "rejected"}]
  BY DEF Close, LinkTyped
<1>5. \A t \in Dials : socket'[t] # "opening" /\ socket'[t] # "open"
  <2>1. CASE transport = None
    BY <1>1, <2>1, DialsAssumption DEF Close, NoOrphanSocket, Dials
  <2>2. CASE transport # None
    <3>1. socket' = [socket EXCEPT ![transport] = "closed"]
      BY <2>2 DEF Close
    <3> QED BY <3>1 DEF NoOrphanSocket, LinkTyped
  <2> QED BY <2>1, <2>2
<1>6. \A t \in Dials : opening[t] # "none" => opening'[t] # "none"
  BY DEF Close, LinkTyped
<1>7. writes' \subseteq writes /\ pumpQueued' \in BOOLEAN /\ draining' \in BOOLEAN
  BY DEF Close, PumpTyped
<1>8. LinkTyped'
  BY <1>1, <1>2, <1>4 DEF LinkTyped
<1>9. OnlyTheLatest' /\ FirstLink' /\ ReadyMeansConnected' /\ LinkTornDown'
  BY <1>1, <1>2, <1>4 DEF OnlyTheLatest, FirstLink, ReadyMeansConnected, LinkTornDown
<1>10. OneSweepAcrossOutages' /\ LeaseExcludesFault' /\ ConnectedMeansLive' /\ RecoveryIsArmed'
  BY <1>1 DEF OneSweepAcrossOutages, LeaseExcludesFault, ConnectedMeansLive, RecoveryIsArmed
<1>11. NoOrphanSocket' /\ OpensAreTrue'
  BY <1>1, <1>5, <1>6 DEF NoOrphanSocket, OpensAreTrue, LinkTyped
<1>12. PumpTyped'
  BY <1>1, <1>3, <1>7 DEF PumpTyped
<1>13. WritesAreExclusive' /\ EveryWriteIsWatched'
  BY <1>1, <1>3, <1>7 DEF WritesAreExclusive, EveryWriteIsWatched
<1>14. PumpNeverSleeps' /\ NoStaleIntent' /\ QueueIsOfTheLink'
  BY <1>1, <1>7 DEF PumpNeverSleeps, NoStaleIntent, QueueIsOfTheLink
<1> QED BY <1>8, <1>9, <1>10, <1>11, <1>12, <1>13, <1>14

\* The transport reports that it closed.
LEMMA CloseReportKeepsLink ==
  ASSUME LinkInv, UNCHANGED mode, CloseReported
  PROVE  LinkInv'
<1> USE DEF LinkInv
<1>1. /\ closed /\ finishing' = FALSE /\ doneCalled' = TRUE /\ state' = "closed"
      /\ UNCHANGED <<ready, everConnected, initialReconnects, closed, dialVars, timerVars, healthVars>>
  BY DEF CloseReported, ReadyMeansConnected
<1>2. LinkTyped'
  BY <1>1 DEF LinkTyped, dialVars, timerVars, healthVars
<1>3. OnlyTheLatest' /\ FirstLink' /\ ReadyMeansConnected' /\ LinkTornDown'
  BY <1>1 DEF OnlyTheLatest, FirstLink, ReadyMeansConnected, LinkTornDown, dialVars, timerVars, healthVars
<1>4. OneSweepAcrossOutages' /\ LeaseExcludesFault' /\ ConnectedMeansLive'
  BY <1>1 DEF OneSweepAcrossOutages, LeaseExcludesFault, ConnectedMeansLive, dialVars, timerVars, healthVars
<1>5. NoOrphanSocket' /\ OpensAreTrue'
  BY <1>1 DEF NoOrphanSocket, OpensAreTrue, dialVars
<1>6. RecoveryIsArmed'
  BY <1>1 DEF RecoveryIsArmed, LinkTornDown, dialVars
<1> QED BY <1>2, <1>3, <1>4, <1>5, <1>6

\* A lease is taken, given up or runs out.
LEMMA HealthKeepsLink ==
  ASSUME LinkInv, UNCHANGED mode, NEW id \in Identities,
         AssertHealthy(id) \/ AssertUnhealthy(id) \/ LeaseExpires(id)
  PROVE  LinkInv'
<1> USE DEF LinkInv
<1>1. /\ UNCHANGED <<linkVars, dialVars, timerVars>>
      /\ faults' \subseteq Identities /\ leases' \subseteq Identities /\ leases' \cap faults' = {}
      /\ closed => leases' = {}
  BY DEF AssertHealthy, AssertUnhealthy, LeaseExpires, LinkTyped, LeaseExcludesFault, LinkTornDown
<1>2. LinkTyped'
  BY <1>1 DEF LinkTyped, linkVars, dialVars, timerVars
<1>3. OnlyTheLatest' /\ FirstLink' /\ ReadyMeansConnected' /\ LinkTornDown'
  BY <1>1 DEF OnlyTheLatest, FirstLink, ReadyMeansConnected, LinkTornDown, linkVars, dialVars, timerVars
<1>4. OneSweepAcrossOutages' /\ LeaseExcludesFault' /\ ConnectedMeansLive'
  BY <1>1 DEF OneSweepAcrossOutages, LeaseExcludesFault, ConnectedMeansLive, linkVars, dialVars, timerVars
<1>5. NoOrphanSocket' /\ OpensAreTrue' /\ RecoveryIsArmed'
  BY <1>1 DEF NoOrphanSocket, OpensAreTrue, RecoveryIsArmed, linkVars, dialVars
<1> QED BY <1>2, <1>3, <1>4, <1>5

-----------------------------------------------------------------------------
(* Every step *)

\* A message or a heartbeat joins the queue and is pumped.
LEMMA QueueingKeeps ==
  ASSUME DialsAssumption, WriteIdsAssumption, ConnectionInv, UNCHANGED mode,
         NEW n \in Names \cup Identities, Pump(With(n), ready, pumpQueued),
         UNCHANGED <<linkVars, dialVars, timerVars, healthVars>>
  PROVE  ConnectionInv'
<1> USE DEF ConnectionInv
<1>1. LinkInv'
  BY LinkLeftAlone
<1>2. ready => transport \in Dials /\ ~closed /\ everConnected
  BY DEF LinkInv, LinkTyped, ReadyMeansConnected, ConnectedMeansLive
<1>3. With(n) \in SUBSET Frame
  BY <1>2 DEF With, Frame, PumpInv, PumpTyped
<1>4. ready => \A f \in With(n) : f.link = transport \/ transport = 1
  BY DEF With, PumpInv, QueueIsOfTheLink
<1>5. ready \in BOOLEAN /\ pumpQueued \in BOOLEAN /\ ready' = ready /\ UNCHANGED <<transport, closed, everConnected>>
  BY DEF LinkInv, LinkTyped, PumpInv, PumpTyped, linkVars, dialVars
<1>6. PumpInv'
  BY <1>2, <1>3, <1>4, <1>5, PumpKeeps
<1> QED BY <1>1, <1>6

\* The microtask pumps what is queued.
LEMMA MicrotaskKeeps ==
  ASSUME DialsAssumption, WriteIdsAssumption, ConnectionInv, UNCHANGED mode, PumpMicrotask
  PROVE  ConnectionInv'
<1> USE DEF ConnectionInv
<1>1. Pump(queued, ready, FALSE) /\ UNCHANGED <<linkVars, dialVars, timerVars, healthVars>>
  BY DEF PumpMicrotask
<1>2. LinkInv'
  BY <1>1, LinkLeftAlone
<1>3. ready => transport \in Dials /\ ~closed /\ everConnected
  BY DEF LinkInv, LinkTyped, ReadyMeansConnected, ConnectedMeansLive
<1>4. queued \in SUBSET Frame /\ (ready => \A f \in queued : f.link = transport \/ transport = 1)
  BY DEF PumpInv, PumpTyped, QueueIsOfTheLink
<1>5. ready \in BOOLEAN /\ ready' = ready /\ UNCHANGED <<transport, closed, everConnected>>
  BY <1>1 DEF LinkInv, LinkTyped, linkVars, dialVars
<1>6. PumpInv'
  BY <1>1, <1>3, <1>4, <1>5, PumpKeeps
<1> QED BY <1>2, <1>6

\* A link comes up and its pump is kicked: with what waited, the first time,
\* and with an empty queue after an outage.
LEMMA ComingUpKeeps ==
  ASSUME DialsAssumption, WriteIdsAssumption, ConnectionInv, UNCHANGED mode, NEW t \in Dials,
         (t = 1 /\ StartSucceeds) \/ RedialSucceeds(t)
  PROVE  ConnectionInv'
<1> USE DEF ConnectionInv
<1>1. LinkIsCurrent(t)
  BY DEF StartSucceeds, RedialSucceeds
<1>2. Continues(t) /\ ~closed /\ transport = t
  BY <1>1 DEF LinkIsCurrent
<1>3. t \in awaiting /\ t = dials /\ ~ready /\ transport # None
  BY <1>2, ContinuationIsOfTheLatest, DialsAssumption DEF Dials
<1>4. PICK q \in SUBSET Frame : Resume(q) /\ \A f \in q : f.link = transport \/ transport = 1
  BY <1>2 DEF StartSucceeds, RedialSucceeds, PumpInv, PumpTyped
<1>5. /\ ready' = TRUE /\ everConnected' = TRUE /\ state' = "connected" /\ beating' = TRUE
      /\ Pump(q, TRUE, pumpQueued)
      /\ UNCHANGED <<initialReconnects, closed, doneCalled, finishing,
                     transport, dials, socket, opening, redials, healthVars>>
  BY <1>4 DEF Resume
<1>6. sweeps' = 1
  <2>1. t = 1 => ~everConnected
    BY <1>3 DEF LinkInv, FirstLink
  <2>2. ~closed => sweeps = IF everConnected THEN 1 ELSE 0
    BY DEF LinkInv, OneSweepAcrossOutages
  <2> QED BY <1>2, <2>1, <2>2 DEF StartSucceeds, RedialSucceeds
<1>7. LinkInv'
  BY <1>1, <1>5, <1>6, ComingUpKeepsLink
<1>8. ~draining /\ writes = {} /\ armed = {}
  BY <1>2, <1>3 DEF PumpInv, PumpTyped, WritesAreExclusive
<1>9. pumpQueued \in BOOLEAN
  BY DEF PumpInv, PumpTyped
<1>10. PumpInv'
  BY <1>2, <1>4, <1>5, <1>8, <1>9, PumpKeeps
<1> QED BY <1>7, <1>10

\* A step that does not touch the pump: the dial, the continuation of an open()
\* that failed or came too late, and the health leases.
LEMMA PumpOutOfPlay ==
  ASSUME DialsAssumption, ConnectionInv, LinkInv', UNCHANGED <<pumpVars, closed, everConnected>>,
         \/ UNCHANGED <<ready, transport>>
         \/ RedialFires
         \/ Start
         \/ \E t \in Dials : Continues(t) /\ ready' = ready /\ (transport' = transport \/ transport' = None)
  PROVE  PumpInv'
<1> USE DEF ConnectionInv
<1>1. CASE UNCHANGED <<ready, transport>>
  BY <1>1, PumpLeftAlone
<1>2. CASE RedialFires
  <2>1. transport = None /\ writes = {} /\ ready' = ready
    BY <1>2, RedialsAreFew DEF RedialFires, LinkInv, linkVars
  <2>2. ~ready
    BY <2>1 DEF LinkInv, ReadyMeansConnected, ConnectedMeansLive
  <2> QED BY <2>1, <2>2, PumpLeftAlone
<1>3. CASE Start
  <2>1. ~ready /\ ready' = ready /\ ~closed
    BY <1>3 DEF Start, LinkInv, ReadyMeansConnected, OnlyTheLatest
  <2>2. writes = {}
    BY <1>3, <2>1 DEF Start, LinkInv, PumpInv, WritesAreExclusive, FirstLink, OnlyTheLatest
  <2> QED BY <2>1, <2>2, PumpLeftAlone
<1>4. CASE \E t \in Dials : Continues(t) /\ ready' = ready /\ (transport' = transport \/ transport' = None)
  <2>1. ~ready
    BY <1>4, ContinuationIsOfTheLatest
  <2> QED BY <1>4, <2>1, PumpLeftAlone
<1> QED BY <1>1, <1>2, <1>3, <1>4

\* The initial state.
LEMMA ConnectionStarts ==
  ASSUME DialsAssumption, Init
  PROVE  ConnectionInv
<1> USE DEF Init
<1>1. LinkTyped /\ PumpTyped
  <2>1. 0 \in 0..MaxDials /\ 0 \in 0..INITIAL_TCP_RETRIES
    BY DEF DialsAssumption, INITIAL_TCP_RETRIES
  <2>2. LinkTyped
    BY <2>1 DEF LinkTyped
  <2>3. PumpTyped
    BY DEF PumpTyped
  <2> QED BY <2>2, <2>3
<1>2. OnlyTheLatest /\ OpensAreTrue /\ FirstLink /\ ReadyMeansConnected /\ LinkTornDown
  BY DEF OnlyTheLatest, OpensAreTrue, FirstLink, ReadyMeansConnected, LinkTornDown
<1>3. ConnectedMeansLive /\ OneSweepAcrossOutages /\ LeaseExcludesFault /\ NoOrphanSocket /\ RecoveryIsArmed
  BY DEF ConnectedMeansLive, OneSweepAcrossOutages, LeaseExcludesFault, NoOrphanSocket, RecoveryIsArmed
<1>4. WritesAreExclusive /\ QueueIsOfTheLink /\ EveryWriteIsWatched /\ PumpNeverSleeps /\ NoStaleIntent
  BY DEF WritesAreExclusive, QueueIsOfTheLink, EveryWriteIsWatched, PumpNeverSleeps, NoStaleIntent
<1> QED BY <1>1, <1>2, <1>3, <1>4 DEF ConnectionInv, LinkInv, PumpInv

\* Every step keeps the invariant.
LEMMA ConnectionSteps ==
  ASSUME DialsAssumption, WriteIdsAssumption, ConnectionInv, [Next]_<<vars, mode>>
  PROVE  ConnectionInv'
<1> USE DEF ConnectionInv
<1>1. CASE UNCHANGED <<vars, mode>>
  <2>1. LinkInv'
    BY <1>1, LinkLeftAlone DEF vars
  <2>2. UNCHANGED <<pumpVars, ready, everConnected, closed, transport>>
    BY <1>1 DEF vars, linkVars, dialVars
  <2> QED BY <2>1, <2>2, PumpLeftAlone
<1>2. CASE Next
  <2> USE <1>2 DEF Next
  <2>1. CASE Start
    <3>1. LinkInv' /\ UNCHANGED <<pumpVars, closed, everConnected>>
      BY <2>1, StartKeepsLink DEF Start
    <3> QED BY <2>1, <3>1, PumpOutOfPlay
  <2>2. ASSUME NEW t \in Dials, OpenSettles(t)
        PROVE  ConnectionInv'
    <3>1. LinkInv' /\ UNCHANGED <<pumpVars, ready, transport, closed, everConnected>>
      BY <2>2, SettlingKeepsLink DEF OpenSettles, linkVars
    <3> QED BY <3>1, PumpOutOfPlay
  <2>3. CASE StartFails
    <3>1. LinkInv' /\ 1 \in Dials /\ Continues(1) /\ UNCHANGED <<pumpVars, ready, closed, everConnected>>
      BY <2>3, StartFailureKeepsLink, DialsAssumption DEF StartFails, Dials, linkVars, ScheduleReconnect
    <3>2. transport' = transport \/ transport' = None
      BY <2>3 DEF StartFails, ScheduleReconnect, scheduleVars, DetachDead
    <3> QED BY <3>1, <3>2, PumpOutOfPlay
  <2>4. CASE StartSucceeds
    BY <2>4, ComingUpKeeps, DialsAssumption DEF Dials
  <2>5. ASSUME NEW t \in Dials, Stale(t)
        PROVE  ConnectionInv'
    <3>1. Continues(t) /\ UNCHANGED <<pumpVars, linkVars, transport, dials, opening, redials, timerVars, healthVars>>
      BY <2>5 DEF Stale
    <3>2. LinkInv'
      BY <2>5, <3>1, ContinuationKeepsLink DEF Stale
    <3>3. UNCHANGED <<pumpVars, ready, transport, closed, everConnected>>
      BY <3>1 DEF linkVars
    <3> QED BY <3>2, <3>3, PumpOutOfPlay
  <2>6. CASE RedialFires
    <3>1. LinkInv' /\ UNCHANGED <<pumpVars, closed, everConnected>>
      BY <2>6, RedialKeepsLink DEF RedialFires, linkVars
    <3> QED BY <2>6, <3>1, PumpOutOfPlay
  <2>7. ASSUME NEW t \in Dials, RedialFails(t)
        PROVE  ConnectionInv'
    <3>1. LinkInv' /\ Continues(t) /\ UNCHANGED <<pumpVars, ready, closed, everConnected>>
      BY <2>7, RedialFailureKeepsLink DEF RedialFails, linkVars, ScheduleReconnect
    <3>2. transport' = transport \/ transport' = None
      BY <2>7 DEF RedialFails, ScheduleReconnect, scheduleVars, DetachDead
    <3> QED BY <3>1, <3>2, PumpOutOfPlay
  <2>8. ASSUME NEW t \in Dials, RedialSucceeds(t)
        PROVE  ConnectionInv'
    BY <2>8, ComingUpKeeps
  <2>9. ASSUME NEW n \in Names, Send(n)
        PROVE  ConnectionInv'
    BY <2>9, QueueingKeeps DEF Send
  <2>10. ASSUME NEW id \in Identities, Beat(id)
         PROVE  ConnectionInv'
    BY <2>10, QueueingKeeps DEF Beat
  <2>11. CASE PumpMicrotask
    BY <2>11, MicrotaskKeeps
  <2>12. ASSUME NEW w \in writes, WriteReports(w)
         PROVE  ConnectionInv'
    <3>1. LinkInv'
      BY <2>12, LinkLeftAlone DEF WriteReports
    <3> QED BY <2>12, <3>1, ReportKeepsPump
  <2>13. CASE SocketFails
    BY <2>13, SocketFailureKeeps
  <2>14. CASE WriteTimesOut
    BY <2>14, WatchdogKeeps
  <2>15. CASE Close
    BY <2>15, CloseKeeps
  <2>16. CASE CloseReported
    <3>1. LinkInv' /\ UNCHANGED <<pumpVars, ready, transport, closed, everConnected>>
      BY <2>16, CloseReportKeepsLink DEF CloseReported, dialVars
    <3> QED BY <3>1, PumpOutOfPlay
  <2>17. ASSUME NEW id \in Identities, AssertHealthy(id) \/ AssertUnhealthy(id) \/ LeaseExpires(id)
         PROVE  ConnectionInv'
    <3>1. LinkInv' /\ UNCHANGED <<pumpVars, ready, transport, closed, everConnected>>
      BY <2>17, HealthKeepsLink DEF AssertHealthy, AssertUnhealthy, LeaseExpires, linkVars, dialVars
    <3> QED BY <3>1, PumpOutOfPlay
  <2> QED BY <2>1, <2>2, <2>3, <2>4, <2>5, <2>6, <2>7, <2>8, <2>9, <2>10, <2>11, <2>12,
             <2>13, <2>14, <2>15, <2>16, <2>17 DEF Step, Redial
<1> QED BY <1>1, <1>2

\* The invariant holds throughout.
LEMMA ConnectionInvariant ==
  ASSUME DialsAssumption, WriteIdsAssumption
  PROVE  Spec => []ConnectionInv
<1>1. Init => ConnectionInv
  BY ConnectionStarts
<1>2. ConnectionInv /\ [Next]_<<vars, mode>> => ConnectionInv'
  BY ConnectionSteps
<1> QED BY <1>1, <1>2, PTL DEF Spec

\* At most one of the unsettled writes is of the current transport.
LEMMA ExclusiveWritesAreOne ==
  ASSUME PumpInv
  PROVE  OneWriteInFlight
<1> DEFINE Current == {w \in writes : w.link = transport}
<1>1. Current = {} \/ \E w : Current = {w}
  BY DEF PumpInv, WritesAreExclusive
<1>2. Cardinality(Current) = 0 \/ Cardinality(Current) = 1
  BY <1>1, FS_EmptySet, FS_Singleton
<1> QED BY <1>2 DEF PumpInv, WritesAreExclusive, OneWriteInFlight

\* What the connection shows of itself is so, for any identities, messages
\* and number of dials: CONNECTED stands over an open socket the runtime owns,
\* one sweep runs from the first link to the close, a redial is armed once and
\* never beside an open(), no socket is orphaned by an error or a close that
\* overtakes an open(), and nothing survives teardown (runtime.js:447, 812, 880).
THEOREM ConnectionIsTrue ==
  ASSUME DialsAssumption, WriteIdsAssumption
  PROVE  Spec => []StateIsTrue
<1>1. ConnectionInv => TypeOK
  BY DEF ConnectionInv, LinkInv, PumpInv, LinkTyped, PumpTyped, TypeOK
<1>2. ConnectionInv => TornDownStaysDown
  BY DEF ConnectionInv, LinkInv, PumpInv, LinkTornDown, WritesAreExclusive, TornDownStaysDown
<1>3. ConnectionInv => StateIsTrue
  BY <1>1, <1>2 DEF ConnectionInv, LinkInv, StateIsTrue, NothingOutlivesItsOwner
<1> QED BY <1>3, ConnectionInvariant, PTL

\* While a link is up its pump carries one write, under the one watchdog that
\* runs, sleeps only on an empty queue, and sends nothing queued for an earlier
\* link, whatever errors, timeouts and late reports came before (runtime.js:505,
\* 564, 650, 903).
THEOREM PumpServesTheLink ==
  ASSUME DialsAssumption, WriteIdsAssumption
  PROVE  Spec => []PumpIsSound
<1>1. ConnectionInv => PumpIsSound
  BY ExclusiveWritesAreOne DEF ConnectionInv, PumpInv, PumpIsSound
<1> QED BY <1>1, ConnectionInvariant, PTL
=============================================================================
