------------------------------ MODULE PeerTable ------------------------------
(***************************************************************************)
(* The peer table (lib/connection/peer-table.js): which components have    *)
(* been heard, how fresh they are, and where to send to reach them.        *)
(*                                                                         *)
(* The endpoints of a component are a sequence because Map order breaks    *)
(* the tie when a failed primary is replaced.  Of the section data only    *)
(* the heartbeat timestamp is kept: it is what freshness ages against.     *)
(* `dead' and `unheard' are history: they change nothing the table does.   *)
(***************************************************************************)
EXTENDS Integers, Sequences, SequencesExt

CONSTANTS
  Components,     \* the senders: records [sysid, compid]
  Endpoints,      \* the address:port pairs frames arrive on
  NoEndpoint,     \* null: no endpoint passed, or no primary
  Never,          \* no heartbeat seen yet
  StaleAge,       \* heartbeatStaleMs
  ExpireAge,      \* heartbeatExpireMs
  SweepPeriod,    \* the driver sweeps at least this often
  MaxNow          \* bound: clock readings

GCS_SYSID_MIN == 250

ComponentsAssumption == \A c \in Components : c.sysid \in Nat /\ c.compid \in Nat
AgesAssumption ==
  /\ StaleAge \in Nat /\ ExpireAge \in Nat /\ StaleAge <= ExpireAge
  /\ SweepPeriod \in Nat \ {0} /\ MaxNow \in Nat
NullsAssumption == NoEndpoint \notin Endpoints /\ Never \notin Nat

VARIABLES
  acceptInvalid,  \* the link's choice: untrusted frames come in, without an endpoint
  listed,     \* the components in the table
  record,     \* [Components -> component record]; meaningful for listed ones
  now,        \* the clock
  lastSweep,  \* when the driver last swept
  dead,       \* history: endpoints that failed and were not heard on since
  unheard     \* history: components demoted and not heard by a routable frame since

vars == <<listed, record, now, lastSweep, dead, unheard>>

Fresh == [state |-> "active", lastSeen |-> now, heartbeat |-> Never,
          endpoints |-> <<>>, primary |-> NoEndpoint]

\* The component record an incoming frame of c works on.
Ensured(c) == IF c \in listed THEN record[c] ELSE Fresh

At(r, e) == {i \in 1..Len(r.endpoints) : r.endpoints[i].at = e}
Knows(r, e) == At(r, e) # {}

\* Mutant: a known endpoint never becomes primary again.
RecordEndpointForgetsKnown(r, e) ==
  IF Knows(r, e)
  THEN [r EXCEPT !.endpoints = [i \in 1..Len(@) |-> IF i \in At(r, e) THEN [@[i] EXCEPT !.lastSeen = now] ELSE @[i]]]
  ELSE [r EXCEPT !.endpoints = Append(@, [at |-> e, lastSeen |-> now]), !.primary = e]

\* _recordEndpoint: a new endpoint becomes the primary, a known one only when
\* there is none.
RecordEndpoint(r, e) ==
  IF Knows(r, e)
  THEN [r EXCEPT !.endpoints = [i \in 1..Len(@) |->
                                  IF i \in At(r, e) THEN [@[i] EXCEPT !.lastSeen = now] ELSE @[i]],
                 !.primary = IF @ = NoEndpoint THEN e ELSE @]
  ELSE [r EXCEPT !.endpoints = Append(@, [at |-> e, lastSeen |-> now]), !.primary = e]

\* Whether a frame of c over e teaches a route: ground stations never do.
LearnsRoute(c, e) == e # NoEndpoint /\ c.sysid < GCS_SYSID_MIN

Routed(c, e) == LET r == [Ensured(c) EXCEPT !.lastSeen = now]
                IN  IF LearnsRoute(c, e) THEN RecordEndpoint(r, e) ELSE r

\* The record once the frame is folded in: a heartbeat stamps its section and
\* revives; any frame revives a component that never sent one.
Folded(r, name) ==
  IF name = "HEARTBEAT" THEN [r EXCEPT !.heartbeat = now, !.state = "active"]
  ELSE [r EXCEPT !.state = IF r.heartbeat = Never THEN "active" ELSE @]

\* update(decoded, endpoint).
Update(c, name, e) ==
  /\ e = NoEndpoint => acceptInvalid
  /\ listed' = listed \cup {c}
  /\ record' = [record EXCEPT ![c] = Folded(Routed(c, e), name)]
  /\ dead' = [dead EXCEPT ![c] = (IF c \in listed THEN @ ELSE {}) \ {e}]
  /\ unheard' = IF LearnsRoute(c, e) \/ c \notin listed THEN unheard \ {c} ELSE unheard
  /\ UNCHANGED <<now, lastSweep>>

\* _freshnessRef: the heartbeat once there was one, else any frame.
FreshnessRef(r) == IF r.heartbeat = Never THEN r.lastSeen ELSE r.heartbeat

Age(r) == now - FreshnessRef(r)

\* A sweep only ever demotes.
Swept(r) == IF Age(r) > StaleAge THEN [r EXCEPT !.state = "stale"] ELSE r

Sweep ==
  /\ listed' = {c \in listed : Age(record[c]) <= ExpireAge}
  /\ record' = [c \in Components |-> IF c \in listed' THEN Swept(record[c]) ELSE record[c]]
  /\ lastSweep' = now
  /\ unheard' = unheard \cap listed'
  /\ UNCHANGED <<now, dead>>

\* The endpoint promoted when the primary of r fails: the one heard on last,
\* the first learned of those on a tie.
NextPrimary(eps) ==
  LET best == {i \in 1..Len(eps) : \A j \in 1..Len(eps) : eps[j].lastSeen <= eps[i].lastSeen}
  IN  IF eps = <<>> THEN NoEndpoint ELSE eps[CHOOSE i \in best : \A j \in best : i <= j].at

WithoutPrimary(r) ==
  IF Knows(r, r.primary) THEN RemoveAt(r.endpoints, CHOOSE i \in At(r, r.primary) : TRUE) ELSE r.endpoints

\* markPrimaryFailed: the failed endpoint is dropped, another takes over.
MarkPrimaryFailed(c) ==
  /\ c \in listed /\ record[c].primary # NoEndpoint
  /\ record' = [record EXCEPT ![c].endpoints = WithoutPrimary(record[c]),
                              ![c].primary = NextPrimary(WithoutPrimary(record[c]))]
  /\ dead' = [dead EXCEPT ![c] = @ \cup {record[c].primary}]
  /\ UNCHANGED <<listed, now, lastSweep, unheard>>

Demoted(r) == [r EXCEPT !.primary = NoEndpoint, !.state = "stale"]

\* demoteEndpoints, on every reconnect: history stays, routes and marks go.
DemoteEndpoints ==
  /\ record' = [c \in Components |-> IF c \in listed THEN Demoted(record[c]) ELSE record[c]]
  /\ unheard' = listed
  /\ UNCHANGED <<listed, now, lastSweep, dead>>

\* Time passes; the sweep interval is never late by more than its period.
Tick ==
  /\ now < MaxNow
  /\ now - lastSweep < SweepPeriod
  /\ now' = now + 1
  /\ UNCHANGED <<listed, record, lastSweep, dead, unheard>>

Init ==
  /\ acceptInvalid \in BOOLEAN
  /\ listed = {}
  /\ now = 0 /\ lastSweep = 0
  /\ record = [c \in Components |-> Fresh]
  /\ dead = [c \in Components |-> {}]
  /\ unheard = {}

Step ==
  \/ \E c \in Components, name \in {"HEARTBEAT", "telemetry"}, e \in Endpoints \cup {NoEndpoint} :
       Update(c, name, e)
  \/ \E c \in Components : MarkPrimaryFailed(c)
  \/ DemoteEndpoints
  \/ Sweep
  \/ Tick

Next == Step /\ UNCHANGED acceptInvalid

Spec == Init /\ [][Next]_<<vars, acceptInvalid>>

-----------------------------------------------------------------------------
(* What the driver and the fan-out read *)

EndpointFor(c) ==
  IF c \in listed /\ Knows(record[c], record[c].primary) THEN record[c].primary ELSE NoEndpoint

\* endpointsForBroadcast(compid, sysid): one write per distinct primary; compid 0
\* names every component, sysid 0 every system.
EndpointsForBroadcast(compid, sysid) ==
  {EndpointFor(c) : c \in {d \in listed : /\ compid \in {0, d.compid}
                                          /\ sysid \in {0, d.sysid}}} \ {NoEndpoint}

-----------------------------------------------------------------------------
(* Properties *)

\* Every variable holds what its declaration says and no endpoint is listed twice.
TypeOK ==
  /\ acceptInvalid \in BOOLEAN
  /\ listed \subseteq Components
  /\ \A c \in Components :
       /\ record[c].state \in {"active", "stale"}
       /\ record[c].lastSeen \in 0..now
       /\ record[c].heartbeat \in (0..now) \cup {Never}
       /\ record[c].primary \in Endpoints \cup {NoEndpoint}
       /\ record[c].endpoints \in Seq([at : Endpoints, lastSeen : 0..now])
       /\ \A e \in Endpoints : \A i, j \in At(record[c], e) : i = j
  /\ dead \in [Components -> SUBSET Endpoints]
  /\ unheard \subseteq Components
  /\ now \in Nat /\ lastSweep \in 0..now

\* A primary always names an endpoint still in the map, and a component that
\* was heard by a routable frame since the last reconnect and has an endpoint
\* left also has a primary: no failover, demotion or refresh strands it.
RoutedWhenReachable ==
  \A c \in listed :
    /\ record[c].primary # NoEndpoint => Knows(record[c], record[c].primary)
    /\ c \notin unheard /\ record[c].endpoints # <<>> => record[c].primary # NoEndpoint

\* An address that failed is not sent to again until a frame arrives from it,
\* however many failovers follow (peer-table.js:194).
DeadAddressStaysDead ==
  \A c \in listed : record[c].primary \notin dead[c]

\* A broadcast is written once to the route of every vehicle component and to
\* no route learned from a ground station (peer-table.js:38-45).
BroadcastReachesVehicles ==
  EndpointsForBroadcast(0, 0) =
    {EndpointFor(c) : c \in {d \in listed : d.sysid < GCS_SYSID_MIN}} \ {NoEndpoint}

\* How long a component has not shown that it is alive: telemetry does not count
\* once there were heartbeats.
Silence(r) == now - (IF r.heartbeat = Never THEN r.lastSeen ELSE r.heartbeat)

\* With a punctual sweep no component outlives its silence: an expired one is
\* gone, and a stale one marked, within one sweep period (peer-table.js:137).
FreshnessIsBounded ==
  \A c \in listed :
    /\ Silence(record[c]) <= ExpireAge + SweepPeriod
    /\ Silence(record[c]) > StaleAge + SweepPeriod => record[c].state = "stale"

\* After a reconnect a vehicle component stays marked stale until a frame on
\* the new link relearns its route: no sweep clears the mark before.  On a link
\* that admits invalid signatures an untrusted frame may (peer-table.js:352-361).
StaleUntilRerouted ==
  ~acceptInvalid =>
    \A c \in listed \cap unheard :
      c.sysid < GCS_SYSID_MIN => record[c].state = "stale" /\ record[c].primary = NoEndpoint

\* How long a component counts as heard is bounded, on its link and over a
\* reconnect.
FreshnessIsTrue == FreshnessIsBounded /\ StaleUntilRerouted

\* Routes exist where there is one to have, avoid what failed, and are those of
\* vehicles.
RoutesAreSound == TypeOK /\ RoutedWhenReachable /\ DeadAddressStaysDead /\ BroadcastReachesVehicles
=============================================================================
