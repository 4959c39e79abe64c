------------------------------- MODULE StateFeed -------------------------------
(***************************************************************************)
(* What a flow learns of the peer table: the State node's snapshots         *)
(* (lib/state/index.js) and its feed of what the table emits, message by    *)
(* message (ingest* of lib/connection/peer-table.js).                       *)
(*                                                                          *)
(* `view' is environment: a flow that starts from a snapshot, or from an    *)
(* empty table, and keeps up by folding every record of the feed.           *)
(***************************************************************************)
EXTENDS PeerTable, FiniteSets

CONSTANTS
  Readings,  \* what a field may read; 0 is one of them
  Blank,     \* null: never observed; or nothing known
  Torn       \* a flow was told of a change from what it did not know

VARIABLES
  kind,    \* the message whose fields are followed: a choice
  values,  \* [Components -> [fields -> reading or Blank]]: the tracked fields of the table
  feed,    \* "synced" once the flow knows the table, "open" before, "closed"
  view,    \* what the flow knows of each component, or Blank
  lapsed   \* history: what a reconnect took back without a word, and was not told since

feedVars == <<kind, values, feed, view, lapsed>>

\* The tracked fields each message refreshes.
Carried ==
  [HEARTBEAT |-> {"armed", "flightMode"}, EXTENDED_SYS_STATE |-> {"landedState"},
   GPS_RAW_INT |-> {"fixType"}, SYS_STATUS |-> {"sensorsHealth"}, HOME_POSITION |-> {"home"},
   GLOBAL_POSITION_INT |-> {}]

\* What can be known of a component, and Blank is not.
Views(fields) == [state : {"active", "stale"}, primary : Endpoints \cup {NoEndpoint},
                  values : [fields -> Readings \cup {Blank, Torn}]]

BlankAssumption == \A k \in DOMAIN Carried : Blank \notin Views(Carried[k])

Fields == Carried[kind]
Nothing == [f \in Fields |-> Blank]
Held(c) == IF c \in listed THEN values[c] ELSE Nothing

\* Mutant: a reading of 0 is taken for none.
ChangedUnlessZero(was, is) == was \notin {Blank, 0} /\ is # was

\* First observation is not a transition.
Changed(was, is) == was # Blank /\ is # was

\* recordFor, folded: a `*-changed' record carries from and to.
Learns(known, was, is) ==
  IF ~Changed(was, is) THEN known ELSE IF known \in {Blank, was} THEN is ELSE Torn

-----------------------------------------------------------------------------
(* What a frame makes the table emit, in its order *)

ComponentNew(c, v) ==
  IF c \in listed THEN v ELSE [state |-> "active", primary |-> NoEndpoint, values |-> Nothing]

\* endpoint-added, with primary-changed where one is replaced: a new endpoint is
\* the primary at once.
IsNew(c, e) == LearnsRoute(c, e) /\ ~Knows(Ensured(c), e)
EndpointAdded(c, e, v) == IF IsNew(c, e) THEN [v EXCEPT !.primary = e] ELSE v

HeartbeatTold(name, v) == IF name = "HEARTBEAT" THEN [v EXCEPT !.state = "active"] ELSE v

FieldsTold(c, readings, v) ==
  [v EXCEPT !.values = [f \in Fields |->
     IF f \in DOMAIN readings THEN Learns(@[f], Held(c)[f], readings[f]) ELSE @[f]]]

-----------------------------------------------------------------------------
(* Steps *)

Receives(c, name, e) ==
  /\ Update(c, name, e)
  /\ \E readings \in [Carried[name] \cap Fields -> Readings] :
       /\ values' = [values EXCEPT ![c] = [f \in Fields |-> IF f \in DOMAIN readings THEN readings[f] ELSE Held(c)[f]]]
       /\ view' = IF feed # "synced" THEN view
                  ELSE [view EXCEPT ![c] =
                          FieldsTold(c, readings, HeartbeatTold(name, EndpointAdded(c, e, ComponentNew(c, @))))]
  /\ lapsed' = [lapsed EXCEPT ![c] =
                  IF c \notin listed THEN {}
                  ELSE @ \ ((IF record'[c].state = "active" THEN {"state"} ELSE {}) \cup
                            (IF IsNew(c, e) THEN {"primary"} ELSE {}))]
  /\ UNCHANGED <<kind, feed>>

\* stale and expired.
SweepTells ==
  /\ Sweep
  /\ view' = IF feed # "synced" THEN view
             ELSE [c \in Components |->
                     IF c \notin listed THEN view[c]
                     ELSE IF Age(record[c]) > ExpireAge THEN Blank
                     ELSE IF Age(record[c]) > StaleAge /\ record[c].state # "stale"
                          THEN [view[c] EXCEPT !.state = "stale"] ELSE view[c]]
  /\ UNCHANGED <<kind, values, feed, lapsed>>

\* primary-changed, unless no endpoint is left.
FailureTells(c) ==
  /\ MarkPrimaryFailed(c)
  /\ LET next == NextPrimary(WithoutPrimary(record[c])) IN
     view' = IF feed # "synced" \/ next = NoEndpoint THEN view ELSE [view EXCEPT ![c].primary = next]
  /\ UNCHANGED <<kind, values, feed, lapsed>>

\* demoteEndpoints tells nobody.
ReconnectIsSilent ==
  /\ DemoteEndpoints
  /\ lapsed' = [c \in Components |-> IF c \in listed THEN {"state", "primary"} ELSE {}]
  /\ UNCHANGED <<kind, values, feed, view>>

TimePasses == Tick /\ UNCHANGED feedVars

\* snapshotPeers, on an input: the table as it is.
Snapshot ==
  /\ feed # "closed" /\ feed' = "synced"
  /\ view' = [c \in Components |->
                IF c \in listed THEN [state |-> record[c].state, primary |-> record[c].primary, values |-> values[c]]
                ELSE Blank]
  /\ lapsed' = [c \in Components |->
                  IF c \in listed /\ record[c].primary = NoEndpoint THEN lapsed[c] \cap {"primary"} ELSE {}]
  /\ UNCHANGED <<vars, kind, values>>

Forgets == view' = [c \in Components |-> Blank] /\ UNCHANGED <<vars, kind, values, lapsed>>

\* The node is closed, and deployed again on a table that has lived on.
CloseFeed == feed # "closed" /\ feed' = "closed" /\ Forgets
OpenFeed == feed = "closed" /\ feed' = "open" /\ Forgets

FeedInit ==
  /\ Init
  /\ kind \in {k \in DOMAIN Carried : Carried[k] # {}}
  /\ values = [c \in Components |-> Nothing]
  /\ feed = "synced"
  /\ view = [c \in Components |-> Blank]
  /\ lapsed = [c \in Components |-> {}]

FeedNext ==
  /\ UNCHANGED acceptInvalid
  /\ \/ \E c \in Components, name \in {"HEARTBEAT", kind, "GLOBAL_POSITION_INT"}, e \in Endpoints \cup {NoEndpoint} : Receives(c, name, e)
     \/ \E c \in Components : FailureTells(c)
     \/ ReconnectIsSilent
     \/ SweepTells
     \/ TimePasses
     \/ Snapshot
     \/ CloseFeed
     \/ OpenFeed

FeedSpec == FeedInit /\ [][FeedNext]_<<acceptInvalid, vars, feedVars>>

-----------------------------------------------------------------------------
(* Properties *)

\* A flow that keeps up with the feed knows which components there are, and what
\* it knows of one is so: no reading that changed, no component that went stale
\* or was forgotten and no failover passes it by (peer-table.js:506-511,
\* state/index.js:117).  Untold are a first observation; a reconnect (361), until
\* the next heartbeat and the next new address; the loss of the last address; and
\* the return of a component that sends no heartbeats (126).
KnownIsTrue ==
  feed = "synced" =>
    \A c \in Components :
      /\ view[c] # Blank <=> c \in listed
      /\ c \in listed =>
           /\ \A f \in Fields : view[c].values[f] \in {Blank, values[c][f]}
           /\ \/ view[c].state = record[c].state
              \/ "state" \in lapsed[c]
              \/ view[c].state = "stale" /\ record[c].heartbeat = Never
           /\ \/ view[c].primary = record[c].primary
              \/ "primary" \in lapsed[c]
              \/ record[c].endpoints = <<>>
=============================================================================
