------------------------------ MODULE Completion ------------------------------
(***************************************************************************)
(* What the Command node takes for the end of a command                    *)
(* (lib/command/completion.js) and what it makes of a flight mode that is  *)
(* given by name (lib/vehicle/modes.js): a request of one verb to a        *)
(* vehicle that moves as it likes and reports when it likes.               *)
(*                                                                         *)
(* A section of the vehicle's record in the peer table is the state in     *)
(* which the vehicle reported it; what the message does not carry of that  *)
(* state is read by properties only.  Heights are in half metres.          *)
(***************************************************************************)
EXTENDS Integers, Sequences, FiniteSets, TLC

CONSTANTS
  Blank,  \* what was not supplied, or not reported
  NaN,
  Altitudes, Homes, Heights, \* of takeoffs; of homes, above the sea; of the vehicle, above home
  ArduPilotModes, PX4_MODES, \* the tables there are: <<name, number>>; [name, main, sub]
  PublishedModes,  \* by firmware, what a vehicle publishes, in order: [name, standard, custom]
  Caches,          \* which of these its record may hold
  ModeNames,
  Configs, Payloads \* the first three parameters: the node's, and what a message supplies

VARIABLES
  order,      \* what is asked, of which vehicle: a choice, never changed
  component,  \* the vehicle's record in the peer table, or Blank
  progress    \* what has become of the request

completionVars == <<order, component, progress>>

-----------------------------------------------------------------------------
(* Flight modes *)

PX4_MAIN_SCALE == 65536
PX4_SUB_SCALE == 16777216

\* Arithmetic, so that what is no number stays none.
px4CustomMode(main, sub) ==
  IF {main, sub} \cap {Blank, NaN} # {} THEN NaN ELSE main * PX4_MAIN_SCALE + sub * PX4_SUB_SCALE
px4MainMode(number) == IF number = NaN THEN NaN ELSE (number \div PX4_MAIN_SCALE) % 256
px4SubMode(number) == IF number = NaN THEN NaN ELSE (number \div PX4_SUB_SCALE) % 256

\* The names that ship with the dialect, or with the package.
ShippedModes ==
  [ardupilot |-> ArduPilotModes, px4 |-> {<<row.name, px4CustomMode(row.main, row.sub)>> : row \in PX4_MODES}]
StandardModes == 7 :> "land"

publishedName(entry) ==
  IF entry.name # Blank THEN entry.name
  ELSE IF entry.standard \in DOMAIN StandardModes THEN StandardModes[entry.standard] ELSE Blank

\* What the ladder reads, in order: a node that builds for a dialect has no profile.
Entry(i) == PublishedModes[order.firmware][i]
First(S) == CHOOSE i \in S : \A j \in S : i <= j
Shipped == IF order.firmware = Blank THEN {} ELSE ShippedModes[order.firmware]

modeNumberFor(name) ==
  LET published == {i \in order.held : publishedName(Entry(i)) = name}
      shipped == {m \in Shipped : m[1] = name}
  IN IF published # {} THEN Entry(First(published)).custom
     ELSE IF shipped # {} THEN (CHOOSE m \in shipped : TRUE)[2] ELSE NaN

modeNameFor(number) ==
  LET published == {i \in order.held : Entry(i).custom = number /\ publishedName(Entry(i)) # Blank}
      shipped == {m \in Shipped : m[2] = number}
  IN IF published # {} THEN publishedName(Entry(First(published)))
     ELSE IF shipped # {} THEN (CHOOSE m \in shipped : TRUE)[1] ELSE Blank

\* PX4 takes the two halves of a number, ArduPilot the number.
setModeParams(name) ==
  LET number == modeNumberFor(name) IN
  IF order.firmware = "px4" THEN [i \in {2, 3} |-> IF i = 2 THEN px4MainMode(number) ELSE px4SubMode(number)]
  ELSE IF order.firmware = "ardupilot" THEN [i \in {2} |-> number] ELSE << >>

\* A number of PX4's is two bytes, packed.
IsPacked(n) == n \in Nat /\ n = px4CustomMode(px4MainMode(n), px4SubMode(n))

\* Assumed of the tables: in one that ships a number has one name and a name one
\* number, and no vehicle publishes two names for a number.
TablesAgree(f) ==
  LET name(i) == publishedName(PublishedModes[f][i])
      published == {i \in DOMAIN PublishedModes[f] : name(i) # Blank}
  IN /\ \A m, n \in ShippedModes[f] : m[1] = n[1] \/ m[2] = n[2] => m = n
     /\ \A i, j \in published : PublishedModes[f][i].custom = PublishedModes[f][j].custom => name(i) = name(j)

CompletionBounds ==
  /\ Blank \notin Int \cup {NaN, "ardupilot", "px4"} /\ NaN \notin Int
  /\ Altitudes \cup Homes \cup Heights \subseteq Int
  /\ Configs \cup Payloads \subseteq [1..3 -> Int \cup {Blank}] /\ Blank \notin ModeNames
  /\ \A row \in PX4_MODES : row.main \in 0..255 /\ row.sub \in 0..255
  /\ \A m \in ArduPilotModes : m = <<m[1], m[2]>> /\ m[2] \in Nat
  /\ \A f \in {"ardupilot", "px4"} :
       /\ DOMAIN PublishedModes[f] \subseteq Nat /\ TablesAgree(f)
       /\ \A i \in DOMAIN PublishedModes[f] :
            IF f = "px4" THEN IsPacked(PublishedModes[f][i].custom) ELSE PublishedModes[f][i].custom \in Nat

-----------------------------------------------------------------------------
(* The parameters of the command *)

\* mergeParams: what the message supplies, else what is configured.
Merged == [i \in 1..3 |-> IF order.payload[i] # Blank THEN order.payload[i] ELSE order.config[i]]

CustomModeEnabled(base) == IF base = Blank THEN 1 ELSE base + (1 - (base % 2))

\* What a name makes of the parameters, in some places.
Filled(params, named, places) ==
  [i \in 1..3 |-> IF i = 1 THEN CustomModeEnabled(params[1]) ELSE IF i \in places THEN named[i] ELSE params[i]]

\* Mutant: the name fills what the numbers left open.
applyModeNameByHalves(params) ==
  IF order.name = Blank THEN params
  ELSE LET named == setModeParams(order.name)
       IN Filled(params, named, {i \in DOMAIN named : order.payload[i] = Blank})

\* A number in the message wins over the whole of the name.
applyModeName(params) ==
  IF order.name = Blank THEN params
  ELSE LET named == setModeParams(order.name)
       IN IF \E i \in DOMAIN named : order.payload[i] # Blank THEN params ELSE Filled(params, named, DOMAIN named)

\* Two views of a request: with its holes, and as it is sent.
Requested == applyModeName(Merged)
Wire == [i \in 1..3 |-> IF Requested[i] = Blank THEN 0 ELSE Requested[i]]

-----------------------------------------------------------------------------
(* The check *)

LAND_ALT_THRESHOLD == 1
Known(section) == component # Blank /\ component[section] # Blank
Armed(yes) == Known("heartbeat") /\ component.heartbeat.armed = yes

\* completionFrame: PX4 flies to an altitude above sea level whatever the frame.
AboveSeaLevel ==
  \/ order.firmware = "px4"
  \/ order.firmware = "ardupilot" /\ order.carrier = "int" /\ order.frame = "global"

ClimbIsDone ==
  /\ Known("position")
  /\ LET at == component.position
         home == at.alt - at.height
         climb == IF AboveSeaLevel THEN order.altitude - home ELSE order.altitude
     IN 10 * at.height >= 9 * climb

\* The vehicle's own detector where it has one, else its altitude, else its status.
LandingIsDone ==
  LET says == IF Known("landed") THEN component.landed.says ELSE "undefined" IN
  \/ says = "on ground"
  \/ /\ says = "undefined" /\ Known("position")
     /\ component.position.height <= LAND_ALT_THRESHOLD /\ ~Armed(TRUE)
  \/ says = "undefined" /\ ~Known("position") /\ Armed(FALSE) /\ component.heartbeat.standby

ModeIsReported ==
  /\ Known("heartbeat")
  /\ component.heartbeat.mode =
       IF order.firmware = "px4" THEN px4CustomMode(Requested[2], Requested[3]) ELSE Requested[2]

\* No report speaks for or against a request without a number.
Unverifiable == order.verb = "set mode" /\ Requested[2] \in {Blank, NaN}

\* checkCompletion.
IsDone ==
  \/ order.verb = "arm" /\ Armed(TRUE)
  \/ order.verb = "disarm" /\ Armed(FALSE)
  \/ order.verb = "takeoff" /\ ClimbIsDone
  \/ order.verb = "land" /\ LandingIsDone
  \/ order.verb = "set mode" /\ ~Unverifiable /\ ModeIsReported

-----------------------------------------------------------------------------
(* The wait *)

\* External: ArduPilot takes a takeoff by COMMAND_INT in the relative frame only.
Denied ==
  /\ order.verb = "takeoff" /\ order.firmware = "ardupilot"
  /\ order.carrier = "int" /\ order.frame = "global"

\* waitForCompletion checks before it arms its timers.
AckAccepted ==
  /\ progress = "asked" /\ ~Denied
  /\ progress' = IF Unverifiable THEN "ack" ELSE IF IsDone THEN "state" ELSE "waiting"
  /\ UNCHANGED <<order, component>>

\* An acknowledgement that was lost is looked for in the state, once.
AckLost ==
  /\ progress = "asked"
  /\ progress' = IF IsDone THEN "state" ELSE "unconfirmed"
  /\ UNCHANGED <<order, component>>

Polls ==
  /\ progress = "waiting" /\ IsDone /\ progress' = "state"
  /\ UNCHANGED <<order, component>>

\* One more check at the deadline: a report may have come since the last poll.
TimesOut ==
  /\ progress = "waiting"
  /\ progress' = IF IsDone THEN "state" ELSE "timeout"
  /\ UNCHANGED <<order, component>>

\* A newer input, or a close.
Cancels ==
  /\ progress = "waiting" /\ progress' = "cancelled"
  /\ UNCHANGED <<order, component>>

-----------------------------------------------------------------------------
(* The vehicle *)

\* A disarmed vehicle stands, wherever that is.
VehicleStates ==
  {s \in [armed : BOOLEAN, standby : BOOLEAN, ground : BOOLEAN, height : Heights, mode : order.modes] :
     (~s.armed => s.ground) /\ (s.standby => ~s.armed)}

Fresh == [heartbeat |-> Blank, landed |-> Blank, position |-> Blank]
Fold(section, report) ==
  component' = [(IF component = Blank THEN Fresh ELSE component) EXCEPT ![section] = report]
Attended == progress \in {"asked", "waiting"} /\ UNCHANGED <<order, progress>>

ingestHeartbeat ==
  /\ Attended
  /\ \E s \in VehicleStates :
       Fold("heartbeat", [armed |-> s.armed, standby |-> s.standby, mode |-> s.mode, ground |-> s.ground])

ingestExtendedSysState ==
  /\ Attended /\ order.verb = "land"
  /\ \E s \in VehicleStates :
       Fold("landed", [says |-> IF ~order.detector THEN "undefined"
                                ELSE IF s.ground THEN "on ground" ELSE "in air",
                       ground |-> s.ground])

ingestGlobalPositionInt ==
  /\ Attended /\ order.verb \in {"takeoff", "land"}
  /\ \E s \in VehicleStates : Fold("position", [height |-> s.height, alt |-> s.height + order.home])

\* The component expires and is forgotten.
Expires == Attended /\ component # Blank /\ component' = Blank

-----------------------------------------------------------------------------
\* What is the same for every verb but one.
Nothing == <<Blank, Blank, Blank>>
Plain ==
  [verb |-> "arm", firmware |-> "ardupilot", carrier |-> "long", frame |-> "relative", altitude |-> 0, home |-> 0,
   detector |-> FALSE, held |-> {}, modes |-> {0}, name |-> Blank, config |-> Nothing, payload |-> Nothing]

AsksTakeoff ==
  \E f \in {"ardupilot", "px4"}, c \in {"long", "int"}, r \in {"relative", "global"}, a \in Altitudes, h \in Homes :
    order = [Plain EXCEPT !.verb = "takeoff", !.firmware = f, !.carrier = c, !.frame = r, !.altitude = a, !.home = h]

Numbers(firmware) ==
  {m[2] : m \in ShippedModes[firmware]} \cup {PublishedModes[firmware][i].custom : i \in DOMAIN PublishedModes[firmware]}
AsksMode ==
  \E f \in {"ardupilot", "px4"}, k \in Caches, n \in ModeNames \cup {Blank}, c \in Configs, p \in Payloads :
    order = [Plain EXCEPT !.verb = "set mode", !.firmware = f, !.held = k \cap DOMAIN PublishedModes[f], !.name = n,
                          !.config = c, !.payload = p, !.modes = Numbers(f)]
BuildsMode ==
  \E n \in ModeNames \cup {Blank} : order = [Plain EXCEPT !.verb = "set mode", !.firmware = Blank, !.name = n]

CompletionInit ==
  /\ \/ \E v \in {"arm", "disarm"} : order = [Plain EXCEPT !.verb = v]
     \/ \E d \in BOOLEAN : order = [Plain EXCEPT !.verb = "land", !.detector = d]
     \/ AsksTakeoff \/ AsksMode \/ BuildsMode
  /\ component = Blank
  /\ progress = IF order.firmware = Blank THEN "built" ELSE "asked"

CompletionNext ==
  \/ AckAccepted
  \/ AckLost
  \/ Polls
  \/ TimesOut
  \/ Cancels
  \/ ingestHeartbeat
  \/ ingestExtendedSysState
  \/ ingestGlobalPositionInt
  \/ Expires

-----------------------------------------------------------------------------
(* Properties *)

\* The mode the vehicle enters when it is told to (DESIGN.md 14.110: PX4 takes a
\* main and a sub mode).
Entered == IF order.firmware = "px4" THEN px4CustomMode(Wire[2], Wire[3]) ELSE Wire[2]

\* The mode a vehicle calls by a name, as far as anybody knows.
Means(number, name) ==
  LET own == {i \in order.held : publishedName(Entry(i)) = name} IN
  IF own # {} THEN \E i \in own : Entry(i).custom = number
  ELSE IF \E m \in Shipped : m[1] = name THEN <<name, number>> \in Shipped
  ELSE number = NaN

\* The name that a mode shows: the one it was asked by, or, where nobody heard the
\* vehicle publish that one, one it did publish.
IsShown(number, name) ==
  \/ modeNameFor(number) = name
  \/ /\ ~\E i \in order.held : publishedName(Entry(i)) = name
     /\ \E i \in order.held : publishedName(Entry(i)) = modeNameFor(number) /\ Entry(i).custom = number

\* A named mode is the mode the vehicle enters, or none, and never one put
\* together from a name and a number; and one that is entered is shown by that
\* name, or the vehicle's own (modes.js:3-34, mavlink-command.js:158-189).  A node
\* without a profile is left out.
ModesAreAsNamed ==
  order.verb = "set mode" /\ order.name # Blank /\ order.firmware # Blank =>
    IF \E i \in DOMAIN setModeParams(order.name) : order.payload[i] # Blank
    THEN \A i \in 2..3 : Requested[i] = Merged[i]
    ELSE /\ Wire[1] % 2 = 1 /\ Means(Entered, order.name)
         /\ Entered # NaN => IsShown(Entered, order.name)

\* How high the vehicle climbs for a takeoff: PX4 reads any altitude as one above
\* sea level (DESIGN.md 14.79).
Climb ==
  IF order.firmware = "px4" \/ <<order.carrier, order.frame>> = <<"int", "global">>
  THEN order.altitude - order.home ELSE order.altitude

\* A request that is confirmed by state was fulfilled when the vehicle reported
\* it: a landed vehicle stood on the ground, unless nothing tells whether it is
\* armed; one that took off climbed nine tenths of its way; and the mode is the one
\* the message tells it to enter (completion.js:12-23, 103-170).
StateIsEvidence ==
  progress = "state" =>
    /\ order.verb = "arm" => component.heartbeat.armed
    /\ order.verb = "disarm" => ~component.heartbeat.armed
    /\ order.verb = "takeoff" => 10 * component.position.height >= 9 * Climb
    /\ order.verb = "land" =>
         \/ Known("landed") /\ component.landed.ground
         \/ Known("heartbeat") => component.heartbeat.ground
    /\ order.verb = "set mode" => component.heartbeat.mode = Entered

\* A wait that ran out overlooked nothing the vehicle had said by then.  A PX4
\* mode whose sub mode was left open is not recognised (completion.js:186).
NothingIsOverlooked ==
  progress = "timeout" =>
    /\ order.verb \in {"arm", "disarm"} /\ Known("heartbeat") =>
         component.heartbeat.armed # (order.verb = "arm")
    /\ order.verb = "takeoff" /\ Known("position") => 10 * component.position.height < 9 * Climb
    /\ order.verb = "land" /\ Known("landed") => ~(order.detector /\ component.landed.ground)
    /\ order.verb = "set mode" /\ Known("heartbeat") =>
         \/ component.heartbeat.mode # Entered
         \/ order.firmware = "px4" /\ Requested[3] = Blank

\* The acknowledgement alone confirms a request, and is not waited out, exactly
\* when no mode was asked for by number (completion.js:74-84, 264-276).
AckIsEvidence ==
  /\ progress = "ack" => order.verb = "set mode" /\ Requested[2] \in {Blank, NaN}
  /\ progress \in {"waiting", "timeout"} /\ order.verb = "set mode" => Requested[2] \notin {Blank, NaN}

CompletionIsTrue == ModesAreAsNamed /\ StateIsEvidence /\ NothingIsOverlooked /\ AckIsEvidence
=============================================================================
