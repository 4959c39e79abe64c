--------------------------------- MODULE Moves ---------------------------------
(***************************************************************************)
(* The Move dialog and the message it stands for (nodes/mavlink-move.html, *)
(* nodes/mavlink-move.js, lib/move).  An operator edits one form: what is   *)
(* filled decides what the message commands, and what is selected decides   *)
(* which rows there are to fill.                                           *)
(*                                                                         *)
(* Operator values are whole numbers; degrees, their 10^7ths and sticks     *)
(* scale by the stand-ins RAD, E7 and AXIS_SCALE.  A checkbox holds 0 or 1. *)
(* What a message overrides of the form is left out.                        *)
(***************************************************************************)
EXTENDS Integers, Sequences, FiniteSets, SequencesExt

CONSTANTS Undefined, Blank, NaN, MaxEdits

VARIABLES
  form,       \* the selects and fields of the open dialog
  kept,       \* the node's saved configuration
  disclosed,  \* the Steer groups whose box is checked
  vehicle,    \* the vehicle of the Connection, which is also the Build profile
  edits

moveVars == <<form, kept, disclosed, vehicle, edits>>

A == INSTANCE Addressing WITH asked <- Undefined, target <- Undefined
C == INSTANCE Payload WITH request <- Undefined, built <- Undefined

isBlank(v) == A!isBlank(v)
Number(v) == A!Number(v)
Times(v, k) == IF Number(v) = NaN THEN NaN ELSE Number(v) * k

-----------------------------------------------------------------------------
(* Fields *)

STEER_GROUPS ==
  [position |-> {"north", "east", "up"}, velocity |-> {"vNorth", "vEast", "vUp"},
   accel |-> {"aNorth", "aEast", "aUp"}, yaw |-> {"yaw", "yawRate"}]
Vectors == {"position", "velocity", "accel"}
Globals == {"lat", "lon", "alt"}
Angles == {"roll", "pitch", "yaw"}
Rates == {"rollRate", "pitchRate", "yawRate"}
Sticks == {"stickX", "stickY", "stickZ", "stickR"}
Flags == {"changeMode", "relative", "buttons", "direction"}
Fields ==
  UNION {STEER_GROUPS[g] : g \in DOMAIN STEER_GROUPS} \cup Globals \cup Angles \cup Rates \cup Sticks
  \cup Flags \cup {"thrust", "speed", "radius", "heading", "turnRate", "throttle", "speedType"}

\* What a new node has in them.
Defaults == [k \in Fields |-> IF k \in Flags THEN 0 ELSE IF k = "speedType" THEN 1 ELSE Blank]

-----------------------------------------------------------------------------
(* lib/move *)

RAD == 7
AXIS_SCALE == 1000

degreesToRadians(v) == Times(v, RAD)
scaleLatLon(v) == Times(v, C!E7)
axis(v) == Times(v, AXIS_SCALE)

frameForAltRef(value) ==
  CASE value = "home" -> 3 [] value = "msl" -> 0 [] value = "terrain" -> 10 [] OTHER -> NaN

frameForReference(value, firmware) ==
  CASE value = "world" -> 1
    [] value = "offset" -> 7
    [] value = "body" /\ firmware = "ardupilot" -> 9
    [] value = "body" /\ firmware = "px4" -> 8
    [] OTHER -> NaN

PX4_COMPAT_FRAME(frame) == CASE frame = 0 -> 5 [] frame = 3 -> 6 [] frame = 10 -> 11

\* Mutant: a 0 is no value.
SteerModeOfTruthy(values) == {g \in Vectors : \E k \in STEER_GROUPS[g] : ~isBlank(values[k]) /\ values[k] # 0}

\* deriveSteerMode: filling one axis commands the vector.
deriveSteerMode(values) == {g \in Vectors : \E k \in STEER_GROUPS[g] : ~isBlank(values[k])}

\* The combinations that are modes.
MODES == (SUBSET Vectors) \ {{"position", "accel"}}

PlacesOf == [position |-> {"x", "y", "z"}, velocity |-> {"vx", "vy", "vz"}, accel |-> {"afx", "afy", "afz"}]

\* maskFor.
maskFor(uses, values) ==
  UNION {PlacesOf[g] : g \in Vectors \ uses}
  \cup {p \in {"yaw", "yaw_rate"} : isBlank(values[IF p = "yaw" THEN "yaw" ELSE "yawRate"])}

\* buildMoveMessage: up is down on the wire; what is not a mode is a crash.
Placed(uses, g, px, x, py, y, pz, z) ==
  px :> (IF g \in uses THEN x ELSE 0) @@ py :> (IF g \in uses THEN y ELSE 0) @@ pz :> (IF g \in uses THEN z ELSE 0)
Turned(v) == IF isBlank(v) THEN 0 ELSE degreesToRadians(v)
buildMoveMessage(frame, uses, values) ==
  LET global == frame \in C!GLOBAL_FRAMES
      Axis(k) == Number(values[k])
      Down(k) == Times(values[k], -1)
  IN IF uses \notin MODES THEN Undefined ELSE
     [name |-> IF global THEN "SET_POSITION_TARGET_GLOBAL_INT" ELSE "SET_POSITION_TARGET_LOCAL_NED",
      frame |-> IF global THEN PX4_COMPAT_FRAME(frame) ELSE frame,
      ignored |-> maskFor(uses, values),
      at |-> (IF global
              THEN Placed(uses, "position", "x", scaleLatLon(values.lat), "y", scaleLatLon(values.lon), "z", Axis("alt"))
              ELSE Placed(uses, "position", "x", Axis("north"), "y", Axis("east"), "z", Down("up")))
             @@ Placed(uses, "velocity", "vx", Axis("vNorth"), "vy", Axis("vEast"), "vz", Down("vUp"))
             @@ Placed(uses, "accel", "afx", Axis("aNorth"), "afy", Axis("aEast"), "afz", Down("aUp"))
             @@ [yaw |-> Turned(values.yaw), yaw_rate |-> Turned(values.yawRate)]]

\* buildAttitudeMessage: the three angles have one bit, and are told apart by a
\* digit each in the rotation they make.
AttitudePlaces == [body_roll_rate |-> "rollRate", body_pitch_rate |-> "pitchRate", body_yaw_rate |-> "yawRate"]
Quaternion(values) ==
  10000 * degreesToRadians(values.roll) + 100 * degreesToRadians(values.pitch) + degreesToRadians(values.yaw)
buildAttitudeMessage(values) ==
  LET hasAttitude == \E k \in Angles : ~isBlank(values[k])
  IN [name |-> "SET_ATTITUDE_TARGET", frame |-> 0,
      ignored |-> {p \in DOMAIN AttitudePlaces : isBlank(values[AttitudePlaces[p]])}
                  \cup (IF hasAttitude THEN {} ELSE {"q"}) \cup (IF isBlank(values.thrust) THEN {"thrust"} ELSE {}),
      at |-> [p \in DOMAIN AttitudePlaces |-> Turned(values[AttitudePlaces[p]])]
             @@ [q |-> IF hasAttitude THEN Quaternion(values) ELSE 0,
                 thrust |-> IF isBlank(values.thrust) THEN 0 ELSE Number(values.thrust)]]

\* buildManualMessage.
buildManualMessage(values) ==
  [name |-> "MANUAL_CONTROL", frame |-> 0, ignored |-> {},
   at |-> [k \in Sticks |-> axis(values[k])] @@ [buttons |-> Number(values.buttons)]]

\* Commands: a blank is the dialect's own word for "leave it".
Or(v, unchanged) == IF isBlank(v) THEN unchanged ELSE Number(v)
InCarrier(carrier, params, frame) == [ignored |-> {}] @@ C!buildCarrier(carrier, params, "latlon", frame)
Unless(v) == IF v = Blank THEN Undefined ELSE v

buildTurnMessage(values) ==
  InCarrier("long", <<Number(values.heading), Or(values.turnRate, 0), Or(values.direction, 0), values.relative, 0, 0, 0>>, 0)
buildSpeedMessage(values) ==
  InCarrier("long", <<values.speedType, Or(values.speed, -1), Or(values.throttle, -1), 0, 0, 0, 0>>, 0)
buildRepositionMessage(frame, values) ==
  InCarrier("int", <<Or(values.speed, -1), values.changeMode, Or(values.radius, 0),
                     IF isBlank(values.yaw) THEN NaN ELSE degreesToRadians(values.yaw),
                     Unless(values.lat), Unless(values.lon), Number(values.alt)>>, frame)

-----------------------------------------------------------------------------
(* nodes/mavlink-move.js *)

NoVehicle == [firmware |-> "", family |-> ""]

\* The profile a form is read with, in the dialog (resolveCatalogTarget) as in
\* the runtime (resolveDeliveryContext).
Seen(f, v) == IF f.delivery = "build" /\ f.dialect # "__vehicle" THEN NoVehicle ELSE v
ProfileOf(f) == Seen(f, vehicle)

\* setpointFor: a body setpoint without a profile is a crash.
setpointFor(f) ==
  CASE f.action = "attitude" -> buildAttitudeMessage(f.values)
    [] f.action = "manual" -> buildManualMessage(f.values)
    [] f.action = "goto" -> buildMoveMessage(frameForAltRef(f.altRef), {"position"}, [f.values EXCEPT !.yawRate = Undefined])
    [] f.action = "steer" ->
         IF f.reference = "body" /\ ProfileOf(f) = NoVehicle THEN Undefined
         ELSE buildMoveMessage(frameForReference(f.reference, ProfileOf(f).firmware), deriveSteerMode(f.values), f.values)

\* What an input of the node makes of its form.
MessageOf(f) ==
  CASE f.action = "turn" -> buildTurnMessage(f.values)
    [] f.action = "speed" -> buildSpeedMessage(f.values)
    [] f.action = "goto" /\ f.delivery # "stream" -> buildRepositionMessage(frameForAltRef(f.altRef), f.values)
    [] OTHER -> setpointFor(f)

\* deliverCommand and deliverSetpoint: which tiers there are, and which of them
\* may put the message on the wire more than once.
Carried(f) ==
  f.delivery \in {"build", "send"} \cup
    IF f.action \in {"turn", "speed"} \/ (f.action = "goto" /\ f.delivery # "stream") THEN {"confirm"} ELSE {"stream"}
Repeated(f) == f.delivery = "stream" \/ (f.delivery = "confirm" /\ ~(f.action = "turn" /\ f.values.relative = 1))

-----------------------------------------------------------------------------
(* What is offered *)

ACTION_OPTIONS == <<"goto", "steer", "turn", "speed", "attitude", "manual">>
REFERENCE_OPTIONS == <<"world", "body", "offset">>
ALTREF_OPTIONS == <<"home", "msl", "terrain">>
COMMAND_TIERS == <<"build", "send", "confirm">>
SETPOINT_TIERS == <<"build", "send", "stream">>
DELIVERY_OPTIONS ==
  [goto |-> COMMAND_TIERS \o <<"stream">>, steer |-> SETPOINT_TIERS, turn |-> COMMAND_TIERS,
   speed |-> COMMAND_TIERS, attitude |-> SETPOINT_TIERS, manual |-> SETPOINT_TIERS]

ARDUPILOT_FAMILY_ACTIONS ==
  [copter |-> ToSet(ACTION_OPTIONS), sub |-> ToSet(ACTION_OPTIONS), plane |-> ToSet(ACTION_OPTIONS) \ {"turn"},
   blimp |-> {"goto"}]

\* moveFamilyGate.
IsGated(v) == v.firmware = "ardupilot" /\ v.family \in DOMAIN ARDUPILOT_FAMILY_ACTIONS
Is(v, family) == IsGated(v) /\ v.family = family
Allows(v, action) == IsGated(v) => action \in ARDUPILOT_FAMILY_ACTIONS[v.family]

\* What refreshActionOptions and its siblings withhold of a select.
Options(f, key) ==
  CASE key = "action" -> ACTION_OPTIONS [] key = "reference" -> REFERENCE_OPTIONS
    [] key = "altRef" -> ALTREF_OPTIONS [] key = "delivery" -> DELIVERY_OPTIONS[f.action]
Withheld(f, v, key) ==
  CASE key = "action" -> {a \in ToSet(ACTION_OPTIONS) : ~Allows(v, a)}
    [] key = "reference" ->
         {r \in ToSet(REFERENCE_OPTIONS) :
            IF r = "offset" THEN v.firmware = "px4" ELSE v.firmware = "ardupilot" /\ v.family = "plane"}
    [] key = "altRef" -> IF v.firmware \in {"", "ardupilot"} THEN {} ELSE {"terrain"}
    [] key = "delivery" ->
         IF (f.action = "steer" /\ f.reference = "offset") \/ (f.action = "goto" /\ Is(v, "blimp")) THEN {"stream"} ELSE {}

\* refreshOptionSelect: what is selected or saved is kept on offer.
Offered(f, v, key) ==
  SelectSeq(Options(f, key), LAMBDA o : o \notin Withheld(f, v, key) \/ o \in {f[key], kept[key]})
refreshOptionSelect(f, v, key) ==
  LET offered == Offered(f, v, key)
      fitting == SelectSeq(<<f[key], kept[key], IF key = "delivery" THEN "send" ELSE "">>, LAMBDA o : o \in ToSet(offered))
  IN [f EXCEPT ![key] = (fitting \o offered)[1]]

\* refreshVisibility: the selects, each rebuilt from the ones before; on a
\* plane there is one field, whichever boxes are checked.
Refreshed(f, v) ==
  LET f1 == refreshOptionSelect(f, Seen(f, v), "action")
      f2 == refreshOptionSelect(f1, Seen(f, v), "reference")
      f3 == refreshOptionSelect(f2, Seen(f, v), "delivery")
  IN refreshOptionSelect(f3, Seen(f3, v), "altRef")
planeSteer(f, v) == f.action = "steer" /\ f.reference = "offset" /\ Is(v, "plane")

\* seedDisclosure: once, from what was saved.
seedDisclosure(values) ==
  LET filled == {g \in DOMAIN STEER_GROUPS : \E k \in STEER_GROUPS[g] : ~isBlank(values[k])}
  IN IF filled = {} THEN {"position"} ELSE filled

\* applyGroupDisclosure.
applyGroupDisclosure(boxes, f, v) == IF planeSteer(f, v) THEN boxes \cup {"position"} ELSE boxes

\* moveRowVisibility, the fields of it; a section that is folded counts as shown.
Rows ==
  IF planeSteer(form, ProfileOf(form)) THEN {"up"}
  ELSE CASE form.action = "steer" -> UNION {STEER_GROUPS[g] : g \in disclosed}
         [] form.action = "goto" -> Globals \cup {"yaw"} \cup
                               (IF form.delivery = "stream" THEN {} ELSE {"speed", "radius", "changeMode"})
         [] form.action = "attitude" -> Angles \cup Rates \cup {"thrust"}
         [] form.action = "manual" -> Sticks \cup {"buttons"}
         [] form.action = "turn" -> {"heading", "turnRate", "direction", "relative"}
         [] form.action = "speed" -> {"speed", "throttle", "speedType"}

-----------------------------------------------------------------------------
(* What is accepted *)

Filled(values, ks) == \E k \in ks : ~isBlank(values[k])
Required(values, ks) == \A k \in ks : ~isBlank(values[k])

\* steerAxisValidator and attitudeAngleValidator: whole or not at all.
AxesAreValid(f) ==
  \A g \in Vectors :
    Filled(f.values, STEER_GROUPS[g]) /\ ~(g = "position" /\ f.reference = "offset") => Required(f.values, STEER_GROUPS[g])
AnglesAreValid(f) == Filled(f.values, Angles) => Required(f.values, Angles)

\* stickValidator: a Sub's thrust stick is never at or below 0.
SticksAreValid(f) ==
  Required(f.values, Sticks) /\ (Is(ProfileOf(f), "sub") => Number(f.values.stickZ) > 0)

FieldsAreValid(f) ==
  CASE f.action = "steer" -> AxesAreValid(f)
    [] f.action = "attitude" -> AnglesAreValid(f)
    [] f.action = "goto" -> Required(f.values, Globals)
    [] f.action = "turn" -> Required(f.values, {"heading"})
    [] f.action = "manual" -> SticksAreValid(f) /\ Required(f.values, {"buttons"})
    [] OTHER -> TRUE

\* The validators of action, delivery, altRef and reference.
ActionIsValid(f) ==
  /\ Allows(ProfileOf(f), f.action)
  /\ f.action = "turn" => ProfileOf(f).firmware \in {"", "ardupilot"}
  /\ f.action = "attitude" => Filled(f.values, Angles \cup Rates \cup {"thrust"})
  /\ f.action = "steer" =>
       LET mode == {g \in Vectors : Filled(f.values, STEER_GROUPS[g])}
       IN mode \in MODES /\ (mode # {} \/ Filled(f.values, STEER_GROUPS.yaw))
DeliveryIsValid(f) ==
  /\ f.delivery \in ToSet(DELIVERY_OPTIONS[f.action])
  /\ f.delivery = "stream" => ~(f.action = "steer" /\ f.reference = "offset")
                              /\ ~(f.action = "goto" /\ Is(ProfileOf(f), "blimp"))
FramesAreValid(f) ==
  /\ f.action = "goto" /\ f.altRef = "terrain" => ProfileOf(f).firmware \in {"", "ardupilot"}
  /\ f.action = "steer" =>
       /\ f.reference = "offset" => ProfileOf(f).firmware # "px4"
       /\ Is(ProfileOf(f), "plane") => f.reference = "offset"
       /\ f.reference = "body" => f.delivery # "build" \/ f.dialect = "__vehicle"

Accepted(f) == FieldsAreValid(f) /\ ActionIsValid(f) /\ DeliveryIsValid(f) /\ FramesAreValid(f)

-----------------------------------------------------------------------------
(* The operator *)

Vehicles ==
  {[firmware |-> "ardupilot", family |-> x] : x \in {"sub", "plane", "blimp"}} \cup {[firmware |-> "px4", family |-> "copter"]}
Selects == {"action", "reference", "altRef", "delivery"}
Config(a, d, r, h, x, values) ==
  [action |-> a, delivery |-> d, reference |-> r, altRef |-> h, dialect |-> x, values |-> values]

\* New nodes, and nodes with every field filled.
NewNodes == {Config("goto", "build", "world", "home", x, Defaults) : x \in {"common", "__vehicle"}}
FilledNodes ==
  {Config(a, d, r, "terrain", "common", [k \in Fields |-> IF k \in Flags THEN 0 ELSE 1]) :
     a \in ToSet(ACTION_OPTIONS), r \in ToSet(REFERENCE_OPTIONS), d \in {"send", "stream"}}

MovesInit ==
  /\ vehicle \in Vehicles
  /\ \/ kept \in NewNodes /\ edits = 0
     \/ kept \in FilledNodes /\ edits = MaxEdits - 1
  /\ form = Refreshed(kept, vehicle)
  /\ disclosed = applyGroupDisclosure(seedDisclosure(kept.values), form, ProfileOf(form))

Repaints(f, boxes, v) ==
  /\ form' = Refreshed(f, v)
  /\ disclosed' = applyGroupDisclosure(boxes, form', Seen(form', v))
  /\ vehicle' = v

\* Another option of a select, another dialect, another Connection.
Reselects(key) ==
  \E o \in ToSet(Offered(form, ProfileOf(form), key)) \ {form[key]} :
     Repaints([form EXCEPT ![key] = o], disclosed, vehicle) /\ UNCHANGED kept
ChangesDialect ==
  /\ Repaints([form EXCEPT !.dialect = IF @ = "common" THEN "__vehicle" ELSE "common"], disclosed, vehicle)
  /\ UNCHANGED kept
Rebinds == (\E v \in Vehicles \ {vehicle} : Repaints(form, disclosed, v)) /\ UNCHANGED kept

\* Mutant: a box that is cleared only hides.
TogglesAndKeeps(g) ==
  /\ form.action = "steer" /\ ~planeSteer(form, ProfileOf(form))
  /\ Repaints(form, IF g \in disclosed THEN disclosed \ {g} ELSE disclosed \cup {g}, vehicle)
  /\ UNCHANGED kept

\* A box of a Steer group: clearing it clears its fields.
Toggles(g) ==
  /\ form.action = "steer" /\ ~planeSteer(form, ProfileOf(form))
  /\ IF g \in disclosed
     THEN Repaints([form EXCEPT !.values = [k \in Fields |-> IF k \in STEER_GROUPS[g] THEN Blank ELSE @[k]]],
                   disclosed \ {g}, vehicle)
     ELSE Repaints(form, disclosed \cup {g}, vehicle)
  /\ UNCHANGED kept

\* Rows are filled or emptied, one or a group of them at a time.
Types(ks, v) ==
  /\ ks \subseteq Rows
  /\ form' = [form EXCEPT !.values = [k \in Fields |-> IF k \in ks THEN v ELSE @[k]]]
  /\ form' # form
  /\ UNCHANGED <<kept, disclosed, vehicle>>
Typed == {{k} : k \in Fields} \cup {STEER_GROUPS[g] : g \in Vectors} \cup {Globals, Angles, Sticks}

\* Done, and the dialog is opened again.
Reopens ==
  /\ kept' = form
  /\ disclosed' = applyGroupDisclosure(seedDisclosure(form.values), form, ProfileOf(form))
  /\ UNCHANGED <<form, vehicle>>

MovesNext ==
  /\ edits < MaxEdits
  /\ edits' = edits + 1
  /\ \/ \E key \in Selects : Reselects(key)
     \/ ChangesDialect
     \/ Rebinds
     \/ \E g \in DOMAIN STEER_GROUPS : Toggles(g)
     \/ \E ks \in Typed, v \in {Blank, 0, 1} : (v = Blank => ks \cap (Flags \cup {"speedType"}) = {}) /\ Types(ks, v)
     \/ Reopens

MovesSpec == MovesInit /\ [][MovesNext]_moveVars

-----------------------------------------------------------------------------
(* Properties *)

With(ks, v) == [form EXCEPT !.values = [k \in Fields |-> IF k \in ks THEN v ELSE @[k]]]
Ignoring(m) == IF m = Undefined THEN m
               ELSE [m EXCEPT !.at = [p \in DOMAIN m.at \ m.ignored |-> m.at[p]], !.ignored = {}]
Effect(f) == Ignoring(MessageOf(f))
HiddenIsSilent(hidden) == Effect(With(hidden, Blank)) = Effect(form)

\* What is on the form is what flies (mavlink-move.html:941-945, and the tip under
\* the boxes): a field whose row is hidden commands nothing.
FormIsWhatFlies ==
  Accepted(form) /\ ~planeSteer(form, ProfileOf(form)) => HiddenIsSilent(Fields \ (Rows \cup Flags))

\* Blanks that stand for a 0 by design: the dialect's own "unused", and no offset.
ZeroIsBlank ==
  {"radius", "turnRate"} \cup IF form.reference = "offset" THEN STEER_GROUPS.position ELSE {}

\* The message an accepted form stands for exists and commands something in a known
\* frame; every row that is filled tells, a blank one is never a 0, and hidden
\* rows are silent, a plane's kept triplet and the yaw of Steer apart.  What adds
\* to where the vehicle is is not sent twice (DESIGN.md 14.94, 14.104).
MovesAreMeant ==
  Accepted(form) =>
    LET message == MessageOf(form)
        effect == Effect(form)
    IN /\ Carried(form) /\ message # Undefined
       /\ message.frame # NaN /\ DOMAIN effect.at # {}
       /\ \A k \in Rows : ~isBlank(form.values[k]) => Effect(With({k}, 2)) # effect
       /\ \A k \in Rows \ ZeroIsBlank : isBlank(form.values[k]) => Effect(With({k}, 0)) # effect
       /\ planeSteer(form, ProfileOf(form)) \/ HiddenIsSilent(Fields \ (Rows \cup Flags \cup
                                        (IF form.action = "steer" THEN STEER_GROUPS.yaw ELSE {})))
       /\ Repeated(form) =>
            /\ ~(form.action = "turn" /\ message.at[4] = 1)
            /\ ~(message.name = "SET_POSITION_TARGET_LOCAL_NED" /\ message.frame = 7 /\ "x" \notin message.ignored)
=============================================================================
