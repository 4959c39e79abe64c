-------------------------------- MODULE Payload --------------------------------
(***************************************************************************)
(* What a Payload node puts on the wire (lib/payload/index.js) and the two *)
(* carriers of a command (lib/command/carrier.js).  One table of recipes   *)
(* is read twice: by the builder, and by the dialog that asks for values.  *)
(*                                                                         *)
(* Operator values are whole numbers; degrees and metres scale by the      *)
(* stand-ins E7 and E4.  A number not given is Undefined on its way and    *)
(* NaN in a float.                                                         *)
(***************************************************************************)
EXTENDS Integers, Sequences, FiniteSets, TLC

CONSTANTS Undefined, NaN

VARIABLES request, built

payloadVars == <<request, built>>

-----------------------------------------------------------------------------
(* Recipes: what fills each position *)

Ask(k)    == [rule |-> "asked", keys |-> <<k>>, is |-> Undefined]
AskOr(k)  == [rule |-> "asked", keys |-> <<k>>, is |-> NaN]       \* the dialect's "unused"
Pinned(v) == [rule |-> "pinned", keys |-> << >>, is |-> v]
Pad       == Pinned(0)
Driven    == [rule |-> "driven", keys |-> << >>, is |-> 0]
Euler(ks) == [rule |-> "euler", keys |-> ks, is |-> Undefined]

Command(slots)  == [kind |-> "command", slots |-> slots, raw |-> FALSE, hasLocation |-> FALSE]
Raw(recipe)     == [recipe EXCEPT !.raw = TRUE]
Located(recipe) == [recipe EXCEPT !.hasLocation = TRUE]
Message(slots)  == [kind |-> "message", slots |-> slots, raw |-> FALSE, hasLocation |-> FALSE]

Claim(primary) == Command(<<Pinned(primary), Pinned(primary), Pinned(-1), Pinned(-1), Pad, Pad, Ask("gimbalDeviceId")>>)

CameraRecipes ==
  "photo" :> Command(<<Ask("cameraId"), Ask("interval"), Ask("count"), Driven>>) @@
  "stop-photo" :> Command(<<Ask("cameraId")>>) @@
  "start-video" :> Command(<<Ask("streamId"), Ask("statusFrequency")>>) @@
  "stop-video" :> Command(<<Ask("streamId")>>) @@
  "start-stream" :> Command(<<Ask("streamId"), Ask("cameraId")>>) @@
  "stop-stream" :> Command(<<Ask("streamId"), Ask("cameraId")>>) @@
  "track-point" :> Command(<<Ask("pointX"), Ask("pointY"), Ask("radius"), Ask("cameraId")>>) @@
  "track-rectangle" :>
    Raw(Command(<<Ask("topLeftX"), Ask("topLeftY"), Ask("bottomRightX"), Ask("bottomRightY"), Ask("cameraId")>>)) @@
  "stop-tracking" :> Command(<<Ask("cameraId")>>) @@
  "storage-format" :> Command(<<Ask("storageId"), Ask("format"), Ask("resetImageLog")>>) @@
  "set-mode" :> Command(<<Ask("cameraId"), Ask("mode")>>) @@
  "trigger-distance" :> Command(<<Ask("distance"), Ask("shutter"), Ask("trigger")>>) @@
  "zoom" :> Command(<<Ask("zoomType"), Ask("zoom"), Ask("cameraId")>>) @@
  "focus" :> Command(<<Ask("focusType"), Ask("focus"), Ask("cameraId")>>)

GimbalRecipes ==
  "aim|legacy" :> Command(<<Ask("pitch"), Ask("roll"), Ask("yaw"), Pad, Pad, Pad, Pinned(2)>>) @@
  "aim|manager" :> Message(<<Ask("flags"), Ask("gimbalDeviceId"), AskOr("pitch"), AskOr("yaw"),
                             AskOr("pitchRate"), AskOr("yawRate")>>) @@
  "aim|manager-cmd" :>
    Raw(Command(<<AskOr("pitch"), AskOr("yaw"), AskOr("pitchRate"), AskOr("yawRate"), Ask("flags"), Pad,
                  Ask("gimbalDeviceId")>>)) @@
  "aim|attitude" :> Message(<<Ask("flags"), Ask("gimbalDeviceId"), Euler(<<"roll", "pitch", "yaw">>),
                              AskOr("rollRate"), AskOr("pitchRate"), AskOr("yawRate")>>) @@
  "configure" :> Command(<<Ask("primarySysid"), Ask("primaryCompid"), Ask("secondarySysid"),
                           Ask("secondaryCompid"), Pad, Pad, Ask("gimbalDeviceId")>>) @@
  "take" :> Claim(-2) @@
  "release" :> Claim(-3) @@
  "mount-mode" :> Command(<<Ask("mode"), Ask("stabilizeRoll"), Ask("stabilizePitch"), Ask("stabilizeYaw")>>) @@
  "roi-set" :> Located(Command(<<Pad, Pad, Pad, Pad, Ask("lat"), Ask("lon"), Ask("alt")>>)) @@
  "roi-clear" :> Command(<< >>)

DeviceRecipes ==
  "servo" :> Command(<<Ask("servo"), Ask("pwm")>>) @@
  "servo-repeat" :> Command(<<Ask("servo"), Ask("pwm"), Ask("count"), Ask("period")>>) @@
  "gripper" :> Command(<<Ask("instance"), Ask("action")>>) @@
  "winch" :> Command(<<Ask("instance"), Ask("action"), Ask("length"), Ask("rate")>>) @@
  "parachute" :> Command(<<Ask("action")>>) @@
  "relay" :> Command(<<Ask("instance"), Ask("setting")>>) @@
  "relay-repeat" :> Command(<<Ask("instance"), Ask("count"), Ask("period")>>)

PAYLOAD_RECIPES == CameraRecipes @@ GimbalRecipes @@ DeviceRecipes

-----------------------------------------------------------------------------
(* Carriers *)

E7 == 1000
E4 == 100
GLOBAL_FRAMES == {0, 3, 5, 6, 10, 11}
LOCAL_FRAMES == {1, 4, 7, 8, 9, 12, 20, 21}

IsNumber(v) == v \notin {Undefined, NaN}
Float(v) == IF v = Undefined THEN NaN ELSE v

\* resolveFrame.
resolveFrame(override, configured) == IF override # Undefined THEN override ELSE configured

\* intCoordKinds, for params the dialect does not declare in degE7.
intCoordKinds(recipe) == IF recipe.hasLocation THEN "latlon" ELSE "raw"

\* intXY: by the kind of the param, and the frame.
IntXY(v, kind, frame) ==
  IF ~IsNumber(v) THEN v
  ELSE IF kind = "raw" THEN v
  ELSE IF frame \in GLOBAL_FRAMES THEN v * E7
  ELSE IF frame \in LOCAL_FRAMES THEN v * E4
  ELSE v

\* longToIntFields.
longToIntFields(params, kind, frame) ==
  [i \in 1..7 |-> IF i \in {5, 6} THEN IntXY(params[i], kind, frame) ELSE Float(params[i])]

\* buildCarrier: a carrier that is neither builds nothing.
buildCarrier(carrier, params, kind, frame) ==
  CASE carrier = "long" -> [name |-> "COMMAND_LONG", at |-> [i \in 1..7 |-> Float(params[i])], frame |-> 0]
    [] carrier = "int"  -> [name |-> "COMMAND_INT", at |-> longToIntFields(params, kind, frame), frame |-> frame]
    [] OTHER            -> Undefined

-----------------------------------------------------------------------------
(* The builder and the dialog *)

\* Mutant: a value not given is the recipe's.
SlotValueOrZero(slot, values) ==
  IF slot.rule = "pinned" THEN slot.is
  ELSE IF values[slot.keys[1]] # Undefined THEN values[slot.keys[1]]
  ELSE IF slot.is = NaN THEN NaN ELSE 0

\* slotValue: a blank is not made up for.
slotValue(slot, values) ==
  IF slot.rule = "pinned" THEN slot.is
  ELSE IF values[slot.keys[1]] # Undefined THEN values[slot.keys[1]] ELSE slot.is

\* The rotation is of all three angles, told apart by a digit each, and none
\* without one of them.
Rotation(slot, values) ==
  LET angles == [i \in 1..3 |-> values[slot.keys[i]]]
  IN IF \A i \in 1..3 : IsNumber(angles[i]) THEN 100 * angles[1] + 10 * angles[2] + angles[3] ELSE NaN

\* captureSequence, the bookkeeping apart: a number for a single photo only.
Sequenced(params, next) == IF params[3] = 1 THEN next ELSE 0

\* buildFromRecipe and commandBacked.
Params(recipe, values, next) ==
  LET n == Len(recipe.slots)
      asked == [i \in 1..7 |-> IF i > n \/ (i <= n /\ recipe.slots[i].rule = "driven") THEN 0
                               ELSE slotValue(recipe.slots[i], values)]
  IN [i \in 1..7 |-> IF i <= n /\ recipe.slots[i].rule = "driven" THEN Sequenced(asked, next) ELSE asked[i]]

FieldsOf(recipe, values) ==
  [i \in DOMAIN recipe.slots |->
     IF recipe.slots[i].rule = "euler" THEN Rotation(recipe.slots[i], values)
     ELSE slotValue(recipe.slots[i], values)]

buildPayloadMessage(recipe, values, carrier, frame, next) ==
  CASE recipe.kind = "message" ->
         [name |-> "MESSAGE", at |-> FieldsOf(recipe, values), frame |-> 0]
    [] recipe.kind = "command" ->
         buildCarrier(carrier, Params(recipe, values, next), IF recipe.raw THEN "raw" ELSE "latlon", frame)

\* fieldMetaFromBundle: the controls of the dialog.
Shown(recipe) ==
  UNION {{recipe.slots[i].keys[j] : j \in DOMAIN recipe.slots[i].keys} :
           i \in {k \in DOMAIN recipe.slots : recipe.slots[k].rule \in {"asked", "euler"}}}

carrierMattersFor(recipe) == recipe.kind = "command" /\ recipe.hasLocation

-----------------------------------------------------------------------------
Keys == UNION {Shown(PAYLOAD_RECIPES[r]) : r \in DOMAIN PAYLOAD_RECIPES}

\* What an input gives: a value for all of a recipe's keys, for all but one, for
\* none; values no recipe asked for may be there too.
Spoken == [k \in Keys |-> 2]
Values(recipe) ==
  {Spoken, [k \in Keys |-> Undefined]} \cup {[Spoken EXCEPT ![k] = Undefined] : k \in Shown(recipe)}

PayloadInit == request = Undefined /\ built = Undefined

Builds ==
  /\ request = Undefined
  /\ \E r \in DOMAIN PAYLOAD_RECIPES, c \in {"long", "int", "other"},
        override \in {Undefined, 1, 2}, configured \in {Undefined, 3} :
       LET recipe == PAYLOAD_RECIPES[r]
           frame == resolveFrame(override, configured)
       IN \E v \in Values(recipe) :
            /\ request' = [recipe |-> recipe, values |-> v, carrier |-> c, frame |-> frame]
            /\ built' = buildPayloadMessage(recipe, v, c, frame, 1)

-----------------------------------------------------------------------------
(* Properties *)

Again(k, w) ==
  buildPayloadMessage(request.recipe, [request.values EXCEPT ![k] = w], request.carrier, request.frame, 1)

\* The positions a key reaches.
Reached(k) ==
  {i \in DOMAIN built.at : \E w \in {1, 5} : Again(k, w).at[i] # Again(k, 2).at[i]}

By(carrier, kind, frame) ==
  buildCarrier(carrier, Params(request.recipe, request.values, 1), kind, frame)

\* Dialog and wire agree (payload/index.js:47-56, 565-570, 643-652).  What the
\* dialog asks is what the message depends on, no more and no less.  A value not
\* given reaches the wire as no number, so that a blank coordinate is refused or
\* unused and never 0 (483-487).  The carrier is asked for where it makes a
\* difference, and only there; the recipes' own word on what x and y are is the
\* dialect's.
PayloadsAreAsShown ==
  built # Undefined =>
    /\ request.values = Spoken =>
         \A k \in Keys : k \in Shown(request.recipe) <=> Reached(k) # {}
    /\ \A k \in Keys : request.values[k] = Undefined =>
         \A i \in Reached(k) : ~IsNumber(built.at[i]) \/ (request.recipe = PAYLOAD_RECIPES["photo"] /\ i = 4)
    /\ request.recipe.kind = "command" /\ request.values = Spoken =>
         /\ \A f \in {1, 2, 3} :
              LET kind == IF request.recipe.raw THEN "raw" ELSE "latlon"
                  same == By("int", kind, f).at = By("long", kind, f).at
              IN /\ ~carrierMattersFor(request.recipe) => same
                 /\ carrierMattersFor(request.recipe) /\ f # 2 => ~same
                 /\ By("int", kind, f) = By("int", intCoordKinds(request.recipe), f)
=============================================================================
