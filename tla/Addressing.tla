------------------------------ MODULE Addressing ------------------------------
(***************************************************************************)
(* Whom a node addresses (lib/addressing, the identities of a Connection)  *)
(* and what its dialog shows and accepts of it (mavlink-editor.js).  Each   *)
(* of the message, the identity, the node and the profile may say a number, *)
(* say a blank, or say nothing; 0 is everybody.                             *)
(***************************************************************************)
EXTENDS Integers, Sequences, TLC

CONSTANTS Undefined, Blank, NaN

VARIABLES
  asked,   \* a node's configuration and what the message says, or Undefined
  target   \* whom it addresses then

-----------------------------------------------------------------------------
(* lib/addressing/resolve.js *)

\* Mutant: a string of spaces is a value.
OnlyAbsentIsBlank(v) == v = Undefined

\* isBlank: absent, or a string with nothing in it.
isBlank(v) == v \in {Undefined, Blank}

\* What JavaScript makes a number of.
Number(v) == CASE v = Blank -> 0 [] v = Undefined -> NaN [] OTHER -> v

firstDefined(values) ==
  LET said == SelectSeq(values, LAMBDA v : ~isBlank(v))
  IN IF said = << >> THEN Undefined ELSE said[1]

\* valueFrom: an explicit blank of the message is a value.
valueFrom(payload, config, key) == IF payload[key] = Undefined THEN config[key] ELSE payload[key]

\* resolveActionTarget.
resolveActionTarget(o) ==
  LET companion == o.identity.derives
  IN [sysid |-> Number(firstDefined(
        IF companion THEN <<o.payload.sysid, o.identity.sysid>>
        ELSE <<o.payload.sysid, o.config.sysid, o.profile.sysid>>)),
      compid |-> Number(firstDefined(
        IF companion /\ ~o.compidFromConfig THEN <<o.payload.compid, 1>>
        ELSE <<o.payload.compid, o.config.compid, o.profile.compid>>))]

-----------------------------------------------------------------------------
(* Identities and delivery-context.js *)

\* The companion takes the sysid of the Connection's profile when it is bound.
IdentityNode(id, vehicle) ==
  CASE id = "companion" -> [derives |-> TRUE, sysid |-> vehicle.sysid]
    [] id = "unbound"   -> [derives |-> TRUE, sysid |-> Undefined]
    [] OTHER            -> [derives |-> FALSE, sysid |-> Undefined]

WireTiers == {"send", "confirm", "complete", "collect", "stream"}
NoProfile == [sysid |-> Undefined, compid |-> Undefined]

\* The profile a tier reads, and the identity.
ProfileOf(r) ==
  IF r.delivery \in WireTiers \/ (r.delivery = "build" /\ r.dialect = "__vehicle") THEN r.vehicle ELSE NoProfile
identityId(r) == IF r.said.identity = Undefined THEN r.identity ELSE r.said.identity

\* resolveDeliveryContext.
resolveDeliveryContext(r) ==
  resolveActionTarget(
    [payload |-> r.said, config |-> r.config, profile |-> ProfileOf(r),
     identity |-> IdentityNode(IF r.delivery \in WireTiers THEN identityId(r) ELSE Undefined, r.vehicle),
     compidFromConfig |-> r.node = "payload"])

-----------------------------------------------------------------------------
(* The dialogs *)

ackedTiers == "command" :> {"confirm", "complete"} @@ "payload" :> {"confirm"} @@
              "param" :> {"build", "send", "confirm", "collect"}

\* identityRole, and the rows applyCompanionTargetVisibility leaves.
isCompanion(r) == r.delivery # "build" /\ r.identity \in {"companion", "unbound"}
TargetRows(r) ==
  {key \in {"sysid", "compid"} : isCompanion(r) => key = "compid" /\ r.node = "payload"}

\* inheritedProfileDefault and the rung of inheritedVehicleId.
inheritedProfileDefault(r, key) ==
  IF r.delivery = "build" /\ r.dialect # "__vehicle" THEN Undefined ELSE r.vehicle[key]

\* validateTargetSystem.
TargetSystemIsValid(r) ==
  \/ r.delivery \notin ackedTiers[r.node]
  \/ IF isBlank(r.config.sysid) THEN inheritedProfileDefault(r, "sysid") # 0 ELSE r.config.sysid # 0

\* validateSingleTargetComponent, which only Param's dialog asks.
TargetComponentIsValid(r) ==
  r.node = "param" =>
    IF isBlank(r.config.compid)
    THEN isCompanion(r) \/ inheritedProfileDefault(r, "compid") # 0
    ELSE r.config.compid # 0

Accepted(r) == TargetSystemIsValid(r) /\ TargetComponentIsValid(r)

-----------------------------------------------------------------------------
AddressingInit == asked = Undefined /\ target = Undefined

Addresses ==
  /\ asked = Undefined
  /\ \E node \in DOMAIN ackedTiers, delivery \in {"build", "send", "confirm", "other"},
        identity \in {Blank, "gcs", "companion"}, dialect \in {"__vehicle", "concrete"},
        config \in [sysid : {Blank, 0, 3}, compid : {Blank, 0, 3}],
        said \in [identity : {Undefined, Blank, "gcs", "unbound"}, sysid : {Undefined, Blank, 4},
                  compid : {Undefined, 0}],
        vehicle \in {[sysid |-> n, compid |-> n] : n \in {0, 1}} :
       asked' = [node |-> node, delivery |-> delivery, identity |-> identity, dialect |-> dialect,
                   config |-> config, said |-> said, vehicle |-> vehicle]
  /\ target' = resolveDeliveryContext(asked')

-----------------------------------------------------------------------------
(* Properties *)

Silent == asked.said = [identity |-> Undefined, sysid |-> Undefined, compid |-> Undefined]
Spoken(key) == <<asked.said[key], asked.config[key], ProfileOf(asked)[key]>>

\* Nobody is addressed by a field that is not on screen, and everybody only when
\* somebody wrote a 0 (resolve.js:22-35, DESIGN.md section 6, 14.70): a blank
\* passes the question on.  What is on screen counts unless the message says
\* otherwise, and a number is missing only where no rung has one.  What waits for
\* an answer does not ask everybody, unless it takes its own number from a
\* profile that says so (mavlink-editor.js:1795-1820, DESIGN.md 14.149).
TargetsAreMeant ==
  target # Undefined =>
    /\ \A key \in {"sysid", "compid"} :
         /\ target[key] = 0 => \E i \in 1..3 : Spoken(key)[i] = 0
         /\ asked.said.identity = Undefined /\ asked.delivery # "other" =>
              IF key \in TargetRows(asked)
              THEN isBlank(asked.said[key]) /\ asked.config[key] # Blank => target[key] = asked.config[key]
              ELSE \A v \in {Blank, 0, 3} :
                     resolveDeliveryContext([asked EXCEPT !.config[key] = v]) = target
         /\ target[key] = NaN =>
              \/ asked.delivery \notin WireTiers /\ ProfileOf(asked) = NoProfile
              \/ key = "sysid" /\ asked.said.identity = "unbound"
    /\ Accepted(asked) /\ Silent /\ asked.delivery \in ackedTiers[asked.node] \ {"other"} =>
         /\ target.sysid = 0 => isCompanion(asked)
         /\ asked.node = "param" => target.compid # 0
=============================================================================
