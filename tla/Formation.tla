------------------------------- MODULE Formation -------------------------------
(***************************************************************************)
(* A formation (nodes/mavlink-formation.js, lib/formation/index.js): a     *)
(* shape hung on an anchor, one slot per vehicle, and one reposition after *)
(* the other.  What each exchange of the run does is FanOut; here a member *)
(* is commanded if it is active when its turn comes.                       *)
(*                                                                         *)
(* Offsets are in half spacings before pitch and heading turn the pattern; *)
(* on a ring they are a radius and a place on it.                          *)
(***************************************************************************)
EXTENDS Integers, Sequences, FiniteSets, FiniteSetsExt, Functions

CONSTANTS
  Vehicles,          \* system ids
  Lists,             \* sequences of ids an input may name, in any order
  Headless,          \* vehicles that report positions without a heading
  MaxRuns,           \* a bound: inputs
  Nobody

FormationBounds ==
  /\ Vehicles \subseteq Nat \ {0} /\ Headless \subseteq Vehicles /\ MaxRuns \in Nat
  /\ Lists \subseteq Seq(Nat \ {0}) /\ Nobody = 0

VARIABLES
  shape, anchorMode, configuredLeader, promoteLeader,  \* config, never changed
  fleet,   \* environment: [vehicle -> [state, fix]]: fix, a position is known
  runs,    \* [leader, heading, list, targets, left, sent, phase] per input
  open

formationVars == <<shape, anchorMode, configuredLeader, promoteLeader, fleet, runs, open>>
formationConfig == <<shape, anchorMode, configuredLeader, promoteLeader>>

-----------------------------------------------------------------------------
(* Geometry *)

Origin == <<0, 0, 0>>
Rank(i) == (i + 1) \div 2
Side(i) == IF i % 2 = 1 THEN 1 ELSE -1
Columns(n) == CHOOSE c \in 0..n : c * c >= n /\ \A d \in 0..n : d * d >= n => c <= d

\* slotOffsets: forward, right, down of slot i of count.
Offset(form, count, i) ==
  LET columns == Columns(count - 1)
  IN IF i = 0 THEN Origin
     ELSE CASE form = "line"   -> <<0, Side(i) * Rank(i) * 2, 0>>
            [] form = "column" -> <<-i * 2, 0, 0>>
            [] form = "wedge"  -> <<-Rank(i) * 2, Side(i) * Rank(i) * 2, 0>>
            [] form = "circle" -> <<2, i - 1, 0>>
            [] form = "sphere" -> <<2, i - 1, IF count = 2 THEN 0 ELSE 2 * (i - 1) - (count - 2)>>
            [] form = "grid"   -> <<-((i - 1) \div columns + 1) * 2, 2 * ((i - 1) % columns) - (columns - 1), 0>>

\* Sorted, and each of them once (new Set).
Ascending(ids) ==
  CHOOSE s \in [1..Cardinality(ids) -> ids] : \A i, j \in 1..Cardinality(ids) : i < j => s[i] < s[j]

\* formationTargets: slots go to the ids in their order.
formationTargets(ids) ==
  {[sysid |-> ids[i], at |-> Offset(shape, Len(ids), i - 1)] : i \in DOMAIN ids}

-----------------------------------------------------------------------------
(* The leader *)

\* Mutant: a last known position will do.
CanAnchorOnAnyFix(v) == fleet[v].fix

\* canAnchor: isActive, and a position.
CanAnchor(v) == fleet[v].state = "active" /\ fleet[v].fix

\* resolveLeader: the next that can, upwards and around.
resolveLeader ==
  LET live == {v \in Vehicles : CanAnchor(v)}
      above == {v \in live : v > configuredLeader}
  IN IF ~promoteLeader \/ configuredLeader \in live \/ live = {} THEN configuredLeader
     ELSE Min(IF above # {} THEN above ELSE live)

-----------------------------------------------------------------------------
(* Inputs and runs *)

Run(leader, heading, list) ==
  LET followers == Ascending({id \in Range(list) : id # leader})
      ids == IF leader = Nobody THEN followers ELSE <<leader>> \o followers
      targets == {t \in formationTargets(ids) : t.sysid # leader}
      \* executeFanout: the active ones, one after the other.
      members == {t \in targets : t.sysid \in Vehicles /\ fleet[t.sysid].state = "active"}
  IN [leader |-> leader, heading |-> heading, list |-> list, targets |-> targets,
      left |-> members, sent |-> {}, phase |-> IF members = {} THEN "empty" ELSE "runs"]

Cratered(list) ==
  [leader |-> Nobody, heading |-> FALSE, list |-> list, targets |-> {},
   left |-> {}, sent |-> {}, phase |-> "failed"]

\* resolveAnchor: the input's anchor, the fixed one, or the leader's position,
\* without which the input fails.  A heading not given is the leader's or none.
Input(list, given, facing) ==
  /\ open /\ Len(runs) < MaxRuns
  /\ LET leader == resolveLeader
         byLeader == ~given /\ anchorMode = "leader"
     IN runs' = Append(runs,
          IF ~byLeader THEN Run(Nobody, facing, list)
          ELSE IF ~fleet[leader].fix THEN Cratered(list)
          ELSE Run(leader, facing \/ leader \notin Headless, list))
  /\ UNCHANGED <<formationConfig, fleet, open>>

\* The turn of a member, in the order of their ids: active still, it gets its
\* slot, if the heading is known.
Commands(r) ==
  /\ runs[r].phase = "runs"
  /\ \E next \in runs[r].left :
       /\ \A t \in runs[r].left : next.sysid <= t.sysid
       /\ LET goes == fleet[next.sysid].state = "active" /\ runs[r].heading
          IN runs' = [runs EXCEPT ![r].left = @ \ {next},
                                  ![r].sent = IF goes THEN @ \cup {next} ELSE @,
                                  ![r].phase = IF runs[r].left = {next} THEN "reported" ELSE @]
  /\ UNCHANGED <<formationConfig, fleet, open>>

\* The close aborts every run; none of them says anything.
FormationCloses ==
  /\ open /\ open' = FALSE
  /\ runs' = [r \in DOMAIN runs |-> IF runs[r].phase = "runs" THEN [runs[r] EXCEPT !.phase = "cancelled"] ELSE runs[r]]
  /\ UNCHANGED <<formationConfig, fleet>>

\* The environment: vehicles report, go stale, expire and come back.
Absent == [state |-> "absent", fix |-> FALSE]
FleetReports ==
  /\ \E v \in Vehicles :
       \/ /\ fleet[v] # [state |-> "active", fix |-> TRUE]
          /\ fleet' = [fleet EXCEPT ![v] = [state |-> "active", fix |-> TRUE]]
       \/ fleet[v].state # "active" /\ fleet' = [fleet EXCEPT ![v].state = "active"]
       \/ fleet[v].state = "active" /\ fleet' = [fleet EXCEPT ![v].state = "stale"]
       \/ fleet[v].state = "stale" /\ fleet' = [fleet EXCEPT ![v] = Absent]
  /\ UNCHANGED <<formationConfig, runs, open>>

FormationInit ==
  /\ shape \in {"line", "column", "wedge", "circle", "sphere", "grid"}
  /\ anchorMode \in {"fixed", "leader"} /\ configuredLeader \in Vehicles
  /\ promoteLeader \in BOOLEAN
  /\ fleet = [v \in Vehicles |-> Absent]
  /\ runs = << >> /\ open = TRUE

FormationNext ==
  \/ \E list \in Lists, given, facing \in BOOLEAN : Input(list, given, facing)
  \/ \E r \in DOMAIN runs : Commands(r)
  \/ FormationCloses
  \/ FleetReports

-----------------------------------------------------------------------------
(* Properties *)

\* One run: nobody shares a slot, the leader is never commanded, the others have
\* theirs by rank of their ids whatever the list looked like, and a pattern that faces nowhere moves nobody
\* (mavlink-formation.js:66-80, formation/index.js:195-212).
RunIsTrue(r) ==
  LET others == {id \in Range(r.list) : id # r.leader}
      first == IF r.leader = Nobody THEN 0 ELSE 1
  IN /\ r.phase # "failed" => {t.sysid : t \in r.targets} = others
     /\ \A s, t \in r.targets : s # t => s.at # t.at /\ s.sysid # t.sysid
     /\ \A t \in r.targets :
          /\ r.leader # Nobody => t.at # Origin
          /\ t.at = Offset(shape, Cardinality(others) + first,
                           first + Cardinality({id \in others : id < t.sysid}))
     /\ r.sent \subseteq r.targets
     /\ ~r.heading => r.sent = {}

\* The leader of an input is the configured one, unless promotion is on and it
\* cannot lead; whoever is promoted reports, and nobody who reports is passed
\* over: the next above, or else the lowest (mavlink-formation.js:221-247).
LeaderIsFit(r) ==
  LET fit(v) == fleet[v].state = "active" /\ fleet[v].fix
  IN r.leader # Nobody =>
       /\ r.leader # configuredLeader => promoteLeader /\ ~fit(configuredLeader) /\ fit(r.leader)
       /\ promoteLeader /\ (\E v \in Vehicles : fit(v)) => fit(r.leader)
       /\ r.leader > configuredLeader => \A v \in configuredLeader..(r.leader - 1) : v \in Vehicles => ~fit(v)
       /\ r.leader < configuredLeader => \A v \in Vehicles : fit(v) => v >= r.leader /\ v < configuredLeader

FormationsHold ==
  /\ \A r \in DOMAIN runs' : RunIsTrue(runs'[r])
  /\ Len(runs') > Len(runs) => LeaderIsFit(runs'[Len(runs')])
  /\ \A r \in DOMAIN runs : runs'[r].sent # runs[r].sent => open
=============================================================================
