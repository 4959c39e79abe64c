----------------------------- MODULE ActionNodes -----------------------------
(***************************************************************************)
(* The action nodes that run more than one exchange for an input: Fan-out  *)
(* over the vehicles of a group, System and Mission over the plans and     *)
(* services of one vehicle, and Formation over the slots of a shape.  They *)
(* share no state, so a behaviour is of one of them, chosen at the start.  *)
(***************************************************************************)
EXTENDS FanOut, Operations

CONSTANTS
  Vehicles, Headless, Lists, MaxInputs,  \* of Formation
  LeaderShapes                           \* a bound: the shapes that are flown around a leader

\* A restore of two sections, of one, and of none.
Plans == {<<"fence", "files">>, <<"files">>, <<>>}

\* A list that is out of order, with an unknown id and one twice.
FewLists == {<<3, 1, 4, 1>>}

VARIABLES
  part,  \* "fan-out", "operations" or "formation": a choice, never changed
  shape, anchorMode, configuredLeader, promoteLeader, fleet, runs, open  \* Formation

flyVars == <<shape, anchorMode, configuredLeader, promoteLeader, fleet, runs, open>>
vars == <<fanVars, operationVars, flyVars, part>>

F == INSTANCE Formation WITH MaxRuns <- MaxInputs, Nobody <- 0

ASSUME FormationAssumption == F!FormationBounds

NoFormation ==
  /\ shape = "none" /\ anchorMode = "none" /\ configuredLeader = 0 /\ promoteLeader = FALSE
  /\ fleet = << >> /\ runs = << >> /\ open = FALSE

\* Every shape on a fixed anchor, for which the leader plays no part; a leader,
\* with and without promotion, on some.
Formations ==
  /\ F!FormationInit
  /\ anchorMode = "fixed" => ~promoteLeader /\ \A v \in Vehicles : configuredLeader <= v
  /\ anchorMode = "leader" => shape \in LeaderShapes

Init ==
  /\ part \in {"fan-out", "operations", "formation"}
  /\ FanOutInit /\ OperationsInit
  /\ IF part = "formation" THEN Formations ELSE NoFormation
  /\ part # "fan-out" =>
       mode = "sequential" /\ tier = "send" /\ ~streaming /\ ~stopOnError /\ concurrency = 1

Next ==
  /\ UNCHANGED part
  /\ \/ part = "fan-out" /\ FanOutNext /\ UNCHANGED <<operationVars, flyVars>>
     \/ part = "operations" /\ OperationsNext /\ UNCHANGED <<fanVars, flyVars>>
     \/ part = "formation" /\ F!FormationNext /\ UNCHANGED <<fanVars, operationVars>>

EventLoop ==
  /\ UNCHANGED part
  /\ \/ part = "fan-out" /\ FanOutGoesOn /\ UNCHANGED <<operationVars, flyVars>>
     \/ part = "operations" /\ OperationsGoOn /\ UNCHANGED <<fanVars, flyVars>>
     \/ /\ part = "formation" /\ UNCHANGED <<fanVars, operationVars>>
        /\ \E r \in DOMAIN runs : F!Commands(r)

Spec == Init /\ [][Next]_vars

\* The event loop runs what is due: microtasks, timers, and the waits and the
\* transfers that end by their own timers (AckWaiter and Transfers).  Nothing is
\* asked of vehicles, inputs or closes.
FairSpec == Spec /\ WF_vars(EventLoop)

-----------------------------------------------------------------------------
(* Properties *)

\* Every run ends and is reported, however its exchanges end, and a close that
\* waits for runs comes to its done (delivery/index.js:165-190,
\* fanout/index.js:193-310, mavlink-system.js:138-178).
RunsEnd ==
  /\ loop # "idle" ~> loop = "reported"
  /\ node = "closing" ~> node = "closed"
  /\ \A r \in Runs : kind[r] # "none" ~> outcome[r] # "none"
  /\ deployed["system"] = "closing" ~> deployed["system"] = "closed"
  /\ runs # << >> ~> \E r \in DOMAIN runs : runs[r].phase # "runs"

\* Slots are by rank, the leader is fit to lead and never commanded
\* (mavlink-formation.js:66-80, 221-247).
FormationsHold == [][part = "formation" => F!FormationsHold]_vars
=============================================================================
