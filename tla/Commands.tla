-------------------------------- MODULE Commands --------------------------------
(***************************************************************************)
(* Commands: the waiter that re-sends one until it is acknowledged, the     *)
(* Command node that owns the wait, what it takes for the end of a command, *)
(* the nodes that hold a wait in one slot, and what a Payload node sends.   *)
(* A behaviour is of one of them, chosen at the start: a node sees of a     *)
(* waiter only how it settles.                                              *)
(***************************************************************************)
EXTENDS Integers, FiniteSets, TLC

CONSTANTS
  None, NaN,
  TimeoutMs, RetryInterval, MaxRetries,            \* the waiter's times and budget
  SendMayThrow,
  Inputs, BadIdentity,                             \* of the Command node
  PayloadNodes, ParamNodes, Cameras, MaxInputs,    \* of the nodes with one slot
  Altitudes, Homes, Heights, ModeNames, Caches,    \* of Completion
  ArduPilotModes, PX4_MODES, PublishedModes, Configs, Payloads

VARIABLES
  part,                                                                   \* a choice, never changed
  noAutoRetry, linkRepeats, started, outcome, retries, heard, deadline,   \* AckWaiter
  retryAt, now, up, down, executed, busy, inWork,
  complete, continueUnconfirmed, generation, active, stage, verdict,      \* CommandNode
  mine, record, continued, closed, shows, sent, air,
  tier, slot, gone, inputs, captureSequences, exposures,                  \* SlotNodes
  request, built,                                                         \* Payload
  order, component, progress                                              \* Completion

choices == <<part, noAutoRetry, linkRepeats, complete, continueUnconfirmed>>
waiterVars == <<started, outcome, retries, heard, deadline, retryAt, now, up, down,
                executed, busy, inWork>>
nodeVars == <<generation, active, stage, verdict, mine, record, continued, closed,
              shows, sent, air>>
slotVars == <<tier, slot, gone, inputs, captureSequences, exposures>>
payloadVars == <<request, built>>
completionVars == <<order, component, progress>>
vars == <<choices, waiterVars, nodeVars, slotVars, payloadVars, completionVars>>

W == INSTANCE AckWaiter

N == INSTANCE CommandNode WITH Nobody <- None

\* A flow has nodes of one kind.
S == INSTANCE SlotNodes
       WITH Nobody <- None,
            Tiers <- [PayloadNodes -> {"build", "send", "confirm"}] \cup
                     [ParamNodes -> {"build", "send", "confirm", "collect"}]

P == INSTANCE Payload WITH Undefined <- None

C == INSTANCE Completion WITH Blank <- None

ASSUME SlotAssumption == S!SlotBounds /\ None \notin Nat /\ PayloadNodes \cap ParamNodes = {}
ASSUME WaiterAssumption == W!TimesAssumption /\ W!FlagsAssumption
ASSUME NodeAssumption == N!NodeAssumption
ASSUME CompletionAssumption == C!CompletionBounds

-----------------------------------------------------------------------------
(* Small values for the checks: flight modes and their numbers *)

\* Of the modes that are published, one has another number than the one that
\* ships, one has no name of its own, and one another name or none at all.
FewArduPilotModes == {<<"stabilize", 0>>, <<"hold", 5>>, <<"land", 9>>, <<"position", 16>>}
FewPX4Modes ==
  {[name |-> "hold", main |-> 4, sub |-> 3], [name |-> "land", main |-> 4, sub |-> 6],
   [name |-> "position", main |-> 3, sub |-> 0]}
Some(name, standard, custom) == [name |-> name, standard |-> standard, custom |-> custom]
FewPublished ==
  [ardupilot |-> <<Some("hold", 0, 17), Some(None, 7, 9), Some("loiter", 0, 16)>>,
   px4 |-> <<Some("hold", 0, 19 * 16777216 + 4 * 65536), Some(None, 7, 6 * 16777216 + 4 * 65536),
             Some(None, 0, 7 * 65536)>>]
FewConfigs == {<<None, None, None>>, <<80, 4, 3>>}
FewPayloads == {<<None, p, q>> : p \in {None, 0, 4}, q \in {None, 3}}

\* A pad may lie above home, and terrain below it.
FewHeights == {-2, 1, 2, 12, 18}
FewHomes == {8, -8}

-----------------------------------------------------------------------------
NoWaiter ==
  /\ noAutoRetry = None /\ linkRepeats = None /\ started = None /\ outcome = None /\ retries = None
  /\ heard = None /\ deadline = None /\ retryAt = None /\ now = None /\ up = None /\ down = None
  /\ executed = None /\ busy = None /\ inWork = None
NoNode ==
  /\ complete = None /\ continueUnconfirmed = None /\ generation = None /\ active = None
  /\ stage = None /\ verdict = None /\ mine = None /\ record = None /\ continued = None
  /\ closed = None /\ shows = None /\ sent = None /\ air = None

NoSlot == tier = None /\ slot = None /\ gone = None /\ inputs = << >> /\ captureSequences = None /\ exposures = None
NoPayload == request = None /\ built = None
NoCompletion == order = None /\ component = None /\ progress = None

Init ==
  \/ part = "waiter" /\ W!Init /\ NoNode /\ NoSlot /\ NoPayload /\ NoCompletion
  \/ part = "node" /\ N!Init /\ NoWaiter /\ NoSlot /\ NoPayload /\ NoCompletion
  \/ part = "slot" /\ S!SlotInit /\ NoWaiter /\ NoNode /\ NoPayload /\ NoCompletion
  \/ part = "payload" /\ P!PayloadInit /\ NoWaiter /\ NoNode /\ NoSlot /\ NoCompletion
  \/ part = "completion" /\ C!CompletionInit /\ NoWaiter /\ NoNode /\ NoSlot /\ NoPayload

Next ==
  /\ UNCHANGED choices
  /\ \/ part = "waiter" /\ W!Step /\ UNCHANGED <<nodeVars, slotVars, payloadVars, completionVars>>
     \/ part = "node" /\ N!Step /\ UNCHANGED <<waiterVars, slotVars, payloadVars, completionVars>>
     \/ part = "slot" /\ S!SlotNext /\ UNCHANGED <<waiterVars, nodeVars, payloadVars, completionVars>>
     \/ part = "payload" /\ P!Builds /\ UNCHANGED <<waiterVars, nodeVars, slotVars, completionVars>>
     \/ part = "completion" /\ C!CompletionNext /\ UNCHANGED <<waiterVars, nodeVars, slotVars, payloadVars>>

Spec == Init /\ [][Next]_vars

\* Timers fire and continuations run; nothing is asked of link, vehicle or user.
Fairness ==
  /\ WF_waiterVars(part = "waiter" /\ W!RetryFires)
  /\ WF_waiterVars(part = "waiter" /\ W!TimeoutFires)
  /\ WF_waiterVars(part = "waiter" /\ W!Tick)
  /\ \A i \in Inputs :
       /\ WF_nodeVars(part = "node" /\ N!AckTimesOut(i))
       /\ WF_nodeVars(part = "node" /\ (N!AckContinues(i) \/ N!AckIsFollowed(i)))
       /\ WF_nodeVars(part = "node" /\ N!CompletionSettles(i))
       /\ WF_nodeVars(part = "node" /\ N!CompletionContinues(i))
  /\ WF_slotVars(part = "slot" /\ \E i \in DOMAIN inputs : S!TimesOut(i) \/ S!Continues(i))

FairSpec == Spec /\ Fairness

-----------------------------------------------------------------------------
(* Properties *)

\* A transaction is under a timer for as long as it lasts, lasts no longer than
\* its budget, and is given up only when the budget of re-sends is spent
\* (ack.js:16-25, 42, 224-230, 304-315).  Accepted is done, and what may not be
\* repeated is not (ack.js:93-96, 204-206).
WaitIsSound == part = "waiter" => W!WaitIsSound /\ W!SilenceSpendsTheBudget /\ W!ExecutedAsReported

\* A node waits for one thing and can end it, and no outcome is swallowed or
\* invented, whatever supersedes or closes it (ack.js:399-460, 541-612, DESIGN.md
\* 14.47, 14.159); a photo has a number as a camera reads them (payload/index.js:685-712).
OutcomesAreTold ==
  /\ part = "node" => N!WaitsAreOwned /\ N!OutcomesAreTold
  /\ part = "slot" => S!SlotsAreSound /\ S!CapturesAreCounted

\* In the complete tier the flow goes on for the newest input only.
OnlyNewestGoesOn == [][part = "node" => N!NewestGoesOn]_vars

\* A command is complete when the vehicle reported that it did what it was told,
\* and a mode given by name is the one it is told (completion.js:69-200, modes.js:3-34).
CompletionIsTrue == part = "completion" => C!CompletionIsTrue

\* What the Payload dialog asks is what the message carries.
PayloadsAreAsShown == part = "payload" => P!PayloadsAreAsShown

\* A transaction left alone settles, and every input ends, whatever supersedes
\* or closes it in the middle of a wait.
CommandsEnd ==
  /\ part = "waiter" /\ started ~> part = "waiter" /\ W!Settled
  /\ \A i \in Inputs :
       part = "node" /\ stage[i] # "new" ~> part = "node" /\ stage[i] = "done"
  /\ inputs # << >> ~> \A i \in DOMAIN inputs : inputs[i].phase = "done"
=============================================================================
