------------------------------- MODULE SlotNodes -------------------------------
(***************************************************************************)
(* Nodes with one slot for what they wait on: Payload and Param            *)
(* (nodes/mavlink-payload.js, nodes/mavlink-param.js, cancelSlot and       *)
(* settleAck of lib/command/ack.js).  A newer wait supersedes the one      *)
(* before; a close cancels it.                                             *)
(*                                                                         *)
(* A wait resolves in one step and its input goes on in a microtask, before*)
(* the next input, frame, timer or close.  What a wait does until it       *)
(* resolves is AckWaiter and ParamTransfer; here it sends, and ends.       *)
(***************************************************************************)
EXTENDS Integers, Sequences, FiniteSets

CONSTANTS
  PayloadNodes, ParamNodes,
  Cameras,              \* the components Payload nodes command
  Tiers,                \* [deployed nodes -> delivery], the flows that are checked
  MaxInputs,            \* a bound: inputs in all
  Nobody                \* an empty slot

Deliveries(n) == {"build", "send", "confirm"} \cup (IF n \in ParamNodes THEN {"collect"} ELSE {})
SlotBounds ==
  /\ MaxInputs \in Nat \ {0}
  /\ \A t \in Tiers : \A n \in DOMAIN t : n \in PayloadNodes \cup ParamNodes /\ t[n] \in Deliveries(n)

VARIABLES
  tier,              \* config: [node -> delivery], never changed
  slot,              \* slot.active: the input whose wait it holds, or Nobody
  gone,              \* closed nodes
  inputs,            \* what arrived, in order, and how far it got
  captureSequences,  \* [camera -> last number], of the process
  exposures          \* history: [camera -> set of <<input, number>> that reached it]

slotVars == <<tier, slot, gone, inputs, captureSequences, exposures>>

Nodes == DOMAIN tier
Whats(n) == IF n \in PayloadNodes THEN {"photo", "burst", "aim"} ELSE {"read", "set", "request-list"}

\* What a node makes of an input: the tier and the action.
Exchange(n, what) ==
  IF tier[n] = "build" THEN "built"
  ELSE IF \/ n \in PayloadNodes /\ tier[n] = "confirm" /\ what # "aim"
          \/ n \in ParamNodes /\ tier[n] = "confirm" /\ what # "request-list"
          \/ n \in ParamNodes /\ tier[n] = "collect" /\ what = "request-list" THEN "waits"
  ELSE IF tier[n] = "send" \/ n \in PayloadNodes THEN "sent" ELSE "nothing"

At(phase) == {i \in DOMAIN inputs : inputs[i].phase = phase}
Quiet == At("resolved") = {}

\* captureSequence: counted for single photos only.
Number(what, c) ==
  IF what # "photo" THEN 0
  ELSE IF c \in DOMAIN captureSequences THEN captureSequences[c] + 1 ELSE 1

\* captureSequences.set: the last number of camera c.
Counted(c, n) ==
  [d \in DOMAIN captureSequences \cup {c} |-> IF d = c THEN n ELSE captureSequences[d]]

Exposed(i, what, c, n) ==
  IF what \in {"photo", "burst"} THEN [exposures EXCEPT ![c] = @ \cup {<<i, n>>}] ELSE exposures

-----------------------------------------------------------------------------
(* Inputs *)

\* cancel(reason), of what the slot holds: it resolves, and leaves the slot.
Cancelled(n, why) ==
  [i \in DOMAIN inputs |->
     IF i = slot[n] THEN [inputs[i] EXCEPT !.phase = "resolved", !.outcome = why] ELSE inputs[i]]

\* Mutant: whoever ends empties the slot.
ReleasedByAny(n, i) == Nobody

\* release(entry), guarded on identity.
Released(n, i) == IF slot[n] = i THEN Nobody ELSE slot[n]

\* The input handler, up to its first await.  The number is taken when the
\* message is built, whatever becomes of it.  A first transmission that throws
\* fails an acked input and aborts a transfer.
Input(n, what, c) ==
  LET i == Len(inputs) + 1
      number == IF n \in PayloadNodes THEN Number(what, c) ELSE 0
      does == Exchange(n, what)
      new(phase, outcome, told, aired) ==
        [node |-> n, what |-> what, camera |-> c, number |-> number,
         phase |-> phase, outcome |-> outcome, told |-> told, aired |-> aired]
      sees == IF n \in PayloadNodes THEN Exposed(i, what, c, number) ELSE exposures
  IN /\ Quiet /\ n \notin gone /\ Len(inputs) < MaxInputs
     /\ captureSequences' = (IF number = 0 THEN captureSequences ELSE Counted(c, number))
     /\ \/ /\ does = "built" /\ inputs' = Append(inputs, new("done", "built", {0, 1}, FALSE))
           /\ UNCHANGED <<slot, exposures>>
        \/ /\ does = "nothing" /\ inputs' = Append(inputs, new("done", "nothing", {}, FALSE))
           /\ UNCHANGED <<slot, exposures>>
        \/ /\ does = "sent" /\ UNCHANGED slot
           /\ \/ inputs' = Append(inputs, new("done", "sent", {0, 1}, TRUE)) /\ exposures' = sees
              \/ inputs' = Append(inputs, new("done", "failed", {1}, FALSE)) /\ UNCHANGED exposures
        \/ /\ does = "waits" /\ slot' = [slot EXCEPT ![n] = i]
           /\ \/ /\ inputs' = Append(Cancelled(n, "superseded"), new("waiting", "none", {}, TRUE))
                 /\ exposures' = sees
              \/ /\ inputs' = Append(Cancelled(n, "superseded"), new("resolved", "failed", {}, FALSE))
                 /\ UNCHANGED exposures
     /\ UNCHANGED <<tier, gone>>

\* The waiter or the transfer transmits again: the message it was given.
Resend(i) ==
  /\ Quiet /\ i \in At("waiting")
  /\ exposures' = (IF inputs[i].node \in PayloadNodes
                   THEN Exposed(i, inputs[i].what, inputs[i].camera, inputs[i].number) ELSE exposures)
  /\ UNCHANGED <<tier, slot, gone, inputs, captureSequences>>

Ends(ended, outcome) ==
  /\ inputs' = [i \in DOMAIN inputs |->
                  IF i \in ended THEN [inputs[i] EXCEPT !.phase = "resolved", !.outcome = outcome] ELSE inputs[i]]
  /\ UNCHANGED <<tier, slot, gone, captureSequences, exposures>>

\* One acknowledgement settles every wait for that command of that camera.
Acknowledged(c) ==
  /\ Quiet
  /\ \E outcome \in {"accepted", "denied"} :
       LET asked == {i \in At("waiting") : inputs[i].node \in PayloadNodes /\ inputs[i].camera = c}
       IN asked # {} /\ Ends(asked, outcome)

Answered(i) == Quiet /\ i \in At("waiting") /\ inputs[i].node \in ParamNodes /\ Ends({i}, "accepted")
TimesOut(i) == Quiet /\ i \in At("waiting") /\ Ends({i}, "unconfirmed")

\* settleAck and wait(): both outputs for a success, output 1 for the rest; what
\* a close cancelled ends quietly.
Told(outcome) ==
  CASE outcome = "accepted" -> {0, 1} [] outcome = "closed" -> {} [] OTHER -> {1}

Continues(i) ==
  /\ i \in At("resolved")
  /\ inputs' = [inputs EXCEPT ![i].phase = "done", ![i].told = Told(inputs[i].outcome)]
  /\ slot' = [slot EXCEPT ![inputs[i].node] = Released(inputs[i].node, i)]
  /\ UNCHANGED <<tier, gone, captureSequences, exposures>>

\* node.on('close').
Closes(n) ==
  /\ Quiet /\ n \notin gone
  /\ gone' = gone \cup {n}
  /\ inputs' = Cancelled(n, "closed") /\ slot' = [slot EXCEPT ![n] = Nobody]
  /\ UNCHANGED <<tier, captureSequences, exposures>>

-----------------------------------------------------------------------------
SlotInit ==
  /\ tier \in Tiers
  /\ slot = [n \in Nodes |-> Nobody] /\ gone = {} /\ inputs = << >>
  /\ captureSequences = << >> /\ exposures = [c \in Cameras |-> {}]

SlotNext ==
  \/ \E n \in PayloadNodes \cap Nodes : \E what \in Whats(n), c \in Cameras : Input(n, what, c)
  \/ \E n \in ParamNodes \cap Nodes : \E what \in Whats(n) : Input(n, what, Nobody)
  \/ \E i \in DOMAIN inputs : Resend(i) \/ Answered(i) \/ TimesOut(i) \/ Continues(i)
  \/ \E c \in Cameras : Acknowledged(c)
  \/ \E n \in Nodes : Closes(n)

-----------------------------------------------------------------------------
(* Properties *)

\* A node waits for one thing, and the slot holds it, so that the next input or
\* a close can end it (ack.js:428-460).  No end is swallowed: an input that ended
\* told nobody only because nothing was asked or its node is gone, and one that
\* was superseded had reached the wire, says so, and was followed by another
\* wait of its node (ack.js:548-560, mavlink-param.js:251-268).
SlotsAreSound ==
  /\ \A i \in At("waiting") : slot[inputs[i].node] = i
  /\ \A i \in At("done") :
       /\ inputs[i].told = {} => inputs[i].outcome = "nothing" \/ inputs[i].node \in gone
       /\ inputs[i].outcome = "superseded" =>
            /\ inputs[i].aired /\ inputs[i].told = {1}
            /\ \E j \in DOMAIN inputs : j > i /\ inputs[j].node = inputs[i].node

\* To a camera a number means one photo: a re-transmission repeats it, whichever
\* node sent it, a later photo has a later one, and 0 is for what is no single
\* photo (payload/index.js:685-712).
CapturesAreCounted ==
  \A c \in Cameras : \A x, y \in exposures[c] :
    /\ x[2] > 0 /\ x[2] = y[2] => x[1] = y[1]
    /\ x[1] = y[1] => x = y
    /\ x[2] > 0 /\ y[2] > 0 /\ x[1] < y[1] => x[2] < y[2]
    /\ x[2] = 0 <=> inputs[x[1]].what # "photo"
=============================================================================
