------------------------------ MODULE CommandNode ------------------------------
(***************************************************************************)
(* The command node's confirm and complete tiers                           *)
(* (nodes/mavlink-command.js on the slot and the report of                 *)
(* lib/command/ack.js and the wait of lib/command/completion.js): inputs   *)
(* arrive at any time, a newer one supersedes the wait of the one before,  *)
(* and every input is to end in one record.                                *)
(*                                                                         *)
(* A wait settles in one step and its input goes on in a later one; other  *)
(* inputs, acks, timers and the close of the node come in between.  What   *)
(* an ack wait does until it settles is module AckWaiter.  Acks and peers  *)
(* are the environment: all inputs of a node send the same command, and    *)
(* the peer table may show its effect for other reasons.                   *)
(***************************************************************************)
EXTENDS Integers, FiniteSets

CONSTANTS
  Inputs,               \* messages that arrive at the node
  SendMayThrow,         \* TRUE: Connection.send may throw
  BadIdentity,          \* inputs whose identity does not resolve
  Nobody                \* the slot is empty

NodeAssumption ==
  /\ SendMayThrow \in BOOLEAN /\ IsFiniteSet(Inputs)
  /\ BadIdentity \subseteq Inputs /\ Nobody \notin Inputs

Results == {"accepted", "rejected", "timeout", "failed"}
Cancels == {"superseded", "cancelled"}

VARIABLES
  complete,             \* config: the complete tier, or confirm
  continueUnconfirmed,  \* config: the operator's choice
  generation,  \* _generation
  active,      \* slot.active: the input whose wait it holds, or Nobody
  stage,       \* per input: how far its handler got
  verdict,     \* per input: what its current wait settled with
  mine,        \* per input: myGen
  record,      \* per input: the result on output 1, or "none"
  continued,   \* inputs that fired output 0
  closed,
  shows,       \* environment: the peer table shows the condition
  sent,        \* environment: inputs whose command is on the wire
  air          \* environment: acks underway: <<input, result>>

nodeVars == <<generation, active, stage, verdict, mine, record, continued, closed>>
envVars == <<shows, sent, air>>
config == <<complete, continueUnconfirmed>>
vars == <<nodeVars, envVars>>

\* A wait of i is in flight, on its ack or on its completion.
Waits(i) == stage[i] \in {"acking", "completing"}

Settled(i) == IF stage[i] = "acking" THEN "acked" ELSE "completed"

-----------------------------------------------------------------------------
(* Inputs *)

\* Mutant: the timers of the wait are stopped and nobody is told.
CancelActiveSilently(why, i, next) ==
  /\ stage' = [j \in Inputs |-> IF j = i THEN next
                                ELSE IF j = active /\ Waits(j) THEN "dropped" ELSE stage[j]]
  /\ UNCHANGED verdict

\* slot.cancel: the wait in the slot settles, unless it already has; input i,
\* if any, moves to its next stage.
CancelActive(why, i, next) ==
  LET cut == active # Nobody /\ Waits(active) IN
  /\ stage' = [j \in Inputs |-> IF j = i THEN next
                                ELSE IF cut /\ j = active THEN Settled(j) ELSE stage[j]]
  /\ verdict' = IF cut THEN [verdict EXCEPT ![active] = why] ELSE verdict

\* An input whose identity does not resolve fails before it reaches the slot,
\* when the generation has moved already.
InputUnresolved(i) ==
  /\ stage[i] = "new" /\ ~closed /\ i \in BadIdentity
  /\ generation' = generation + 1
  /\ stage' = [stage EXCEPT ![i] = "done"] /\ record' = [record EXCEPT ![i] = "failed"]
  /\ UNCHANGED <<active, verdict, mine, continued, closed, envVars>>

\* The input supersedes what is in the slot, takes it and sends.
InputSends(i) ==
  /\ stage[i] = "new" /\ ~closed /\ i \notin BadIdentity
  /\ generation' = generation + 1 /\ mine' = [mine EXCEPT ![i] = generation + 1]
  /\ active' = i /\ sent' = sent \cup {i}
  /\ CancelActive("superseded", i, "acking")
  /\ UNCHANGED <<record, continued, closed, shows, air>>

\* The same, and the send throws: the slot is released and the input fails.
InputThrows(i) ==
  /\ stage[i] = "new" /\ ~closed /\ i \notin BadIdentity /\ SendMayThrow
  /\ generation' = generation + 1 /\ mine' = [mine EXCEPT ![i] = generation + 1]
  /\ active' = Nobody
  /\ CancelActive("superseded", i, "done")
  /\ record' = [record EXCEPT ![i] = "failed"]
  /\ UNCHANGED <<continued, closed, envVars>>

-----------------------------------------------------------------------------
(* The ack wait *)

AckSettles(i, result) ==
  /\ stage[i] = "acking"
  /\ stage' = [stage EXCEPT ![i] = "acked"] /\ verdict' = [verdict EXCEPT ![i] = result]
  /\ UNCHANGED <<generation, active, mine, record, continued, closed>>

\* An ack settles whatever wait is in flight: it names the command only.
AckArrives(i) == \E a \in air : AckSettles(i, a[2]) /\ UNCHANGED envVars

\* Silence, or a re-send that throws.
AckTimesOut(i) ==
  /\ \/ AckSettles(i, "timeout")
     \/ SendMayThrow /\ AckSettles(i, "failed")
  /\ UNCHANGED envVars

\* release: guarded on identity.
Released(i) == IF active = i THEN Nobody ELSE active

\* A lost ack is checked against the peer table.
AckOutcome(i) == IF verdict[i] = "timeout" /\ shows THEN "accepted" ELSE verdict[i]

\* The input ends: with a record on output 1 or quietly, with or without output 0.
Ends(i, result, fires) ==
  /\ stage' = [stage EXCEPT ![i] = "done"]
  /\ record' = [record EXCEPT ![i] = result]
  /\ continued' = IF fires THEN continued \cup {i} ELSE continued

\* Mutant: whatever cancelled the wait, the input ends quietly.
SettlesAckQuietly(i, outcome) ==
  \/ outcome \in {"rejected", "failed"} /\ Ends(i, outcome, FALSE)
  \/ outcome \in Cancels /\ Ends(i, "none", FALSE)
  \/ outcome = "timeout" /\ Ends(i, "unconfirmed", continueUnconfirmed)
  \/ outcome = "accepted" /\ Ends(i, "accepted", TRUE)

\* settleAck: every outcome but a close is reported.
SettlesAck(i, outcome) ==
  \/ outcome \in {"rejected", "failed", "superseded"} /\ Ends(i, outcome, FALSE)
  \/ outcome = "cancelled" /\ Ends(i, "none", FALSE)
  \/ outcome = "timeout" /\ Ends(i, "unconfirmed", continueUnconfirmed)
  \/ outcome = "accepted" /\ Ends(i, "accepted", TRUE)

\* The input goes on after its ack wait and is done, unless an acceptance has
\* to be followed to its completion.
AckContinues(i) ==
  /\ stage[i] = "acked"
  /\ ~(complete /\ AckOutcome(i) = "accepted")
  /\ active' = Released(i)
  /\ SettlesAck(i, AckOutcome(i))
  /\ UNCHANGED <<generation, verdict, mine, closed, envVars>>

-----------------------------------------------------------------------------
(* The completion wait *)

\* pollCompletion: the first poll settles the wait at once if the condition is
\* met; otherwise it goes into the slot, or is cancelled if the input is stale.
Polls(i) ==
  LET current == mine[i] = generation IN
  /\ active' = IF current THEN i ELSE Released(i)
  /\ \/ /\ shows
        /\ stage' = [stage EXCEPT ![i] = "completed"] /\ verdict' = [verdict EXCEPT ![i] = "reached"]
     \/ /\ ~shows /\ current
        /\ stage' = [stage EXCEPT ![i] = "completing"] /\ UNCHANGED verdict
     \/ /\ ~shows /\ ~current
        /\ stage' = [stage EXCEPT ![i] = "completed"] /\ verdict' = [verdict EXCEPT ![i] = "cancelled"]

AckIsFollowed(i) ==
  /\ stage[i] = "acked" /\ complete /\ AckOutcome(i) = "accepted"
  /\ Polls(i)
  /\ UNCHANGED <<generation, mine, record, continued, closed, envVars>>

\* A poll or the last look at the deadline.
CompletionSettles(i) ==
  /\ stage[i] = "completing"
  /\ stage' = [stage EXCEPT ![i] = "completed"]
  /\ verdict' = [verdict EXCEPT ![i] = IF shows THEN "reached" ELSE "late"]
  /\ UNCHANGED <<generation, active, mine, record, continued, closed, envVars>>

\* Mutant: a stale run reports its success.
CompletionEndsStale(i) ==
  \/ verdict[i] = "reached" /\ Ends(i, "accepted", TRUE)
  \/ verdict[i] = "late" /\ Ends(i, "timeout", FALSE)
  \/ verdict[i] \in Cancels /\ Ends(i, IF verdict[i] = "superseded" THEN "superseded" ELSE "none", FALSE)

\* What the input reports: nothing when it is stale, but for a supersession.
CompletionEnds(i) ==
  LET current == mine[i] = generation IN
  \/ verdict[i] = "superseded" /\ Ends(i, "superseded", FALSE)
  \/ verdict[i] # "superseded" /\ (verdict[i] = "cancelled" \/ ~current) /\ Ends(i, "none", FALSE)
  \/ verdict[i] = "reached" /\ current /\ Ends(i, "accepted", TRUE)
  \/ verdict[i] = "late" /\ current /\ Ends(i, "timeout", FALSE)

CompletionContinues(i) ==
  /\ stage[i] = "completed"
  /\ active' = Released(i)
  /\ CompletionEnds(i)
  /\ UNCHANGED <<generation, verdict, mine, closed, envVars>>

Close ==
  /\ ~closed /\ closed' = TRUE
  /\ generation' = generation + 1
  /\ active' = Nobody
  /\ CancelActive("cancelled", Nobody, "new")
  /\ UNCHANGED <<mine, record, continued, envVars>>

-----------------------------------------------------------------------------
(* Vehicle and peer table *)

\* The vehicle answers a command it got.
VehicleAnswers(i) ==
  /\ i \in sent
  /\ \E result \in {"accepted", "rejected"} :
       <<i, result>> \notin air /\ air' = air \cup {<<i, result>>}
  /\ UNCHANGED <<nodeVars, shows, sent>>

\* The condition comes and goes, by our commands, another station or a pilot.
ConditionChanges == shows' = ~shows /\ UNCHANGED <<nodeVars, sent, air>>

-----------------------------------------------------------------------------
Init ==
  /\ complete \in BOOLEAN /\ continueUnconfirmed \in BOOLEAN
  /\ generation = 0 /\ active = Nobody /\ closed = FALSE
  /\ stage = [i \in Inputs |-> "new"] /\ verdict = [i \in Inputs |-> "none"]
  /\ mine = [i \in Inputs |-> 0]
  /\ record = [i \in Inputs |-> "none"] /\ continued = {}
  /\ shows \in BOOLEAN /\ sent = {} /\ air = {}

Handler(i) ==
  \/ AckArrives(i) \/ AckTimesOut(i) \/ AckContinues(i)
  \/ AckIsFollowed(i) \/ CompletionSettles(i) \/ CompletionContinues(i)

Step ==
  \/ \E i \in Inputs : InputUnresolved(i) \/ InputSends(i) \/ InputThrows(i) \/ VehicleAnswers(i)
  \/ \E i \in Inputs : Handler(i)
  \/ Close
  \/ ConditionChanges

Next == Step /\ UNCHANGED config

Spec == Init /\ [][Next]_<<config, vars>>

-----------------------------------------------------------------------------
(* Properties *)

\* Every variable holds what its declaration says; no wait is left undecided.
TypeOK ==
  /\ config \in BOOLEAN \X BOOLEAN
  /\ generation \in 0..(Cardinality(Inputs) + 1)
  /\ active \in Inputs \cup {Nobody} /\ closed \in BOOLEAN
  /\ stage \in [Inputs -> {"new", "acking", "acked", "completing", "completed", "done"}]
  /\ verdict \in [Inputs -> {"none", "reached", "late"} \cup Results \cup Cancels]
  /\ mine \in [Inputs -> 0..generation]
  /\ record \in [Inputs -> {"none", "unconfirmed", "superseded"} \cup Results]
  /\ continued \subseteq Inputs /\ sent \subseteq Inputs
  /\ shows \in BOOLEAN /\ air \subseteq sent \X Results

\* Whatever settles, supersedes or closes in between, a wait that is still in
\* flight is the one in the slot: there is one at a time, and a newer input or a
\* close can always reach it (ack.js:399-408, command.js pollCompletion).
EveryWaitIsInTheSlot == \A i \in Inputs : Waits(i) => active = i

\* After the node closed no wait is in flight and none begins, so no timer of a
\* node that is gone reports anything.
NothingWaitsAfterClose == closed => \A i \in Inputs : ~Waits(i)

\* In the complete tier the flow behind output 0 goes on for the newest input
\* only, though older ones may be completed by what the newer one did.
NewestGoesOn ==
  complete => \A i \in continued' \ continued : record'[i] = "accepted" => mine[i] = generation

\* Output 0 fires for nothing but an acceptance, a state that was reached, or
\* silence the operator chose to ignore.
OutputZeroIsEarned ==
  \A i \in continued : \/ record[i] = "accepted"
                       \/ record[i] = "unconfirmed" /\ continueUnconfirmed

\* An input that ends without a record was cut off by a close or, in the
\* complete tier, made stale by a newer one; no other outcome is swallowed
\* (DESIGN.md 14.47, 14.159).
QuietMeansStale ==
  \A i \in Inputs : stage[i] = "done" /\ record[i] = "none" =>
    closed \/ (complete /\ mine[i] < generation)

\* A wait has one owner, who can end it: the slot while the node is open, nobody
\* after.
WaitsAreOwned == TypeOK /\ EveryWaitIsInTheSlot /\ NothingWaitsAfterClose

\* What an input ends in is told: no outcome is swallowed and none is invented.
OutcomesAreTold == OutputZeroIsEarned /\ QuietMeansStale
=============================================================================
