------------------------------- MODULE Transfer -------------------------------
(***************************************************************************)
(* The request/reply skeleton every transfer is built on                   *)
(* (lib/delivery/transfer.js, with the mission base of                     *)
(* lib/mission/transfer.js): one step at a time, resent when it goes       *)
(* unanswered, settled once.  A machine EXTENDS this module, adds its own  *)
(* state and says what each reply does.                                    *)
(*                                                                         *)
(* Both directions of the link are sets that only grow: a frame may be     *)
(* delivered late, out of order, many times or never, and a frame that is  *)
(* never delivered is a lost one.  Time moves only when no timer is due.   *)
(***************************************************************************)
EXTENDS Integers, FiniteSets

CONSTANTS
  StepTimeout,   \* timeoutMs
  MaxRetries,    \* resends of one step
  SendMayThrow   \* TRUE: Connection.send may throw (band full, dead link)

ASSUME BudgetAssumption ==
  StepTimeout \in Nat \ {0} /\ MaxRetries \in Nat /\ SendMayThrow \in BOOLEAN

Unarmed == -1
NoStep == [kind |-> "none"]
CancelFrame == [kind |-> "cancel"]

VARIABLES
  phase,        \* "idle", "running" or "settled"
  outcome,      \* "none" until settled
  step,         \* the frame of the current step
  stepRetries,
  timer,        \* when the step times out, or Unarmed
  deadline,     \* the no-progress deadline of a machine that has one, or Unarmed
  now,
  up,           \* frames sent to the vehicle
  down,         \* environment: frames the vehicle sent
  refused       \* environment: the vehicle refused what was asked of it

stepVars == <<step, stepRetries>>
transferVars == <<phase, outcome, stepVars, timer, deadline, up>>
linkVars == <<now, down, refused>>

Running == phase = "running"
Budget == StepTimeout * (MaxRetries + 1)

\* _settle: once, with every timer stopped.
Settle(how) ==
  phase' = "settled" /\ outcome' = how /\ timer' = Unarmed /\ deadline' = Unarmed

\* Mutant: the step is sent without a timeout.
TransmitUnarmed(frame, progressBy) ==
  /\ up' = up \cup {frame}
  /\ timer' = Unarmed /\ deadline' = progressBy
  /\ phase' = "running" /\ UNCHANGED outcome

\* _arm, and a _sendStep that the connection takes.
Transmit(frame, progressBy) ==
  /\ up' = up \cup {frame}
  /\ timer' = now + StepTimeout /\ deadline' = progressBy
  /\ phase' = "running" /\ UNCHANGED outcome

\* _arm and _sendStep: the frame goes out under a fresh timeout, or the send
\* throws and the transfer aborts.
SendStep(frame, progressBy) ==
  \/ Transmit(frame, progressBy)
  \/ SendMayThrow /\ Settle("send-failed") /\ UNCHANGED up

\* _step: a new step starts with its retries unspent.
Step(frame, progressBy) ==
  step' = frame /\ stepRetries' = 0 /\ SendStep(frame, progressBy)

\* _onTimeout, and the retry that is left to it.
TimedOut == Running /\ timer # Unarmed /\ now >= timer
Retries == stepRetries < MaxRetries /\ stepRetries' = stepRetries + 1
Exhausted == stepRetries >= MaxRetries

\* The step again, or the transfer stalls.
StepTimesOut ==
  /\ TimedOut
  /\ \/ Retries /\ SendStep(step, deadline)
     \/ Exhausted /\ Settle("stalled") /\ UNCHANGED <<up, stepRetries>>
  /\ UNCHANGED <<step, linkVars>>

\* cancel().
Cancelled == Running /\ Settle("cancelled") /\ UNCHANGED <<up, stepVars, linkVars>>

\* cancel() of a mission transfer: the wire is told, if it takes the frame.
MissionCancelled ==
  /\ Running
  /\ \/ up' = up \cup {CancelFrame}
     \/ SendMayThrow /\ UNCHANGED up
  /\ Settle("cancelled")
  /\ UNCHANGED <<stepVars, linkVars>>

\* The vehicle sends a frame.
Says(m) == down' = down \cup {m} /\ UNCHANGED <<transferVars, now>>
Answers(m) == Says(m) /\ UNCHANGED refused

Due == \/ timer # Unarmed /\ now >= timer
       \/ deadline # Unarmed /\ now >= deadline

\* Time passes while a timer waits for it.
Tick ==
  /\ timer # Unarmed \/ deadline # Unarmed
  /\ ~Due
  /\ now' = now + 1
  /\ UNCHANGED <<transferVars, down, refused>>

TransferInit ==
  /\ phase = "idle" /\ outcome = "none"
  /\ step = NoStep /\ stepRetries = 0
  /\ timer = Unarmed /\ deadline = Unarmed
  /\ now = 0 /\ up = {} /\ refused = FALSE

-----------------------------------------------------------------------------
\* The skeleton's variables hold what their declarations say; a step is never
\* resent more often than it may be.
TransferTypeOK ==
  /\ phase \in {"idle", "running", "settled"}
  /\ phase = "settled" <=> outcome # "none"
  /\ stepRetries \in 0..MaxRetries
  /\ timer \in Nat \cup {Unarmed} /\ deadline \in Nat \cup {Unarmed}
  /\ now \in Nat /\ refused \in BOOLEAN

\* A running transfer always waits under a timer and a finished one leaves
\* none: whichever of replies, timers, failed sends and cancels settles it,
\* nothing is left to settle it again or to send on (transfer.js:206-219).
TimersFollowThePhase ==
  /\ Running => timer # Unarmed
  /\ ~Running => timer = Unarmed /\ deadline = Unarmed

\* A transfer is only reported rejected by a vehicle that refused it: sequence
\* errors of a lossy link are ridden out (upload.js:166-170) and answers to
\* others left alone (transfer.js:75-77).
RejectedMeansRefused == outcome = "rejected" => refused
=============================================================================
