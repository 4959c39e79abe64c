------------------------------ MODULE AckWaiter ------------------------------
(***************************************************************************)
(* One acknowledged command (lib/command/ack.js): a waiter that transmits, *)
(* listens for COMMAND_ACK and retries, over a link that loses, delays and *)
(* perhaps repeats frames, to a vehicle that answers what it likes.        *)
(*                                                                         *)
(* Time is discrete; a due timer fires before time moves on, in any order  *)
(* with the acks that arrive at that instant.  The vehicle and the link    *)
(* are the environment: each transmission that arrives is executed or not, *)
(* and the ack says which, if it is not lost.                              *)
(***************************************************************************)
EXTENDS Integers, FiniteSets

CONSTANTS
  TimeoutMs,       \* the ack window after every send
  RetryInterval,   \* back-off after TEMPORARILY_REJECTED (RETRY_INTERVAL_MS)
  MaxRetries,      \* re-sends beyond the first
  SendMayThrow     \* TRUE: Connection.send may throw (queue full, link disabled)

IN_PROGRESS_CEILING == 6

TimesAssumption ==
  TimeoutMs \in Nat \ {0} /\ RetryInterval \in Nat \ {0} /\ MaxRetries \in Nat
FlagsAssumption == SendMayThrow \in BOOLEAN

Results == {"accepted", "in_progress", "temporarily_rejected", "failed"}
Ours == "this_station"
Acks == [result : Results, addressed : {Ours, "another_station"}]
Unarmed == -1   \* a timer handle that is null

VARIABLES
  noAutoRetry,  \* option: a re-send is not the same command (a relative turn)
  linkRepeats,  \* environment: the link may deliver an ack more than once
  started,   \* start() was called
  outcome,   \* "none" until settled: an ack result, "timeout", "send_failed", "cancelled"
  retries,   \* _retries: also the confirmation byte
  heard,     \* _heard: this transmission was answered
  deadline,  \* when the ack window closes, or Unarmed
  retryAt,   \* when the back-off ends, or Unarmed
  now,
  up,        \* transmissions on their way, by confirmation number
  down,      \* acks on their way
  executed,  \* environment: times the vehicle carried the command out
  busy,      \* environment: it is still carrying it out
  inWork     \* history: the last ack taken said IN_PROGRESS

waiterVars == <<started, outcome, retries, heard, deadline, retryAt>>
vehicleVars == <<executed, busy>>
fixed == <<noAutoRetry, linkRepeats>>
vars == <<waiterVars, now, up, down, vehicleVars, inWork>>

Settled == outcome # "none"
Waiting == started /\ ~Settled

-----------------------------------------------------------------------------
(* The waiter *)

\* _settle and cancel: the outcome, and every timer and the subscription released.
Settle(how) == outcome' = how /\ deadline' = Unarmed /\ retryAt' = Unarmed

\* _arm and sendFn: a window, and the frame on its way.
Transmit(n) == up' = up \cup {n} /\ deadline' = now + TimeoutMs /\ UNCHANGED outcome

\* start(): subscribe, arm, send; a throw settles and rejects.
Start ==
  /\ ~started
  /\ started' = TRUE
  /\ \/ Transmit(0) /\ UNCHANGED retryAt
     \/ SendMayThrow /\ Settle("send_failed") /\ UNCHANGED up
  /\ UNCHANGED <<retries, heard, now, down, vehicleVars, inWork>>

\* _resend: one more transmission, unheard, with a window of its own; a throw
\* settles.  backOff is what is left of the back-off timer.
Resend(backOff) ==
  /\ retries' = retries + 1
  /\ heard' = FALSE
  /\ \/ Transmit(retries + 1) /\ retryAt' = backOff
     \/ SendMayThrow /\ Settle("send_failed") /\ UNCHANGED up

\* The back-off ends.
RetryFires ==
  /\ Waiting /\ retryAt # Unarmed /\ now >= retryAt
  /\ Resend(Unarmed)
  /\ UNCHANGED <<started, now, down, vehicleVars, inWork>>

MayResend == ~heard /\ ~noAutoRetry /\ retries < MaxRetries

\* _onTimeout: the window closes.
TimeoutFires ==
  /\ Waiting /\ deadline # Unarmed /\ now >= deadline
  /\ \/ MayResend /\ Resend(retryAt)
     \/ ~MayResend /\ Settle("timeout") /\ UNCHANGED <<retries, heard, up>>
  /\ UNCHANGED <<started, now, down, vehicleVars, inWork>>

Remaining == TimeoutMs * IN_PROGRESS_CEILING - now

\* IN_PROGRESS: a new window, never past the ceiling.
OnInProgress ==
  /\ deadline' = IF Remaining <= 0 THEN deadline
                 ELSE IF Remaining < TimeoutMs THEN now + Remaining ELSE now + TimeoutMs
  /\ UNCHANGED <<outcome, retries, retryAt>>

\* Mutant: a rejection that repeats pushes the back-off further out.
OnRejectedRestarts ==
  /\ deadline' = Unarmed /\ retryAt' = now + RetryInterval
  /\ UNCHANGED <<outcome, retries>>

\* TEMPORARILY_REJECTED within the budget: one back-off at a time.
OnRejected ==
  /\ IF retryAt # Unarmed THEN UNCHANGED <<deadline, retryAt>>
     ELSE deadline' = Unarmed /\ retryAt' = now + RetryInterval
  /\ UNCHANGED <<outcome, retries>>

\* The ack answers our command and is not addressed to another station.
ForUs(ack) == ack.addressed = Ours

\* _onAck for an ack that is ours.
OnAck(ack) ==
  /\ heard' = TRUE
  /\ inWork' = (ack.result = "in_progress")
  /\ \/ ack.result = "in_progress" /\ OnInProgress
     \/ ack.result = "temporarily_rejected" /\ retries < MaxRetries /\ OnRejected
     \/ /\ ack.result \in {"accepted", "failed"}
              \cup (IF retries >= MaxRetries THEN {"temporarily_rejected"} ELSE {})
        /\ Settle(ack.result)
        /\ UNCHANGED retries
  /\ UNCHANGED <<started, now, up, vehicleVars>>

\* An ack arrives.  The waiter is subscribed exactly while it waits.
AckArrives ==
  \E ack \in down :
    /\ \/ down' = down \ {ack}
       \/ linkRepeats /\ UNCHANGED down
    /\ \/ Waiting /\ ForUs(ack) /\ OnAck(ack)
       \/ ~(Waiting /\ ForUs(ack)) /\ UNCHANGED <<waiterVars, now, up, vehicleVars, inWork>>

\* cancel(): the node closes or a newer input supersedes the wait.
Cancel ==
  /\ Waiting
  /\ Settle("cancelled")
  /\ UNCHANGED <<started, retries, heard, now, up, down, vehicleVars, inWork>>

-----------------------------------------------------------------------------
(* The link and the vehicle *)

Answer(result) == down' = down \cup {[result |-> result, addressed |-> Ours]}

\* A transmission arrives: refused, carried out at once, or begun.
CommandArrives ==
  /\ \E n \in up : up' = up \ {n}
  /\ \/ (Answer("temporarily_rejected") \/ Answer("failed")) /\ UNCHANGED vehicleVars
     \/ Answer("accepted") /\ executed' = executed + 1 /\ UNCHANGED busy
     \/ Answer("in_progress") /\ executed' = executed + 1 /\ busy' = TRUE
  /\ UNCHANGED <<waiterVars, now, inWork>>

\* A busy vehicle reports progress, or that it is done.
Progress ==
  /\ busy
  /\ \/ Answer("in_progress") /\ UNCHANGED busy
     \/ Answer("accepted") /\ busy' = FALSE
  /\ UNCHANGED <<waiterVars, now, up, executed, inWork>>

\* Another station's command of the same id is answered on the shared link.
OthersAck ==
  /\ down' = down \cup {[result |-> "accepted", addressed |-> "another_station"]}
  /\ UNCHANGED <<waiterVars, now, up, vehicleVars, inWork>>

Lose ==
  /\ \/ \E n \in up : up' = up \ {n} /\ UNCHANGED down
     \/ \E a \in down : down' = down \ {a} /\ UNCHANGED up
  /\ UNCHANGED <<waiterVars, now, vehicleVars, inWork>>

Due == (deadline # Unarmed /\ now >= deadline) \/ (retryAt # Unarmed /\ now >= retryAt)

\* Time passes while a timer waits for it.
Tick ==
  /\ deadline # Unarmed \/ retryAt # Unarmed
  /\ Waiting /\ ~Due
  /\ now' = now + 1
  /\ UNCHANGED <<waiterVars, up, down, vehicleVars, inWork>>

Init ==
  /\ noAutoRetry \in BOOLEAN /\ linkRepeats \in BOOLEAN
  /\ started = FALSE /\ outcome = "none"
  /\ retries = 0 /\ heard = FALSE
  /\ deadline = Unarmed /\ retryAt = Unarmed
  /\ now = 0
  /\ up = {} /\ down = {}
  /\ executed = 0 /\ busy = FALSE
  /\ inWork = FALSE

Step ==
  \/ Start
  \/ RetryFires
  \/ TimeoutFires
  \/ AckArrives
  \/ Cancel
  \/ CommandArrives
  \/ Progress
  \/ OthersAck
  \/ Lose
  \/ Tick

Next == Step /\ UNCHANGED fixed

Spec == Init /\ [][Next]_<<vars, fixed>>

-----------------------------------------------------------------------------
(* Properties *)

\* The longest a transaction can last: the ceiling on progress, then a back-off
\* and a window for every re-send.
LongestWait == TimeoutMs * IN_PROGRESS_CEILING + MaxRetries * (RetryInterval + TimeoutMs)

\* Every variable holds what its declaration says, and the budget of re-sends
\* is shared by silence and rejections alike (ack.js:91).
TypeOK ==
  /\ fixed \in BOOLEAN \X BOOLEAN
  /\ {started, heard, busy, inWork} \subseteq BOOLEAN
  /\ outcome \in Results \cup {"none", "timeout", "send_failed", "cancelled"}
  /\ retries \in 0..MaxRetries
  /\ deadline \in Nat \cup {Unarmed} /\ retryAt \in Nat \cup {Unarmed}
  /\ now \in Nat
  /\ up \subseteq 0..MaxRetries /\ down \subseteq Acks
  /\ executed \in 0..MaxRetries + 1

\* A transaction that is not settled always has a timer that will end or renew
\* it, and a settled one has none: no sequence of rejections, progress reports
\* and re-sends leaves it waiting on the link alone, or re-sending afterwards.
WaitingIsTimed ==
  /\ Waiting => deadline # Unarmed \/ retryAt # Unarmed
  /\ Settled => deadline = Unarmed /\ retryAt = Unarmed

\* However the vehicle spreads its progress reports and rejections, the wait
\* ends within the progress ceiling plus one back-off and window per re-send
\* (ack.js:42, 224-230).
WaitIsBounded == now <= LongestWait

\* A command is only reported accepted when this vehicle carried it out, not on
\* an ack another station on the link asked for (ack.js:204-206).
AcceptedWasExecuted == outcome = "accepted" => executed > 0

\* A command that must not be re-sent into silence is carried out at most once
\* while the link does not repeat acks (ack.js:93-96).
ExecutedAtMostOnce == noAutoRetry /\ ~linkRepeats => executed <= 1

\* A dropped frame is not taken for a vehicle gone quiet: with re-sends left
\* and allowed, `timeout' is only reported of a vehicle that began the command,
\* though frames and rejections were lost on the way (ack.js:16-25, 304-315).
SilenceSpendsTheBudget ==
  outcome = "timeout" => noAutoRetry \/ retries = MaxRetries \/ executed > 0

\* What the header says: after IN_PROGRESS the command is in work and is never
\* re-sent into.
NeverResentIntoWork == [][retries' > retries => ~inWork]_vars

\* A transaction is under a timer for as long as it lasts, and lasts no longer
\* than its budget.
WaitIsSound == TypeOK /\ WaitingIsTimed /\ WaitIsBounded

\* What the vehicle did agrees with what is reported of it: accepted is done,
\* and what may not be repeated is not.
ExecutedAsReported == AcceptedWasExecuted /\ ExecutedAtMostOnce
=============================================================================
