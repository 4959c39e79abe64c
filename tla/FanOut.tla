-------------------------------- MODULE FanOut --------------------------------
(***************************************************************************)
(* One message for a group of vehicles (lib/fanout/index.js and its node): *)
(* one after the other, a few at a time, or by a single broadcast, and one *)
(* aggregate of what became of each.                                       *)
(*                                                                         *)
(* Code between two awaits is one step.  A promise that settles is seen by *)
(* its record and by the loop in microtasks of their own; timers and a     *)
(* close come after those.  A wait for one acknowledgement is AckWaiter,   *)
(* seen from outside: it ends, and is only accepted by its vehicle.        *)
(***************************************************************************)
EXTENDS Integers, FiniteSets

CONSTANT MemberCount  \* vehicles of the selection, in the order of their ids

ASSUME FanOutAssumption == MemberCount \in Nat

Members == 1..MemberCount
Failures == {"failed", "unconfirmed", "refused", "cancelled", "skipped"}
Pending == "none"

VARIABLES
  mode,         \* executionMode: a choice, never changed
  tier,         \* delivery: a choice, never changed
  streaming,    \* the message is a setpoint: a choice, never changed
  stopOnError,  \* a choice, never changed
  concurrency,  \* a choice, never changed
  loop,         \* where executeSequential or executeBroadcast is
  group,        \* the members it resolved
  at,           \* members the loop is done with
  inFlight,     \* members whose promise the loop has not seen settle
  result,       \* what the promise of a member settled to
  records,
  stopped,
  told,         \* the aggregate: its result, or Pending
  node,         \* "open", "closing" or "closed"
  sent,         \* members commanded
  active,       \* environment: members whose component is active
  streamed,     \* environment: members with a setpoint stream
  answers       \* environment: what a vehicle made of the message

fanChoices == <<mode, tier, streaming, stopOnError, concurrency>>
fanEnvironment == <<active, streamed, answers>>
fanVars == <<fanChoices, loop, group, at, inFlight, result, records, stopped, told, node, sent, fanEnvironment>>

Aborted == node # "open"
NoResults == [m \in Members |-> Pending]

\* shouldStop.
ShouldStop == stopOnError /\ \E m \in group : records[m] \in Failures

\* Synchronous code is running, or microtasks are due before anything else.
Synchronous == loop \in {"top", "visit"}
MicrotaskDue ==
  \/ \E m \in inFlight : result[m] # Pending
  \/ loop = "capacity" /\ Cardinality(inFlight) < concurrency
  \/ loop = "draining" /\ inFlight = {}
  \/ loop = "reported" /\ node = "closing"
Quiet == ~Synchronous /\ ~MicrotaskDue

-----------------------------------------------------------------------------
(* Sequential *)

\* selectFanoutMembers: what is active, unless a broadcast reaches it anyway.
FanOutStarts ==
  /\ loop = "idle" /\ node = "open"
  /\ group' = (IF mode = "broadcast" THEN Members ELSE active)
  /\ \/ /\ group' = {} /\ told' = "empty" /\ loop' = "reported"
     \/ /\ group' # {} /\ loop' = (IF mode = "broadcast" THEN "broadcasts" ELSE "top")
        /\ UNCHANGED told
  /\ UNCHANGED <<fanChoices, at, inFlight, result, records, stopped, node, sent, fanEnvironment>>

Next1 == {m \in group : m > at /\ \A k \in group : k > at => m <= k}

\* The head of the loop, down to its wait: for a place, or for the interval.
LoopTop ==
  /\ loop = "top"
  /\ \/ Next1 = {} /\ loop' = "draining" /\ UNCHANGED stopped
     \/ /\ Next1 # {} /\ ~Aborted /\ inFlight # {} /\ Cardinality(inFlight) >= concurrency
        /\ loop' = "capacity" /\ UNCHANGED stopped
     \/ /\ Next1 # {} /\ (Aborted \/ inFlight = {} \/ Cardinality(inFlight) < concurrency)
        /\ \/ Aborted /\ loop' = "draining" /\ UNCHANGED stopped
           \/ ~Aborted /\ ShouldStop /\ loop' = "draining" /\ stopped' = TRUE
           \/ /\ ~Aborted /\ ~ShouldStop /\ UNCHANGED stopped
              /\ loop' = (IF at = 0 THEN "visit" ELSE "interval")
  /\ UNCHANGED <<fanChoices, group, at, inFlight, result, records, told, node, sent, fanEnvironment>>

\* Promise.race(inFlight).
PlaceFree ==
  /\ loop = "capacity" /\ Cardinality(inFlight) < concurrency
  /\ loop' = "top"
  /\ UNCHANGED <<fanChoices, group, at, inFlight, result, records, stopped, told, node, sent, fanEnvironment>>

\* wait(intervalMs).
IntervalElapses ==
  /\ loop = "interval" /\ Quiet
  /\ loop' = "visit"
  /\ UNCHANGED <<fanChoices, group, at, inFlight, result, records, stopped, told, node, sent, fanEnvironment>>

\* executeMember: refused, failed by the connection, sent, or waiting.
ExecuteMember(m) ==
  /\ inFlight' = inFlight \cup {m}
  /\ \/ /\ streaming /\ m \in streamed
        /\ result' = [result EXCEPT ![m] = "refused"] /\ UNCHANGED sent
     \/ /\ ~(streaming /\ m \in streamed)
        /\ \/ result' = [result EXCEPT ![m] = "failed"] /\ UNCHANGED sent
           \/ /\ sent' = sent \cup {m}
              /\ result' = (IF tier = "send" \/ streaming THEN [result EXCEPT ![m] = "sent"] ELSE result)
  /\ UNCHANGED records

\* Mutant: what the run knew before its wait is not asked again.
VisitTrusting ==
  /\ loop = "visit" /\ loop' = "top"
  /\ \E m \in Next1 : at' = m /\ ExecuteMember(m)
  /\ UNCHANGED <<fanChoices, group, stopped, told, node, fanEnvironment>>

\* After the wait everything is asked again, and the member's state as it is.
Visit ==
  /\ loop = "visit"
  /\ \/ Aborted /\ loop' = "draining" /\ UNCHANGED <<at, inFlight, result, records, stopped, sent>>
     \/ /\ ~Aborted /\ ShouldStop /\ loop' = "draining" /\ stopped' = TRUE
        /\ UNCHANGED <<at, inFlight, result, records, sent>>
     \/ /\ ~Aborted /\ ~ShouldStop /\ loop' = "top" /\ UNCHANGED stopped
        /\ \E m \in Next1 :
             /\ at' = m
             /\ \/ /\ m \notin active /\ records' = [records EXCEPT ![m] = "failed"]
                   /\ UNCHANGED <<inFlight, result, sent>>
                \/ m \in active /\ ExecuteMember(m)
  /\ UNCHANGED <<fanChoices, group, told, node, fanEnvironment>>

\* The promise of a member settles: accepted by its vehicle or not, or the
\* budget of its wait runs out.
WaitEnds(m) ==
  /\ mode = "sequential" /\ m \in inFlight /\ result[m] = Pending /\ ~Synchronous
  /\ \E how \in {"accepted", "failed", "unconfirmed"} :
       /\ how = "accepted" => answers[m] = "accepted"
       /\ how = "failed" => answers[m] = "rejected"
       /\ how = "unconfirmed" => ~MicrotaskDue
       /\ result' = [result EXCEPT ![m] = how]
  /\ UNCHANGED <<fanChoices, loop, group, at, inFlight, records, stopped, told, node, sent, fanEnvironment>>

\* Mutant: only a member that succeeds gives its place back.
RecordedKeepsPlace(m) ==
  /\ m \in inFlight /\ result[m] # Pending /\ ~Synchronous
  /\ records' = [records EXCEPT ![m] = result[m]]
  /\ inFlight' = (IF result[m] \in Failures THEN inFlight ELSE inFlight \ {m})
  /\ UNCHANGED <<fanChoices, loop, group, at, result, stopped, told, node, sent, fanEnvironment>>

\* Its record, and its place in the set.
Recorded(m) ==
  /\ m \in inFlight /\ result[m] # Pending /\ ~Synchronous
  /\ records' = [records EXCEPT ![m] = result[m]]
  /\ inFlight' = inFlight \ {m}
  /\ UNCHANGED <<fanChoices, loop, group, at, result, stopped, told, node, sent, fanEnvironment>>

-----------------------------------------------------------------------------
(* Broadcast *)

\* executeBroadcast: refused whole, failed by the connection, sent, or waiting
\* for the acknowledgement of each.
Broadcasts ==
  /\ loop = "broadcasts"
  /\ \/ /\ streaming /\ group \cap streamed # {}
        /\ told' = "refused" /\ loop' = "reported" /\ UNCHANGED <<records, sent>>
     \/ /\ ~(streaming /\ group \cap streamed # {}) /\ UNCHANGED told
        /\ \/ /\ records' = [m \in Members |-> "failed"] /\ loop' = "draining" /\ UNCHANGED sent
           \/ /\ sent' = Members
              /\ IF tier = "send" \/ streaming
                 THEN records' = [m \in Members |-> "sent"] /\ loop' = "draining"
                 ELSE loop' = "acks" /\ UNCHANGED records
  /\ UNCHANGED <<fanChoices, group, at, inFlight, result, stopped, node, fanEnvironment>>

\* confirmBroadcastAck: the first final answer of a vehicle counts; the last one
\* due ends the wait.
BroadcastAck(m) ==
  /\ loop = "acks" /\ records[m] = Pending /\ answers[m] # Pending
  /\ records' = [records EXCEPT ![m] = IF answers[m] = "accepted" THEN "accepted" ELSE "failed"]
  /\ loop' = (IF \A k \in group \ {m} : records[k] # Pending THEN "draining" ELSE loop)
  /\ UNCHANGED <<fanChoices, group, at, inFlight, result, stopped, told, node, sent, fanEnvironment>>

\* finish: whoever is silent is unconfirmed.
Unconfirmed == [m \in Members |-> IF records[m] = Pending THEN "unconfirmed" ELSE records[m]]

BroadcastTimesOut ==
  /\ loop = "acks" /\ records' = Unconfirmed /\ loop' = "draining"
  /\ UNCHANGED <<fanChoices, group, at, inFlight, result, stopped, told, node, sent, fanEnvironment>>

-----------------------------------------------------------------------------
(* The aggregate, and the node *)

\* Mutant: whom a stopped run skipped is left out.
FanOutReportsTheRest ==
  /\ loop = "draining" /\ inFlight = {} /\ loop' = "reported"
  /\ told' = (IF Aborted THEN "cancelled"
              ELSE IF \A m \in group : records[m] \notin Failures THEN "succeeded" ELSE "failed")
  /\ UNCHANGED <<fanChoices, group, at, inFlight, result, records, stopped, node, sent, fanEnvironment>>

\* aggregateFromMembers, once nothing is in flight: a stopped run names whom it
\* skipped.  A cancelled one is not reported.
FanOutReports ==
  LET final == [m \in Members |->
                  IF stopped /\ m \in group /\ m > at THEN "skipped" ELSE records[m]]
      told1 == IF Aborted THEN "cancelled"
               ELSE IF \A m \in group : final[m] \notin Failures \cup {Pending} THEN "succeeded"
               ELSE "failed"
  IN /\ loop = "draining" /\ inFlight = {}
     /\ records' = final /\ told' = told1 /\ loop' = "reported"
     /\ UNCHANGED <<fanChoices, group, at, inFlight, result, stopped, node, sent, fanEnvironment>>

\* The close handler: what waits is cancelled, and the node waits for it.
FanOutCloses ==
  /\ node = "open" /\ Quiet /\ loop # "broadcasts"
  /\ node' = (IF loop \in {"idle", "reported"} THEN "closed" ELSE "closing")
  /\ result' = [m \in Members |-> IF m \in inFlight THEN "cancelled" ELSE result[m]]
  /\ records' = (IF loop = "acks" THEN Unconfirmed ELSE records)
  /\ loop' = (CASE loop = "interval" -> "visit" [] loop = "acks" -> "draining" [] OTHER -> loop)
  /\ UNCHANGED <<fanChoices, group, at, inFlight, stopped, told, sent, fanEnvironment>>

FanOutClosed ==
  /\ node = "closing" /\ loop = "reported" /\ node' = "closed"
  /\ UNCHANGED <<fanChoices, loop, group, at, inFlight, result, records, stopped, told, sent, fanEnvironment>>

\* The environment: a component goes stale or comes back, a stream starts or
\* ends, a vehicle answers.
FleetChanges ==
  /\ ~Synchronous /\ loop # "broadcasts" /\ told = Pending
  /\ \E m \in Members :
       \/ /\ m \in active /\ active' = active \ {m} /\ UNCHANGED <<streamed, answers>>
       \/ /\ m \notin active /\ active' = active \cup {m} /\ UNCHANGED <<streamed, answers>>
       \/ /\ streaming /\ UNCHANGED <<active, answers>>
          /\ streamed' = (IF m \in streamed THEN streamed \ {m} ELSE streamed \cup {m})
       \/ /\ m \in sent /\ ~streaming /\ tier = "confirm" /\ answers[m] = Pending
          /\ \E a \in {"accepted", "rejected"} : answers' = [answers EXCEPT ![m] = a]
          /\ UNCHANGED <<active, streamed>>
  /\ UNCHANGED <<fanChoices, loop, group, at, inFlight, result, records, stopped, told, node, sent>>

FanOutInit ==
  /\ mode \in {"sequential", "broadcast"} /\ tier \in {"send", "confirm"}
  /\ streaming \in BOOLEAN /\ stopOnError \in BOOLEAN /\ concurrency \in {1, 2}
  /\ loop = "idle" /\ group = {} /\ at = 0 /\ inFlight = {}
  /\ result = NoResults /\ records = NoResults /\ stopped = FALSE /\ told = Pending
  /\ node = "open" /\ sent = {}
  /\ active = Members /\ streamed = {} /\ answers = NoResults

\* What an event loop gets to: microtasks, timers, and waits that end.
FanOutGoesOn ==
  \/ LoopTop
  \/ PlaceFree
  \/ IntervalElapses
  \/ Visit
  \/ \E m \in Members : WaitEnds(m)
  \/ \E m \in Members : Recorded(m)
  \/ Broadcasts
  \/ BroadcastTimesOut
  \/ FanOutReports
  \/ FanOutClosed

FanOutNext ==
  \/ FanOutStarts
  \/ FanOutGoesOn
  \/ \E m \in Members : BroadcastAck(m)
  \/ FanOutCloses
  \/ FleetChanges

-----------------------------------------------------------------------------
(* Properties *)

\* Every variable holds what its declaration says.
FanOutTypeOK ==
  /\ loop \in {"idle", "top", "capacity", "interval", "visit", "broadcasts", "acks", "draining", "reported"}
  /\ group \subseteq Members /\ at \in 0..MemberCount /\ inFlight \subseteq Members
  /\ DOMAIN records = Members /\ DOMAIN result = Members /\ DOMAIN answers = Members
  /\ stopped \in BOOLEAN /\ node \in {"open", "closing", "closed"}
  /\ sent \subseteq Members /\ active \subseteq Members /\ streamed \subseteq Members

\* The aggregate is the truth about everybody: it is there for each member once
\* the run is over, an acceptance is that vehicle's, a member said to be skipped
\* or refused got nothing, success means all of them, and no more than
\* concurrency were waiting at once (fanout/index.js:193-310, 592-690).
FanOutIsTrue ==
  /\ FanOutTypeOK
  /\ Cardinality(inFlight) <= concurrency
  /\ \A m \in Members :
       /\ records[m] = "accepted" => answers[m] = "accepted"
       /\ records[m] = "sent" => m \in sent
       /\ records[m] \in {"skipped", "refused"} => m \notin sent
  /\ loop = "reported" /\ told \in {"succeeded", "failed"} =>
       /\ \A m \in group : records[m] # Pending
       /\ sent \subseteq group
       /\ told = "succeeded" <=> \A m \in group : records[m] \in {"accepted", "sent"}
  /\ told \in {"refused", "empty"} => sent = {}
  /\ node = "closed" => loop \in {"idle", "reported"}

\* Nothing goes out that is known to be unwanted when it does: not after a
\* close, not after a failure the run was to stop at, not to a vehicle that is
\* gone or under a stream by then, whatever was known when the run began
\* (fanout/index.js:205-247, 433-442).
SendsAreMeant ==
  [][\A m \in sent' \ sent :
       /\ ~Aborted
       /\ mode = "sequential" =>
            /\ m \in active
            /\ stopOnError => \A k \in group : result[k] \notin Failures
       /\ streaming => m \notin streamed]_fanVars
=============================================================================
