----------------------------- MODULE Operations -----------------------------
(***************************************************************************)
(* The runs of the System and the Mission node against one vehicle         *)
(* (nodes/mavlink-system.js, nodes/mavlink-mission.js), the locks they     *)
(* share (lib/delivery/lock.js) and the runs a close waits for             *)
(* (inFlightTracker, lib/delivery/index.js).                               *)
(*                                                                         *)
(* A machine is seen from outside: it settles (Transfers shows that it     *)
(* does), and at once when it is cancelled.  Its run sees that in a        *)
(* microtask, before any input, timer, message or close.                   *)
(***************************************************************************)
EXTENDS Integers, Sequences, FiniteSets, FiniteSetsExt

CONSTANTS
  RunCount,      \* inputs, over the life of both nodes
  BundlePlans,   \* what a backup or a restore may work through
  SingleKeys,    \* services of a run of one transfer
  MissionTypes   \* plan types a Mission node may name

ASSUME OperationsAssumption ==
  /\ RunCount \in Nat
  /\ \A p \in BundlePlans :
       /\ p \in Seq({p[i] : i \in DOMAIN p})
       /\ \A i, j \in DOMAIN p : p[i] = p[j] => i = j
       /\ \A i \in DOMAIN p : p[i] # "none"
  /\ "none" \notin SingleKeys \cup MissionTypes

Runs == 1..RunCount
Free == "none"

VARIABLES
  kind,         \* "none", "bundle", "single" or "mission"
  plan,         \* what the run converses about, in order
  step,         \* the section it is at
  lock,         \* the lock it holds, or Free
  machine,      \* "none", "live", or how it settled; "crater" for a throw
  succeeded,    \* sections in `done` of runBundle
  failed,
  outcome,      \* what was reported, or "none"
  held,         \* LockRegistry._held
  activeByKey,  \* the runs whose machine a Mission node would cancel
  deployed,     \* of either node: "open", "closing" or "closed"
  moved         \* environment: sections whose transfer was carried out

runVars == <<kind, plan, step, lock, machine, succeeded, failed, outcome, moved>>
operationVars == <<runVars, held, activeByKey, deployed>>

Settled(r) == machine[r] \notin {"none", "live"}
Open(r) == kind[r] # "none" /\ outcome[r] = "none"
SystemRuns == {r \in Runs : kind[r] \in {"bundle", "single"}}

\* No microtask is due.
NothingDue ==
  /\ \A r \in Runs : ~Settled(r)
  /\ deployed["system"] = "closing" => \E r \in SystemRuns : Open(r)

\* start(): a frame that cannot be sent settles it there.
Starting == {"live", "failed", "crater"}

\* The next input, for node n.
Arrives(r, n) ==
  /\ kind[r] = "none" /\ \A q \in 1..(r - 1) : kind[q] # "none"
  /\ deployed[n] = "open" /\ NothingDue

-----------------------------------------------------------------------------
(* A bundle *)

\* backupOutcome, restoreOutcome.
BundleOutcome(s, f) ==
  IF s = {} THEN "failed" ELSE IF f = {} THEN "succeeded" ELSE "partial"

\* The loop of runBundle down to its wait, with locks h held by others: a
\* section in work elsewhere is refused, and the next one taken.
Advance(r, p, from, h, s, f) ==
  LET takes == {i \in from..Len(p) : p[i] \notin h}
      to == IF takes = {} THEN Len(p) + 1 ELSE Min(takes)
      refused == {p[i] : i \in from..(to - 1)}
  IN /\ succeeded' = [succeeded EXCEPT ![r] = s]
     /\ failed' = [failed EXCEPT ![r] = f \cup refused]
     /\ step' = [step EXCEPT ![r] = to]
     /\ \/ /\ takes = {} /\ held' = h
           /\ lock' = [lock EXCEPT ![r] = Free]
           /\ machine' = [machine EXCEPT ![r] = "none"]
           /\ outcome' = [outcome EXCEPT ![r] = BundleOutcome(s, f \cup refused)]
        \/ /\ takes # {} /\ held' = h \cup {p[to]}
           /\ lock' = [lock EXCEPT ![r] = p[to]]
           /\ \E how \in Starting : machine' = [machine EXCEPT ![r] = how]
           /\ UNCHANGED outcome

BundleStarts(r) ==
  /\ Arrives(r, "system")
  /\ kind' = [kind EXCEPT ![r] = "bundle"]
  /\ \E p \in BundlePlans : plan' = [plan EXCEPT ![r] = p] /\ Advance(r, p, 1, held, {}, {})
  /\ UNCHANGED <<activeByKey, deployed, moved>>

\* A run ends with the result res, and frees its lock.
Ends(r, res) ==
  /\ held' = held \ {lock[r]}
  /\ lock' = [lock EXCEPT ![r] = Free]
  /\ machine' = [machine EXCEPT ![r] = "none"]
  /\ outcome' = [outcome EXCEPT ![r] = res]
  /\ UNCHANGED <<step, succeeded, failed>>

\* A section is over.  A cancelled one ends the bundle; one that failed, or
\* threw, does not.
BundleGoesOn(r) ==
  /\ kind[r] = "bundle" /\ Settled(r)
  /\ LET k == plan[r][step[r]]
         s == IF machine[r] = "succeeded" THEN succeeded[r] \cup {k} ELSE succeeded[r]
         f == IF machine[r] = "succeeded" THEN failed[r] ELSE failed[r] \cup {k}
         over == deployed["system"] # "open" \/ machine[r] = "cancelled"
     IN \/ over /\ Ends(r, machine[r])
        \/ ~over /\ Advance(r, plan[r], step[r] + 1, held \ {lock[r]}, s, f)
  /\ UNCHANGED <<kind, plan, activeByKey, deployed, moved>>

-----------------------------------------------------------------------------
(* One transfer *)

\* A transfer under the lock l: refused, started, or thrown out.
Begins(r, k, l) ==
  /\ plan' = [plan EXCEPT ![r] = <<k>>]
  /\ step' = [step EXCEPT ![r] = 1]
  /\ \/ /\ l \in held /\ outcome' = [outcome EXCEPT ![r] = "locked"]
        /\ UNCHANGED <<lock, machine, held>>
     \/ /\ l \notin held /\ held' = held \cup {l}
        /\ lock' = [lock EXCEPT ![r] = l]
        /\ \E how \in Starting : machine' = [machine EXCEPT ![r] = how]
        /\ UNCHANGED outcome
  /\ UNCHANGED <<succeeded, failed, deployed, moved>>

\* runSingle.
SingleStarts(r) ==
  /\ Arrives(r, "system")
  /\ kind' = [kind EXCEPT ![r] = "single"]
  /\ \E k \in SingleKeys : Begins(r, k, k)
  /\ UNCHANGED activeByKey

\* Its finally, and finish or failInput.
SingleGoesOn(r) ==
  /\ kind[r] = "single" /\ Settled(r)
  /\ Ends(r, IF machine[r] = "crater" THEN "failed" ELSE machine[r])
  /\ UNCHANGED <<kind, plan, activeByKey, deployed, moved>>

\* Mutant: the lock is the one of the label.
LockScopeOfLabel(operation, type) == type

\* lockMissionType: to set the current item is to work on the mission.
LockScope(operation, type) == IF operation = "set-current" THEN "mission" ELSE type

\* confirmTier: a machine that throws instead of starting is never stored, and
\* its lock is freed on the way out.
MissionStarts(r) ==
  /\ Arrives(r, "mission")
  /\ kind' = [kind EXCEPT ![r] = "mission"]
  /\ \E operation \in {"transfer", "set-current"}, type \in MissionTypes :
       LET wire == IF operation = "set-current" THEN "mission" ELSE type
           l == LockScope(operation, type)
       IN \/ /\ Begins(r, wire, l) /\ machine'[r] # "crater"
             /\ activeByKey' = (IF machine'[r] = "none" THEN activeByKey ELSE activeByKey \cup {r})
          \/ /\ l \notin held
             /\ plan' = [plan EXCEPT ![r] = <<wire>>]
             /\ step' = [step EXCEPT ![r] = 1]
             /\ outcome' = [outcome EXCEPT ![r] = "failed"]
             /\ UNCHANGED <<lock, machine, held, succeeded, failed, activeByKey, deployed, moved>>

\* Its then: an entry of another machine is left alone.
MissionGoesOn(r) ==
  /\ kind[r] = "mission" /\ Settled(r)
  /\ Ends(r, machine[r])
  /\ activeByKey' = activeByKey \ {r}
  /\ UNCHANGED <<kind, plan, deployed, moved>>

MachineSettles(r) ==
  /\ machine[r] = "live" /\ NothingDue
  /\ \/ /\ machine' = [machine EXCEPT ![r] = "succeeded"]
        /\ moved' = [moved EXCEPT ![r] = @ \cup {plan[r][step[r]]}]
     \/ machine' = [machine EXCEPT ![r] = "failed"] /\ UNCHANGED moved
  /\ UNCHANGED <<kind, plan, step, lock, succeeded, failed, outcome, held, activeByKey, deployed>>

-----------------------------------------------------------------------------
(* The nodes *)

\* cancel() of the machines of cs.
Cancelling(cs) ==
  machine' = [r \in Runs |-> IF r \in cs /\ machine[r] = "live" THEN "cancelled" ELSE machine[r]]

\* inFlightTracker.close: every run is aborted, and awaited.
SystemCloses ==
  /\ deployed["system"] = "open" /\ NothingDue
  /\ LET running == {r \in SystemRuns : Open(r)}
     IN /\ Cancelling(running)
        /\ deployed' = [deployed EXCEPT !["system"] = IF running = {} THEN "closed" ELSE "closing"]
  /\ UNCHANGED <<kind, plan, step, lock, succeeded, failed, outcome, held, activeByKey, moved>>

SystemClosed ==
  /\ deployed["system"] = "closing" /\ \A r \in SystemRuns : ~Open(r)
  /\ deployed' = [deployed EXCEPT !["system"] = "closed"]
  /\ UNCHANGED <<runVars, held, activeByKey>>

\* Every machine it knows is cancelled, and it does not wait.
MissionCloses ==
  /\ deployed["mission"] = "open" /\ NothingDue
  /\ Cancelling(activeByKey) /\ activeByKey' = {}
  /\ deployed' = [deployed EXCEPT !["mission"] = "closed"]
  /\ UNCHANGED <<kind, plan, step, lock, succeeded, failed, outcome, held, moved>>

\* A closed node is deployed again.
Redeployed(n) ==
  /\ deployed[n] = "closed" /\ NothingDue
  /\ deployed' = [deployed EXCEPT ![n] = "open"]
  /\ UNCHANGED <<runVars, held, activeByKey>>

OperationsInit ==
  /\ kind = [r \in Runs |-> "none"] /\ plan = [r \in Runs |-> <<>>]
  /\ step = [r \in Runs |-> 0] /\ lock = [r \in Runs |-> Free]
  /\ machine = [r \in Runs |-> "none"] /\ outcome = [r \in Runs |-> "none"]
  /\ succeeded = [r \in Runs |-> {}] /\ failed = [r \in Runs |-> {}]
  /\ moved = [r \in Runs |-> {}]
  /\ held = {} /\ activeByKey = {}
  /\ deployed = [n \in {"system", "mission"} |-> "open"]

\* What an event loop gets to: microtasks, and machines that settle.
RunGoesOn(r) ==
  \/ BundleGoesOn(r)
  \/ SingleGoesOn(r)
  \/ MissionGoesOn(r)
  \/ MachineSettles(r)

OperationsGoOn ==
  \/ \E r \in Runs : RunGoesOn(r)
  \/ SystemClosed

OperationsNext ==
  \/ OperationsGoOn
  \/ \E r \in Runs : BundleStarts(r)
  \/ \E r \in Runs : SingleStarts(r)
  \/ \E r \in Runs : MissionStarts(r)
  \/ SystemCloses
  \/ MissionCloses
  \/ \E n \in {"system", "mission"} : Redeployed(n)

-----------------------------------------------------------------------------
(* Properties *)

\* Every variable holds what its declaration says.
OperationsTypeOK ==
  /\ \A r \in Runs :
       /\ kind[r] \in {"none", "bundle", "single", "mission"}
       /\ step[r] \in 0..(Len(plan[r]) + 1)
       /\ machine[r] \in Starting \cup {"none", "succeeded", "cancelled"}
       /\ outcome[r] \in {"none", "succeeded", "partial", "failed", "cancelled", "locked"}
  /\ activeByKey \subseteq Runs
  /\ \A n \in DOMAIN deployed : deployed[n] \in {"open", "closing", "closed"}

Subject(r) == plan[r][step[r]]

\* One conversation at a time about a plan, the parameters or the files of a
\* vehicle, whichever node holds it and whatever it is called there; and a lock
\* is held exactly as long as its transfer lives, through failures, throws,
\* closes and redeploys (lock.js:43-62, mavlink-mission.js:100-110, 207-262).
ConversationsAreOwned ==
  /\ OperationsTypeOK
  /\ \A r, s \in Runs :
       machine[r] = "live" /\ machine[s] = "live" /\ Subject(r) = Subject(s) => r = s
  /\ NothingDue =>
       /\ held = {lock[r] : r \in {x \in Runs : machine[x] = "live"}}
       /\ \A r \in Runs : Open(r) <=> machine[r] = "live"

\* What is reported is what was moved: success is the whole plan, a partial
\* outcome what of it there is, a refused run has touched nothing; and a node
\* that has closed has no transfer left (mavlink-system.js:138-226).
OutcomesAreTrue ==
  /\ \A r \in Runs :
       LET whole == {plan[r][i] : i \in DOMAIN plan[r]}
       IN /\ outcome[r] = "succeeded" => moved[r] = whole
          /\ outcome[r] = "partial" => moved[r] # {} /\ moved[r] # whole
          /\ outcome[r] \in {"failed", "locked"} => moved[r] = {}
          /\ outcome[r] \in {"succeeded", "partial", "failed"} /\ kind[r] = "bundle" =>
               succeeded[r] = moved[r] /\ failed[r] = whole \ moved[r]
  /\ \A r \in Runs : machine[r] = "live" =>
       deployed[IF kind[r] = "mission" THEN "mission" ELSE "system"] = "open"

\* Both: conversations have one owner each, and their outcomes are what happened.
OperationsAreTrue == ConversationsAreOwned /\ OutcomesAreTrue
=============================================================================
