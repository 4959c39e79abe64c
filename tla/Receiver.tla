------------------------------- MODULE Receiver -------------------------------
(***************************************************************************)
(* What becomes of a decoded frame: the signing policy, the peer it teaches *)
(* us, the subscribers that get a copy of it (runtime.js, subscriptions.js) *)
(* and what the Connection node shows of all that (mavlink-connection.js).  *)
(*                                                                         *)
(* A datagram is handled to its end in one turn of the event loop, so what  *)
(* happens outside waits for it; what handlers do inside does not.          *)
(***************************************************************************)
EXTENDS Integers, Sequences, FiniteSetsExt

CONSTANTS
  Frames,     \* [name, sysid, compid, toSysid, toCompid, crcVerified, signature, endpoint]
  Own,        \* our identities: [sysid, compid]
  Filters,    \* [message, sysid, compid, toSysid, toCompid, trustedOnly]
  Undefined,  \* a field that is not there
  MaxSubs, MaxFrames   \* bounds: subscriptions ever made; frames of one datagram

ReceiverBounds == {MaxSubs, MaxFrames} \subseteq Nat \ {0}
Signatures == {"none", "bad", "good", "replay"}
FramesAreSigned == \A f \in Frames : f.signature \in Signatures

VARIABLES
  regime,     \* "disabled" | "open" (no key) | "keyed" | "recovery" (keyed, acceptInvalid)
  linkState, badge, lastReason,  \* the runtime's state; the node's badge; the last reason warned of
  subs,       \* _subs: [id -> filter], visited in the order of the ids
  nextId,
  queue,      \* frames of the datagram at hand, still to be handled
  turn,       \* the dispatch under way: [decoded, at, served], or Undefined
  peers,      \* the peer table: [[sysid, compid] -> endpoint or Undefined]
  vouched     \* history: who has spoken verifiably, and from where

receiveVars == <<regime, linkState, badge, lastReason, subs, nextId, queue, turn, peers, vouched>>

States == {"idle", "connecting", "connected", "reconnecting", "error", "closed"}
Trusts == {"unsaid", "no", "yes"}   \* what a frame's trusted says: absent, false, true
Decoded(f, trusted) ==
  [name |-> f.name, sysid |-> f.sysid, compid |-> f.compid, toSysid |-> f.toSysid, toCompid |-> f.toCompid,
   trusted |-> trusted]
Dispatches == [decoded : {Decoded(f, t) : f \in Frames, t \in Trusts}, at : Nat, served : SUBSET Nat]
NothingIsNoDispatch == Undefined \notin Dispatches

Between == queue = << >> /\ turn = Undefined
Who(f) == [sysid |-> f.sysid, compid |-> f.compid]

-----------------------------------------------------------------------------
(* The node's badge *)

\* applyStatus
BadgeOf(s) == IF regime = "recovery" /\ s = "connected" THEN "UNTRUSTED" ELSE s

\* The 'rejected' handler: one warning for a streak of one reason; the override's
\* badge outranks it.
ShowsRejection(reason) ==
  /\ lastReason' = reason
  /\ badge' = IF reason # lastReason /\ regime # "recovery" THEN "drop" ELSE badge

\* The runtime goes from state to state (Connection).
StateChanges ==
  /\ Between /\ regime # "disabled" /\ linkState # "closed"
  /\ \E s \in States \ {linkState, "closed"} : linkState' = s /\ badge' = BadgeOf(s)
  /\ UNCHANGED <<regime, lastReason, subs, nextId, queue, turn, peers, vouched>>

\* The node's close: the runtime drops every subscription.
ReceiverCloses ==
  /\ Between /\ regime # "disabled" /\ linkState # "closed"
  /\ linkState' = "closed" /\ badge' = BadgeOf("closed") /\ subs' = << >>
  /\ UNCHANGED <<regime, lastReason, nextId, queue, turn, peers, vouched>>

-----------------------------------------------------------------------------
(* Subscriptions *)

matches(filter, d) ==
  LET asks(field) == filter[field] # Undefined
  IN  /\ asks("message") => filter.message = d.name
      /\ asks("sysid") => filter.sysid = d.sysid
      /\ asks("compid") => filter.compid = d.compid
      /\ asks("toSysid") => d.toSysid \in {0, filter.toSysid}
      /\ asks("toCompid") => d.toCompid \in {0, filter.toCompid}
      /\ filter.trustedOnly => d.trusted # "no"

Added(table, filter) == [i \in DOMAIN table \cup {nextId} |-> IF i = nextId THEN filter ELSE table[i]]
Without(table, gone) == [i \in DOMAIN table \ gone |-> table[i]]

\* A subscriber comes or goes between datagrams.
Subscribe ==
  /\ Between /\ regime # "disabled" /\ linkState # "closed" /\ nextId <= MaxSubs
  /\ \E f \in Filters : subs' = Added(subs, f)
  /\ nextId' = nextId + 1
  /\ UNCHANGED <<regime, linkState, badge, lastReason, queue, turn, peers, vouched>>
Unsubscribe ==
  /\ Between /\ \E i \in DOMAIN subs : subs' = Without(subs, {i})
  /\ UNCHANGED <<regime, linkState, badge, lastReason, nextId, queue, turn, peers, vouched>>

-----------------------------------------------------------------------------
(* Dispatch *)

\* The table is walked as it is at each step: what was removed is not visited,
\* what was added behind is.
Ahead == {i \in DOMAIN subs : i > turn.at}

GoesOnUnlessThrown(t, i, throws) == IF throws THEN Undefined ELSE [t EXCEPT !.at = i, !.served = @ \cup {i}]
\* A handler that throws is logged, and the walk goes on.
GoesOn(t, i, throws) == [t EXCEPT !.at = i, !.served = @ \cup {i}]

\* The next subscriber; a handler may end subscriptions, its own or another's,
\* make a new one, and throw.
Visit ==
  /\ turn # Undefined /\ Ahead # {}
  /\ LET i == Min(Ahead)
     IN  IF ~matches(subs[i], turn.decoded)
         THEN turn' = [turn EXCEPT !.at = i] /\ UNCHANGED <<subs, nextId>>
         ELSE \E gone \in {{}} \cup {{j} : j \in DOMAIN subs}, throws \in BOOLEAN :
                /\ turn' = GoesOn(turn, i, throws)
                /\ \/ subs' = Without(subs, gone) /\ UNCHANGED nextId
                   \/ /\ nextId <= MaxSubs /\ nextId' = nextId + 1
                      /\ \E f \in Filters : subs' = Added(Without(subs, gone), f)
  /\ UNCHANGED <<regime, linkState, badge, lastReason, queue, peers, vouched>>

DispatchEnds ==
  /\ turn # Undefined /\ Ahead = {} /\ turn' = Undefined
  /\ UNCHANGED <<regime, linkState, badge, lastReason, subs, nextId, queue, peers, vouched>>

-----------------------------------------------------------------------------
(* Frames *)

\* acceptInbound, of the frame's signature: "none", "bad", "good", or good and replayed.
Verdict(f) ==
  IF regime = "open" THEN [accept |-> TRUE, trusted |-> "unsaid", reason |-> "accepted"]
  ELSE CASE f.signature = "none"   -> [accept |-> FALSE, trusted |-> "no", reason |-> "unsigned"]
         [] f.signature = "bad"    -> [accept |-> regime = "recovery", trusted |-> "no", reason |-> "invalid"]
         [] f.signature = "replay" -> [accept |-> FALSE, trusted |-> "no", reason |-> "replay"]
         [] f.signature = "good"   -> [accept |-> TRUE, trusted |-> "yes", reason |-> "accepted"]

LearnedFromAny(f, trusted) ==
  [p \in DOMAIN peers \cup {Who(f)} |-> IF p = Who(f) THEN f.endpoint ELSE peers[p]]
\* Peer learning: on evidence only, and a route only from what is not untrusted.
Learned(f, trusted) ==
  LET known == IF Who(f) \in DOMAIN peers THEN peers[Who(f)] ELSE Undefined
      route == IF trusted # "no" THEN f.endpoint ELSE known
  IN  IF f.crcVerified THEN [p \in DOMAIN peers \cup {Who(f)} |-> IF p = Who(f) THEN route ELSE peers[p]]
      ELSE peers

\* _onFrame, up to the dispatch.
OnFrame ==
  LET f == Head(queue)
      verdict == Verdict(f)
      ignored == f.sysid = 0 \/ Who(f) \in Own
  IN  /\ queue # << >> /\ turn = Undefined
      /\ queue' = Tail(queue)
      /\ vouched' = IF f.crcVerified /\ (regime = "open" \/ f.signature = "good")
                    THEN vouched \cup {<<Who(f), f.endpoint>>} ELSE vouched
      /\ CASE ignored -> UNCHANGED <<badge, lastReason, turn, peers>>
           [] ~ignored /\ ~verdict.accept -> ShowsRejection(verdict.reason) /\ UNCHANGED <<turn, peers>>
           [] OTHER ->
                /\ peers' = Learned(f, verdict.trusted)
                /\ turn' = [decoded |-> Decoded(f, verdict.trusted), at |-> 0, served |-> {}]
                /\ UNCHANGED <<badge, lastReason>>
      /\ UNCHANGED <<regime, linkState, subs, nextId>>

OnDatagram ==
  /\ Between /\ linkState = "connected"
  /\ \E n \in 1..MaxFrames : \E fs \in [1..n -> Frames] :
       (\A i \in 1..n : fs[i].endpoint = fs[1].endpoint) /\ queue' = fs
  /\ UNCHANGED <<regime, linkState, badge, lastReason, subs, nextId, turn, peers, vouched>>

-----------------------------------------------------------------------------
ReceiverInit ==
  /\ regime \in {"disabled", "open", "keyed", "recovery"}
  /\ linkState = "idle" /\ lastReason = Undefined
  /\ badge = IF regime = "disabled" THEN "disabled" ELSE "idle"
  /\ subs = << >> /\ nextId = 1 /\ queue = << >> /\ turn = Undefined
  /\ peers = << >> /\ vouched = {}

ReceiverNext ==
  StateChanges \/ ReceiverCloses \/ Subscribe \/ Unsubscribe \/ Visit \/ DispatchEnds \/ OnFrame \/ OnDatagram

-----------------------------------------------------------------------------
(* Properties *)

\* Under a key, only what proved itself teaches a route, also while the override
\* admits what did not; what cannot be verified teaches nothing, and we are not
\* our own peer (runtime.js:711-727).  The override shows while it matters
\* (DESIGN.md 7).
TrustIsEarned ==
  /\ \A p \in DOMAIN peers : peers[p] # Undefined => <<p, peers[p]>> \in vouched
  /\ \A p \in DOMAIN peers : p \notin Own /\ p.sysid # 0
  /\ regime = "recovery" /\ linkState = "connected" => badge = "UNTRUSTED"

\* A frame reaches every subscriber that is there when its turn comes, whatever
\* handlers before it do to the table or throw, once, and nobody who has left
\* (subscriptions.js:84-106).
DispatchIsExact ==
  /\ turn # Undefined /\ turn' # turn =>
       \A i \in DOMAIN subs' : matches(subs'[i], turn.decoded) /\ (turn' = Undefined \/ i <= turn'.at) =>
         i \in turn.served \cup (IF turn' = Undefined THEN {} ELSE turn'.served)
  /\ turn # Undefined /\ turn' # Undefined /\ turn' # turn =>
       /\ turn'.served \ turn.served \subseteq DOMAIN subs
       /\ \A i \in turn'.served \ turn.served : matches(subs[i], turn.decoded)
=============================================================================
