------------------------------- MODULE Signing -------------------------------
(***************************************************************************)
(* The signing state of one link (lib/connection/signing.js): replay       *)
(* memory per inbound stream, timestamps and sequence numbers per outbound *)
(* source.                                                                 *)
(*                                                                         *)
(* Peers sign with clocks of their own; the link delivers what they signed *)
(* late, twice or never, next to unsigned frames and frames whose          *)
(* signature does not match.  Our wall clock may be stepped.  A restart    *)
(* forgets the state: nothing is persisted.                                *)
(***************************************************************************)
EXTENDS Integers, FiniteSets

CONSTANTS
  Streams,         \* inbound (sysid, compid, linkId) tuples
  Sources,         \* bound identities
  HasKey,          \* a verification key is configured
  AcceptInvalid,   \* the recovery override
  UnitsPerTick,    \* timestamp units per reading of the clock (UNITS_PER_MS)
  OneMinute,       \* the first-contact floor (ONE_MINUTE_UNITS)
  SequenceModulus, \* 256
  MaxClock, MaxStamp, MaxEmits  \* bounds: clock readings, peer stamps, frames sent

Never == -1

NumbersAssumption ==
  /\ UnitsPerTick \in Nat \ {0} /\ OneMinute \in Nat /\ SequenceModulus \in Nat \ {0}
  /\ MaxClock \in Nat /\ MaxStamp \in Nat /\ MaxEmits \in Nat
FlagsAssumption == {HasKey, AcceptInvalid} \subseteq BOOLEAN

VARIABLES
  clock,    \* Date.now(); before the MAVLink epoch when negative
  inbound,  \* last accepted timestamp per stream, or Never
  outbound, \* last emitted timestamp per source, or Never
  highest,  \* highest timestamp accepted on any stream, or Never
  seq,      \* next sequence number per source
  air,      \* signed frames the peers sent: <<stream, stamp>>
  trusted,  \* history: signed frames delivered as trusted since the start
  repeated, \* history: one of them was delivered as trusted again
  count     \* history: frames sent per source since the start

stateVars == <<inbound, outbound, highest, seq>>
historyVars == <<trusted, repeated, count>>
vars == <<clock, stateVars, air, historyVars>>

Larger(a, b) == IF a < b THEN b ELSE a

\* timestampFromMs.
Timestamp(ms) == Larger(0, ms * UnitsPerTick)

-----------------------------------------------------------------------------
(* Outbound *)

\* nextOutboundTimestamp.
NextTimestamp(s) ==
  LET reference == Larger(Timestamp(clock), highest)
  IN  IF outbound[s] = Never THEN reference ELSE Larger(reference, outbound[s] + 1)

\* nextSeq.
NextSeq(s) == [seq EXCEPT ![s] = (@ + 1) % SequenceModulus]

\* The pump serializes a frame of s.
Emit(s) ==
  /\ count[s] < MaxEmits
  /\ seq' = NextSeq(s)
  /\ outbound' = [outbound EXCEPT ![s] = NextTimestamp(s)]
  /\ count' = [count EXCEPT ![s] = @ + 1]
  /\ UNCHANGED <<clock, inbound, highest, air, trusted, repeated>>

-----------------------------------------------------------------------------
(* Inbound *)

\* Mutant: an established stream is held to the first-contact floor too.
FreshFloored(p, stamp) == stamp > inbound[p] /\ stamp >= Timestamp(clock) - OneMinute

\* _acceptValid: a first contact is at most a minute old, an established stream
\* only has to move on.
Fresh(p, stamp) ==
  IF inbound[p] = Never THEN stamp >= Timestamp(clock) - OneMinute ELSE stamp > inbound[p]

Advance(p, stamp) ==
  /\ inbound' = [inbound EXCEPT ![p] = stamp]
  /\ highest' = Larger(highest, stamp)

\* A frame whose signature matches: accepted and trusted if fresh.
DeliverSigned ==
  \E f \in air :
    /\ \/ /\ HasKey /\ Fresh(f[1], f[2])
          /\ Advance(f[1], f[2])
          /\ trusted' = trusted \cup {f} /\ repeated' = (repeated \/ f \in trusted)
       \/ ~(HasKey /\ Fresh(f[1], f[2])) /\ UNCHANGED <<inbound, highest, trusted, repeated>>
    /\ UNCHANGED <<clock, outbound, seq, air, count>>

\* A frame whose signature does not match, or that has none, is dropped or
\* admitted without trust; either way it moves nothing.
DeliverMismatched ==
  \E p \in Streams, stamp \in 0..MaxStamp : UNCHANGED vars

-----------------------------------------------------------------------------
(* Peers, clock, process *)

PeerSigns(p) ==
  \E stamp \in 0..MaxStamp :
    /\ \A f \in air : f[1] = p => f[2] < stamp
    /\ air' = air \cup {<<p, stamp>>}
    /\ UNCHANGED <<clock, stateVars, historyVars>>

\* The wall clock moves on or is stepped, forwards or back.
SetClock ==
  /\ clock' \in -1..MaxClock
  /\ UNCHANGED <<stateVars, air, historyVars>>

\* A redeploy or a restart of Node-RED: start() builds an empty SigningState.
Restart ==
  /\ inbound' = [p \in Streams |-> Never] /\ outbound' = [s \in Sources |-> Never]
  /\ highest' = Never /\ seq' = [s \in Sources |-> 0]
  /\ trusted' = {} /\ repeated' = FALSE /\ count' = [s \in Sources |-> 0]
  /\ UNCHANGED <<clock, air>>

Init ==
  /\ clock = 0 /\ air = {}
  /\ inbound = [p \in Streams |-> Never] /\ outbound = [s \in Sources |-> Never]
  /\ highest = Never /\ seq = [s \in Sources |-> 0]
  /\ trusted = {} /\ repeated = FALSE /\ count = [s \in Sources |-> 0]

Next ==
  \/ \E s \in Sources : Emit(s)
  \/ DeliverSigned
  \/ DeliverMismatched
  \/ \E p \in Streams : PeerSigns(p)
  \/ SetClock
  \/ Restart

Spec == Init /\ [][Next]_vars

-----------------------------------------------------------------------------
(* Properties *)

\* Every variable holds what its declaration says.
TypeOK ==
  /\ clock \in -1..MaxClock
  /\ inbound \in [Streams -> Nat \cup {Never}]
  /\ outbound \in [Sources -> Nat \cup {Never}]
  /\ highest \in Nat \cup {Never}
  /\ seq \in [Sources -> 0..(SequenceModulus - 1)]
  /\ air \subseteq Streams \X Nat /\ trusted \subseteq air
  /\ repeated \in BOOLEAN /\ count \in [Sources -> 0..MaxEmits]

\* Whatever the link repeats or reorders, and whatever our clock does, a signed
\* frame is delivered as trusted at most once between restarts (signing.js:204).
TrustedOnce == ~repeated

\* The floor of a stream is a stamp its peer really signed and the link-wide
\* floor one of theirs, so no unverified frame can lock a peer out or push our
\* own clock (signing.js:136-140, 211-225).
FloorsAreEarned ==
  /\ \A p \in Streams : inbound[p] # Never => <<p, inbound[p]>> \in trusted
  /\ highest # Never => \E f \in trusted : f[2] = highest
  /\ \A f \in trusted : f[2] <= inbound[f[1]] /\ f[2] <= highest

\* An established peer is heard whatever our clock says: a frame it signed after
\* all that was delivered is still fresh (signing.js:180-187).
EstablishedPeerIsHeard ==
  \A f \in air :
    /\ \E d \in trusted : d[1] = f[1]
    /\ \A d \in trusted : d[1] = f[1] => d[2] < f[2]
    => Fresh(f[1], f[2])

\* Between restarts a source never emits a stamp twice nor an older one, though
\* the clock is stepped back (signing.js:110-113).
StampsIncrease ==
  \A s \in Sources : outbound[s] # Never /\ outbound'[s] # outbound[s] /\ outbound'[s] # Never
    => outbound'[s] > outbound[s]

\* No frame is stamped behind anything a verified peer has shown us, so a host
\* with a slow clock passes the next peer's floor (signing.js:114-117).
StampsKeepUpWithPeers ==
  \A s \in Sources : count'[s] > count[s] => \A f \in trusted : outbound'[s] >= f[2]

\* Each source numbers its own frames without gaps (signing.js:86-88).
SequenceIsGapless == \A s \in Sources : seq[s] = count[s] % SequenceModulus

\* Replay memory holds what was accepted and nothing else, and numbers are whole.
StoresAreSound == TypeOK /\ FloorsAreEarned /\ SequenceIsGapless

\* Replay memory holds what was accepted, and by it every repetition is rejected
\* and no established peer.
ReplaysAndOnlyReplays == StoresAreSound /\ TrustedOnce /\ EstablishedPeerIsHeard

\* A step's stamps lead: over our own earlier ones and over all that peers showed us.
StampLeads == StampsIncrease /\ StampsKeepUpWithPeers
=============================================================================
