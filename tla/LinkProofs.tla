------------------------------ MODULE LinkProofs ------------------------------
(***************************************************************************)
(* Proofs about the behaviours of Link: of signing and of the streams,     *)
(* for any sources, nodes, targets, clocks and messages, and what          *)
(* OutboundQueueProofs and PeerProofs show of their modules, of which the  *)
(* other parts are instances.  A behaviour stays with the part it begins   *)
(* with.                                                                   *)
(***************************************************************************)
EXTENDS Link, SequenceTheorems, TLAPS

QP == INSTANCE OutboundQueueProofs WITH now <- wall, NoItem <- None

PP == INSTANCE PeerProofs
        WITH Components <- Table.components, NoEndpoint <- None, Never <- None,
             StaleAge <- Table.stale, ExpireAge <- Table.expire, SweepPeriod <- Table.sweep,
             MaxNow <- Table.maxNow, Blank <- None

FP == INSTANCE PeerProofs
        WITH Components <- Fed.components, NoEndpoint <- None, Never <- None,
             StaleAge <- Fed.stale, ExpireAge <- Fed.expire, SweepPeriod <- Fed.sweep,
             MaxNow <- Fed.maxNow, Blank <- None

-----------------------------------------------------------------------------
(* Signing *)

\* A stamp is a natural number, before the epoch of the stamps too.
LEMMA StampsAreNat == ASSUME S!NumbersAssumption, NEW ms \in Int PROVE S!Timestamp(ms) \in Nat
BY DEF S!Timestamp, S!Larger, S!NumbersAssumption

\* A frame that repeats one already delivered is not fresh, and one signed after
\* all that were delivered of an established peer is.
LEMMA MemoryDecides ==
  ASSUME S!NumbersAssumption, S!TypeOK, S!FloorsAreEarned
  PROVE  (\A f \in trusted : ~S!Fresh(f[1], f[2])) /\ S!EstablishedPeerIsHeard
<1>1. \A f \in trusted : ~S!Fresh(f[1], f[2])
  BY DEF S!TypeOK, S!FloorsAreEarned, S!Fresh, S!Never
<1>2. S!EstablishedPeerIsHeard
  <2> SUFFICES ASSUME NEW f \in air, NEW d \in trusted, d[1] = f[1],
                      \A e \in trusted : e[1] = f[1] => e[2] < f[2]
               PROVE  S!Fresh(f[1], f[2])
    BY DEF S!EstablishedPeerIsHeard
  <2>1. f[1] \in Streams /\ inbound[f[1]] # S!Never
    BY DEF S!TypeOK, S!FloorsAreEarned, S!Never
  <2>2. <<f[1], inbound[f[1]]>> \in trusted
    BY <2>1 DEF S!FloorsAreEarned
  <2> QED BY <2>1, <2>2 DEF S!Fresh
<1> QED BY <1>1, <1>2

\* What the remainders need of arithmetic.
LEMMA MultipleLeavesNothing == ASSUME NEW m \in Nat \ {0}, NEW k \in Nat PROVE (m * k) % m = 0
<1> DEFINE x == m * k
           r == x % m
           q == x \div m
           d == k - q
<1>1. x \in Nat /\ x = m * q + r /\ r \in 0..(m - 1) /\ q \in Int
  OBVIOUS
<1>2. d \in Int /\ m * d = r
  BY <1>1
<1>3. d >= 1 => m * d >= m
  BY <1>2
<1>4. d <= 0 => m * d <= 0
  BY <1>2
<1> QED BY <1>1, <1>2, <1>3, <1>4

\* One frame more moves the sequence number by one, whether it wraps or not.
LEMMA Wraps ==
  ASSUME NEW m \in Nat \ {0}, NEW n \in Nat
  PROVE  ((n % m) + 1) % m = (n + 1) % m
<1> DEFINE r == n % m
           q == n \div m
<1>1. n = m * q + r /\ r \in 0..(m - 1) /\ q \in Nat
  OBVIOUS
<1>2. CASE r + 1 < m
  <2>1. n + 1 = m * q + (r + 1)
    BY <1>1
  <2>2. (n + 1) % m = r + 1
    BY <1>1, <1>2, <2>1
  <2> QED BY <1>1, <1>2, <2>2
<1>3. CASE r + 1 = m
  <2>1. n + 1 = m * (q + 1)
    BY <1>1, <1>3
  <2>2. q + 1 \in Nat
    BY <1>1
  <2> HIDE DEF q, r
  <2>3. (m * (q + 1)) % m = 0
    BY <2>2, MultipleLeavesNothing
  <2>4. (n + 1) % m = 0
    BY <2>1, <2>3
  <2>5. (r + 1) % m = 0
    BY <1>3, MultipleLeavesNothing, m * 1 = m, 1 \in Nat
  <2> QED BY <2>4, <2>5 DEF r
<1> QED BY <1>1, <1>2, <1>3

-----------------------------------------------------------------------------
(* The stores *)

\* Sound stores and a memory that never failed: inductive as they stand.
SInv == S!StoresAreSound /\ S!TrustedOnce

\* Empty stores are sound.
LEMMA SInvInit == ASSUME S!NumbersAssumption, S!Init PROVE SInv
<1>1. 0 % SequenceModulus = 0
  BY DEF S!NumbersAssumption
<1>2. S!FloorsAreEarned /\ S!TrustedOnce
  BY DEF S!Init, S!FloorsAreEarned, S!TrustedOnce
<1>3. S!SequenceIsGapless
  BY <1>1 DEF S!Init, S!SequenceIsGapless
<1>4. S!TypeOK
  <2>1. inbound \in [Streams -> Nat \cup {S!Never}] /\ outbound \in [Sources -> Nat \cup {S!Never}]
    BY DEF S!Init
  <2>2. seq \in [Sources -> 0..(SequenceModulus - 1)] /\ count \in [Sources -> 0..MaxEmits]
    BY DEF S!Init, S!NumbersAssumption
  <2>3. clock \in -1..MaxClock /\ highest \in Nat \cup {S!Never}
    BY DEF S!Init, S!TypeOK, S!NumbersAssumption
  <2>4. air \subseteq Streams \X Nat /\ trusted \subseteq air /\ repeated \in BOOLEAN
    BY DEF S!Init, S!TypeOK
  <2> QED BY <2>1, <2>2, <2>3, <2>4 DEF S!TypeOK
<1> QED BY <1>2, <1>3, <1>4 DEF SInv, S!StoresAreSound

\* A frame sent moves the stores of its source only, to a stamp and the next number.
LEMMA EmitKeeps ==
  ASSUME S!NumbersAssumption, SInv, NEW s \in Sources, S!Emit(s)
  PROVE  SInv'
<1> USE DEF SInv, S!StoresAreSound
<1>1. S!NextTimestamp(s) \in Nat
  BY StampsAreNat DEF S!NextTimestamp, S!Larger, S!TypeOK, S!Never, S!NumbersAssumption
<1>2. \A m \in Nat : (m + 1) % SequenceModulus \in 0..(SequenceModulus - 1)
  BY DEF S!NumbersAssumption
<1>3. S!TypeOK'
  BY <1>1, <1>2 DEF S!Emit, S!NextSeq, S!TypeOK, S!NumbersAssumption
<1>4. S!SequenceIsGapless'
  <2> SUFFICES ASSUME NEW t \in Sources PROVE seq'[t] = count'[t] % SequenceModulus
    BY DEF S!SequenceIsGapless
  <2>1. CASE t = s
    <3>1. seq'[s] = (seq[s] + 1) % SequenceModulus /\ count'[s] = count[s] + 1 /\ count[s] \in Nat
      BY DEF S!Emit, S!NextSeq, S!TypeOK, S!NumbersAssumption
    <3>2. seq[s] = count[s] % SequenceModulus
      BY DEF S!SequenceIsGapless
    <3> QED BY <2>1, <3>1, <3>2, Wraps DEF S!NumbersAssumption
  <2>2. CASE t # s
    BY <2>2 DEF S!Emit, S!NextSeq, S!TypeOK, S!SequenceIsGapless
  <2> QED BY <2>1, <2>2
<1>5. S!FloorsAreEarned' /\ S!TrustedOnce'
  BY DEF S!Emit, S!FloorsAreEarned, S!TrustedOnce
<1> QED BY <1>3, <1>4, <1>5

\* A frame received moves the floor of its stream, which it is above, or nothing.
LEMMA DeliveryKeeps ==
  ASSUME S!NumbersAssumption, SInv, S!DeliverSigned
  PROVE  SInv'
<1> USE DEF SInv, S!StoresAreSound
<1> PICK f \in air :
      /\ \/ /\ HasKey /\ S!Fresh(f[1], f[2])
            /\ S!Advance(f[1], f[2])
            /\ trusted' = trusted \cup {f} /\ repeated' = (repeated \/ f \in trusted)
         \/ ~(HasKey /\ S!Fresh(f[1], f[2])) /\ UNCHANGED <<inbound, highest, trusted, repeated>>
      /\ UNCHANGED <<clock, outbound, seq, air, count>>
  BY DEF S!DeliverSigned
<1>1. CASE UNCHANGED <<inbound, highest, trusted, repeated>>
  BY <1>1 DEF S!TypeOK, S!FloorsAreEarned, S!SequenceIsGapless, S!TrustedOnce
<1>2. CASE /\ S!Fresh(f[1], f[2]) /\ S!Advance(f[1], f[2])
           /\ trusted' = trusted \cup {f} /\ repeated' = (repeated \/ f \in trusted)
  <2>1. f[1] \in Streams /\ f[2] \in Nat /\ f = <<f[1], f[2]>>
    BY DEF S!TypeOK
  <2>2. f \notin trusted
    BY <1>2, MemoryDecides
  <2>3. S!TypeOK'
    BY <1>2, <2>1, <2>2 DEF S!TypeOK, S!Advance, S!Larger, S!TrustedOnce, S!Never
  <2>4. inbound' = [inbound EXCEPT ![f[1]] = f[2]] /\ highest' = S!Larger(highest, f[2])
    BY <1>2 DEF S!Advance
  <2>5. f[2] >= inbound[f[1]]
    BY <1>2, <2>1 DEF S!Fresh, S!TypeOK, S!Never
  <2>6. \A p \in Streams : inbound'[p] # S!Never => <<p, inbound'[p]>> \in trusted'
    BY <1>2, <2>1, <2>4 DEF S!TypeOK, S!FloorsAreEarned
  <2>7. highest' # S!Never => \E g \in trusted' : g[2] = highest'
    BY <1>2, <2>1, <2>4 DEF S!Larger, S!FloorsAreEarned
  <2>8. \A g \in trusted' : g[2] <= inbound'[g[1]] /\ g[2] <= highest'
    <3> SUFFICES ASSUME NEW g \in trusted' PROVE g[2] <= inbound'[g[1]] /\ g[2] <= highest'
      OBVIOUS
    <3>1. CASE g = f
      BY <3>1, <2>1, <2>4 DEF S!TypeOK, S!Larger, S!Never
    <3>2. CASE g \in trusted
      <4>1. g[1] \in Streams /\ g[2] \in Nat /\ g[2] <= inbound[g[1]] /\ g[2] <= highest
        BY <3>2 DEF S!TypeOK, S!FloorsAreEarned
      <4>2. inbound[g[1]] <= inbound'[g[1]]
        BY <2>1, <2>4, <2>5, <4>1 DEF S!TypeOK, S!Never
      <4>3. highest <= highest' /\ highest' \in Int /\ highest \in Int
        BY <2>1, <2>4 DEF S!Larger, S!TypeOK, S!Never
      <4>4. inbound[g[1]] \in Int /\ inbound'[g[1]] \in Int
        BY <4>1, <2>3 DEF S!TypeOK, S!Never
      <4> QED BY <4>1, <4>2, <4>3, <4>4
    <3> QED BY <1>2, <3>1, <3>2
  <2>9. S!SequenceIsGapless' /\ S!TrustedOnce'
    BY <1>2, <2>2 DEF S!SequenceIsGapless, S!TrustedOnce
  <2> QED BY <2>3, <2>6, <2>7, <2>8, <2>9 DEF S!FloorsAreEarned
<1> QED BY <1>1, <1>2

\* What a peer signs is in the air, and nowhere else.
LEMMA PeerKeeps ==
  ASSUME S!NumbersAssumption, SInv, NEW p \in Streams, S!PeerSigns(p)
  PROVE  SInv'
BY DEF SInv, S!StoresAreSound, S!PeerSigns, S!stateVars, S!historyVars, S!TypeOK, S!FloorsAreEarned,
   S!SequenceIsGapless,
       S!TrustedOnce, S!NumbersAssumption

\* Empty stores go with an empty memory of what was trusted.
LEMMA RestartKeeps == ASSUME S!NumbersAssumption, SInv, S!Restart PROVE SInv'
<1>1. 0 % SequenceModulus = 0
  BY DEF S!NumbersAssumption
<1>2. S!FloorsAreEarned' /\ S!TrustedOnce'
  BY DEF S!Restart, S!FloorsAreEarned, S!TrustedOnce
<1>3. S!SequenceIsGapless'
  BY <1>1 DEF S!Restart, S!SequenceIsGapless
<1>4. S!TypeOK'
  <2>1. inbound' \in [Streams -> Nat \cup {S!Never}] /\ outbound' \in [Sources -> Nat \cup {S!Never}]
    BY DEF S!Restart
  <2>2. seq' \in [Sources -> 0..(SequenceModulus - 1)] /\ count' \in [Sources -> 0..MaxEmits]
    BY DEF S!Restart, S!NumbersAssumption
  <2>3. clock' \in -1..MaxClock /\ highest' \in Nat \cup {S!Never}
    BY DEF S!Restart, SInv, S!StoresAreSound, S!TypeOK, S!NumbersAssumption
  <2>4. air' \subseteq Streams \X Nat /\ trusted' \subseteq air' /\ repeated' \in BOOLEAN
    BY DEF S!Restart, SInv, S!StoresAreSound, S!TypeOK
  <2> QED BY <2>1, <2>2, <2>3, <2>4 DEF S!TypeOK
<1> QED BY <1>2, <1>3, <1>4 DEF SInv, S!StoresAreSound

\* One step per action.
LEMMA SInvNext == ASSUME S!NumbersAssumption, SInv, [S!Next]_S!vars PROVE SInv'
<1>1. CASE \E s \in Sources : S!Emit(s)
  BY <1>1, EmitKeeps
<1>2. CASE S!DeliverSigned
  BY <1>2, DeliveryKeeps
<1>3. CASE S!DeliverMismatched \/ UNCHANGED S!vars
  BY <1>3 DEF S!DeliverMismatched, S!vars, S!stateVars, S!historyVars, SInv, S!StoresAreSound, S!TypeOK,
     S!FloorsAreEarned,
              S!SequenceIsGapless, S!TrustedOnce
<1>4. CASE \E p \in Streams : S!PeerSigns(p)
  BY <1>4, PeerKeeps
<1>5. CASE S!SetClock
  BY <1>5 DEF S!SetClock, S!stateVars, S!historyVars, SInv, S!StoresAreSound, S!TypeOK, S!FloorsAreEarned,
              S!SequenceIsGapless, S!TrustedOnce
<1>6. CASE S!Restart
  BY <1>6, RestartKeeps
<1> QED BY <1>1, <1>2, <1>3, <1>4, <1>5, <1>6 DEF S!Next


-----------------------------------------------------------------------------
(* The stamps *)

\* The stamp of a frame sent is above its own floor and not below the highest heard.
LEMMA EmissionLeads ==
  ASSUME S!NumbersAssumption, SInv, NEW s \in Sources, S!Emit(s)
  PROVE  S!StampLeads
<1> USE DEF SInv, S!StoresAreSound
<1>1. /\ outbound' = [outbound EXCEPT ![s] = S!NextTimestamp(s)]
      /\ count' = [count EXCEPT ![s] = @ + 1] /\ trusted' = trusted
  BY DEF S!Emit
<1>2. S!Timestamp(clock) \in Nat
  BY StampsAreNat DEF S!TypeOK, S!NumbersAssumption
<1>3. S!NextTimestamp(s) \in Nat /\ S!NextTimestamp(s) >= highest
      /\ (outbound[s] # S!Never => S!NextTimestamp(s) > outbound[s])
  BY <1>2 DEF S!NextTimestamp, S!Larger, S!TypeOK, S!Never
<1>4. S!StampsIncrease
  BY <1>1, <1>3 DEF S!StampsIncrease, S!TypeOK
<1>5. S!StampsKeepUpWithPeers
  <2> SUFFICES ASSUME NEW t \in Sources, count'[t] > count[t], NEW f \in trusted
               PROVE  outbound'[t] >= f[2]
    BY DEF S!StampsKeepUpWithPeers
  <2>1. t = s
    BY <1>1 DEF S!TypeOK
  <2>2. f[2] \in Nat /\ f[2] <= highest /\ highest \in Int
    BY DEF S!TypeOK, S!FloorsAreEarned, S!Never
  <2>3. outbound'[t] = S!NextTimestamp(s)
    BY <1>1, <2>1 DEF S!TypeOK
  <2> QED BY <1>3, <2>2, <2>3
<1> QED BY <1>4, <1>5 DEF S!StampLeads

\* A step that sends nothing stamps nothing.
LEMMA OthersDoNotStamp ==
  ASSUME S!NumbersAssumption, SInv,
         UNCHANGED <<outbound, count>> \/ S!Restart
  PROVE  S!StampLeads
<1>1. CASE UNCHANGED <<outbound, count>>
  BY <1>1 DEF S!StampLeads, S!StampsIncrease, S!StampsKeepUpWithPeers, SInv, S!StoresAreSound, S!TypeOK
<1>2. CASE S!Restart
  BY <1>2 DEF S!Restart, S!StampLeads, S!StampsIncrease, S!StampsKeepUpWithPeers, SInv, S!StoresAreSound,
     S!TypeOK
<1> QED BY <1>1, <1>2

\* No step stamps behind what was emitted or shown.
LEMMA StepsLead == ASSUME S!NumbersAssumption, SInv, S!Next PROVE S!StampLeads
<1>1. CASE \E s \in Sources : S!Emit(s)
  BY <1>1, EmissionLeads
<1>2. CASE S!Restart
  BY <1>2, OthersDoNotStamp
<1>3. CASE S!DeliverSigned \/ S!DeliverMismatched \/ (\E p \in Streams : S!PeerSigns(p)) \/ S!SetClock
  <2>1. UNCHANGED <<outbound, count>>
    BY <1>3 DEF S!DeliverSigned, S!DeliverMismatched, S!PeerSigns, S!SetClock, S!vars, S!stateVars,
       S!historyVars
  <2> QED BY <2>1, OthersDoNotStamp
<1> QED BY <1>1, <1>2, <1>3 DEF S!Next

-----------------------------------------------------------------------------
(* Streams *)

Stream == [node : Nodes, target : Targets, kind : Kinds]
StreamInv == M!StreamsOwnTheirTargets

\* A stream runs exactly while it is in the slot of the node it belongs to.
LEMMA RunsInItsSlot ==
  ASSUME M!StreamAssumption, StreamInv
  PROVE  /\ Len(streams) \in Nat /\ DOMAIN streams = 1..Len(streams)
         /\ \A k \in ticking : /\ k \in DOMAIN streams /\ streams[k] \in Stream
                               /\ slot[streams[k].node] = k /\ M!TargetOf(k) \in held
         /\ \A n \in Nodes : slot[n] # None => slot[n] \in ticking
<1> USE DEF StreamInv, M!StreamsOwnTheirTargets
<1>1. Len(streams) \in Nat /\ DOMAIN streams = 1..Len(streams)
  BY DEF M!TypeOK
<1>2. \A k \in ticking : k \in DOMAIN streams /\ streams[k] \in Stream /\ M!TargetOf(k) \in held
  <2>1. ticking \subseteq DOMAIN streams /\ streams \in Seq(Stream)
    BY DEF M!TypeOK, Stream
  <2>2. \A k \in DOMAIN streams : streams[k] \in Stream
    BY <1>1, <2>1, ElementOfSeq
  <2>3. \A k \in ticking : M!TargetOf(k) \in held
    BY DEF M!LockFollowsStream, M!TargetOf
  <2> QED BY <2>1, <2>2, <2>3
<1>3. \A n \in Nodes : slot[n] # None => slot[n] \in ticking
  BY DEF M!LockFollowsStream
<1>4. \A k \in ticking : slot[streams[k].node] = k
  BY DEF M!LockFollowsStream, M!SlotsAreOwn
<1> QED BY <1>1, <1>2, <1>3, <1>4

\* A frame more is in the band, in a slot of its own or in another's.
LEMMA CoalescingKeepsFrames ==
  ASSUME NEW b \in Seq(M!Frames), NEW f \in M!Frames
  PROVE  M!Coalesced(b, f) \in Seq(M!Frames)
<1>1. CASE \E i \in DOMAIN b : b[i].to = f.to /\ b[i].name = f.name
  <2> DEFINE c == [i \in DOMAIN b |-> IF b[i].to = f.to /\ b[i].name = f.name THEN f ELSE b[i]]
  <2>1. DOMAIN b = 1..Len(b) /\ Len(b) \in Nat /\ \A i \in 1..Len(b) : b[i] \in M!Frames
    OBVIOUS
  <2>2. c \in [1..Len(b) -> M!Frames]
    BY <2>1
  <2>3. c \in Seq(M!Frames)
    BY <2>1, <2>2, SeqDef
  <2> QED BY <1>1, <2>3 DEF M!Coalesced
<1>2. CASE ~\E i \in DOMAIN b : b[i].to = f.to /\ b[i].name = f.name
  BY <1>2 DEF M!Coalesced
<1> QED BY <1>1, <1>2

\* A brake reaches the band or does not.
LEMMA BrakingKeepsFrames ==
  ASSUME M!StreamAssumption, StreamInv, NEW k \in ticking, NEW b \in Seq(M!Frames), M!Brakes(k, b)
  PROVE  band' \in Seq(M!Frames)
<1>1. k \in DOMAIN streams /\ streams[k] \in Stream /\ k \in 1..Len(streams) /\ Len(streams) \in Nat
  BY RunsInItsSlot
<1>2. M!Brake(k) \in M!Frames
  BY <1>1 DEF M!Brake, M!Frames, M!TargetOf, Stream, StreamInv, M!StreamsOwnTheirTargets, M!TypeOK,
     M!StreamAssumption
<1> QED BY <1>2, CoalescingKeepsFrames DEF M!Brakes

\* The end of a stream, however it comes about: timers, slot and lock go together.
LEMMA EndKeeps ==
  ASSUME M!StreamAssumption, StreamInv, NEW n \in Nodes, slot[n] # None,
         M!Halt(slot[n]), M!ClearSlot(n), band' \in Seq(M!Frames), closed' \in {closed, closed \cup {n}},
         UNCHANGED <<streams, last>>
  PROVE  StreamInv'
<1> DEFINE k == slot[n]
<1>1. /\ slot' = [slot EXCEPT ![n] = None] /\ held' = held \ {M!TargetOf(k)}
      /\ ticking' = ticking \ {k} /\ expiring' = expiring \ {k} /\ streams' = streams /\ last' = last
  BY DEF M!Halt, M!ClearSlot
<1>2. k \in ticking
  BY RunsInItsSlot
<1>3. M!TypeOK'
  BY <1>1 DEF StreamInv, M!StreamsOwnTheirTargets, M!TypeOK, M!Frames
<1>4. M!OneStreamPerTarget'
  BY <1>1 DEF StreamInv, M!StreamsOwnTheirTargets, M!OneStreamPerTarget, M!TargetOf
<1>5. M!SlotsAreOwn'
  BY <1>1 DEF StreamInv, M!StreamsOwnTheirTargets, M!SlotsAreOwn, M!TypeOK
<1>6. held' = {streams'[j].target : j \in ticking'}
  BY <1>1, <1>2 DEF StreamInv, M!StreamsOwnTheirTargets, M!OneStreamPerTarget, M!LockFollowsStream, M!TargetOf
<1>7. ticking' = {slot'[m] : m \in {o \in Nodes : slot'[o] # None}}
  <2>1. \A m \in Nodes : slot[m] = k => m = n
    BY <1>2 DEF StreamInv, M!StreamsOwnTheirTargets, M!SlotsAreOwn
  <2>2. slot \in [Nodes -> DOMAIN streams \cup {None}]
    BY DEF StreamInv, M!StreamsOwnTheirTargets, M!TypeOK
  <2> QED BY <1>1, <1>2, <2>1, <2>2 DEF StreamInv, M!StreamsOwnTheirTargets, M!LockFollowsStream
<1>8. \A m \in closed' : slot'[m] = None
  BY <1>1 DEF StreamInv, M!StreamsOwnTheirTargets, M!LockFollowsStream, M!TypeOK
<1> QED BY <1>3, <1>4, <1>5, <1>6, <1>7, <1>8 DEF StreamInv, M!StreamsOwnTheirTargets, M!LockFollowsStream,
       M!TargetOf

\* The target a stream leaves is no longer locked.
Left(n) == IF slot[n] = None THEN {} ELSE {M!TargetOf(slot[n])}

\* A stream takes the slot of its node: the one before it stops in the same step.
LEMMA StartKeeps ==
  ASSUME M!StreamAssumption, StreamInv, NEW n \in Nodes, NEW t \in Targets, NEW name \in Kinds,
         NEW ttl \in BOOLEAN,
         M!Begins(n, t, name, ttl), band' \in Seq(M!Frames), held' = (held \ Left(n)) \cup {t}
  PROVE  StreamInv'
<1> DEFINE k == Len(streams) + 1
           old == slot[n]
           rest == ticking \ {old}
           x == [node |-> n, target |-> t, kind |-> name]
<1>1. /\ n \notin closed /\ k <= MaxStreams /\ M!MayStream(n, t)
      /\ streams' = Append(streams, x) /\ slot' = [slot EXCEPT ![n] = k]
      /\ ticking' = rest \cup {k} /\ expiring' \subseteq (expiring \ {old}) \cup {k}
      /\ closed' = closed /\ last' = last
  BY DEF M!Begins
<1>2. /\ Len(streams) \in Nat /\ DOMAIN streams = 1..Len(streams) /\ streams \in Seq(Stream)
      /\ \A m \in Nodes : slot[m] \in DOMAIN streams \cup {None} /\ (slot[m] # None => slot[m] \in ticking)
      /\ \A j \in ticking : j \in 1..Len(streams) /\ streams[j] \in Stream /\ M!TargetOf(j) \in held
  BY RunsInItsSlot DEF StreamInv, M!StreamsOwnTheirTargets, M!TypeOK, Stream
<1>3. x \in Stream
  BY DEF Stream
<1>4. /\ streams' \in Seq(Stream) /\ Len(streams') = k /\ DOMAIN streams' = 1..k
      /\ streams'[k] = x /\ \A j \in 1..Len(streams) : streams'[j] = streams[j]
  <2> HIDE DEF x
  <2> QED BY <1>1, <1>2, <1>3, AppendProperties
<1>5. k # None /\ \A j \in ticking : j # k
  BY <1>2 DEF M!StreamAssumption
<1>6. \A j \in rest : streams[j].target # t
  <2>1. CASE M!SameKey(n, t)
    BY <2>1, <1>2 DEF M!SameKey, M!TargetOf, StreamInv, M!StreamsOwnTheirTargets, M!OneStreamPerTarget
  <2>2. CASE t \notin held
    BY <2>2, <1>2 DEF M!TargetOf
  <2> QED BY <1>1, <2>1, <2>2 DEF M!MayStream
<1>7. streams'[k].target = t /\ streams'[k].node = n
  BY <1>4
<1>8. M!TypeOK'
  <2>1. slot' \in [Nodes -> DOMAIN streams' \cup {None}]
    BY <1>1, <1>2, <1>4 DEF StreamInv, M!StreamsOwnTheirTargets, M!TypeOK
  <2>2. ticking' \subseteq DOMAIN streams' /\ expiring' \subseteq ticking'
    BY <1>1, <1>2, <1>4 DEF StreamInv, M!StreamsOwnTheirTargets, M!TypeOK
  <2>3. held' \subseteq Targets /\ closed' \subseteq Nodes /\ last' \in [Targets -> M!Frames']
    BY <1>1 DEF StreamInv, M!StreamsOwnTheirTargets, M!TypeOK, M!Frames
  <2>4. streams' \in Seq([node : Nodes, target : Targets, kind : Kinds]) /\ Len(streams') <= MaxStreams
    BY <1>1, <1>4 DEF Stream
  <2> QED BY <2>1, <2>2, <2>3, <2>4 DEF M!TypeOK, M!Frames
<1>9. \A i, j \in ticking' : streams'[i].target = streams'[j].target => i = j
  <2>1. \A i, j \in rest : streams'[i].target = streams'[j].target => i = j
    BY <1>2, <1>4 DEF StreamInv, M!StreamsOwnTheirTargets, M!OneStreamPerTarget, M!TargetOf
  <2>2. \A i \in rest : streams'[i].target # t
    BY <1>2, <1>4, <1>6
  <2>3. ticking' = rest \cup {k}
    BY <1>1
  <2> HIDE DEF rest, k
  <2> QED BY <1>7, <2>1, <2>2, <2>3
<1>10. held' = {streams'[j].target : j \in ticking'}
  <2>1. held = {streams[j].target : j \in ticking}
    BY DEF StreamInv, M!StreamsOwnTheirTargets, M!LockFollowsStream, M!TargetOf
  <2>2. held \ Left(n) = {streams[j].target : j \in rest}
    <3>1. CASE old = None
      <4>1. None \notin ticking
        BY <1>2 DEF M!StreamAssumption
      <4>2. rest = ticking /\ Left(n) = {}
        BY <3>1, <4>1 DEF Left
      <4> QED BY <2>1, <4>2
    <3>2. CASE old # None
      <4>1. old \in ticking /\ Left(n) = {streams[old].target}
        BY <3>2, <1>2 DEF Left, M!TargetOf
      <4>2. \A i, j \in ticking : streams[i].target = streams[j].target => i = j
        BY DEF StreamInv, M!StreamsOwnTheirTargets, M!OneStreamPerTarget, M!TargetOf
      <4> QED BY <2>1, <4>1, <4>2
    <3> QED BY <3>1, <3>2
  <2>3. {streams[j].target : j \in rest} = {streams'[j].target : j \in rest}
    BY <1>2, <1>4
  <2> QED BY <1>1, <1>7, <2>2, <2>3
<1>11. ticking' = {slot'[m] : m \in {o \in Nodes : slot'[o] # None}}
  <2>1. \A m \in Nodes : m # n => slot'[m] = slot[m]
    BY <1>1 DEF StreamInv, M!StreamsOwnTheirTargets, M!TypeOK
  <2>2. slot'[n] = k
    BY <1>1 DEF StreamInv, M!StreamsOwnTheirTargets, M!TypeOK
  <2>3. \A m \in Nodes : m # n /\ slot[m] # None => slot[m] # old
    BY DEF StreamInv, M!StreamsOwnTheirTargets, M!SlotsAreOwn
  <2>4. ticking = {slot[m] : m \in {o \in Nodes : slot[o] # None}}
    BY DEF StreamInv, M!StreamsOwnTheirTargets, M!LockFollowsStream
  <2>5. rest = {slot[m] : m \in {o \in Nodes : slot[o] # None /\ o # n}}
    BY <2>3, <2>4
  <2> HIDE DEF rest, k
  <2> QED BY <1>1, <1>5, <2>1, <2>2, <2>5
<1>12. \A m \in closed' : slot'[m] = None
  BY <1>1 DEF StreamInv, M!StreamsOwnTheirTargets, M!LockFollowsStream, M!TypeOK
<1>13. M!SlotsAreOwn'
  BY <1>1, <1>2, <1>4, <1>7 DEF StreamInv, M!StreamsOwnTheirTargets, M!SlotsAreOwn, M!TypeOK
<1> QED BY <1>8, <1>9, <1>10, <1>11, <1>12, <1>13 DEF StreamInv, M!StreamsOwnTheirTargets,
       M!OneStreamPerTarget, M!LockFollowsStream, M!TargetOf

-----------------------------------------------------------------------------
\* A frame of a stream that starts, ticks or of Fan-out.
LEMMA SetpointIsFrame ==
  ASSUME M!StreamAssumption, NEW k \in 0..MaxStreams, NEW t \in Targets \cup {M!All}, NEW name \in Kinds
  PROVE  M!Setpoint(k, t, name) \in M!Frames
BY DEF M!Setpoint, M!Frames, M!StreamAssumption

\* A first stream, or one that replaces the stream to the same target.
LEMMA StartsOrReplacesKeeps ==
  ASSUME M!StreamAssumption, StreamInv, NEW n \in Nodes, NEW t \in Targets, NEW name \in Kinds,
         NEW ttl \in BOOLEAN,
         M!StartsOrReplaces(n, t, name, ttl)
  PROVE  StreamInv'
<1>1. M!Setpoint(Len(streams) + 1, t, name) \in M!Frames
  BY RunsInItsSlot, SetpointIsFrame DEF M!StartsOrReplaces, M!Begins, M!StreamAssumption
<1>2. band' \in Seq(M!Frames)
  BY <1>1, CoalescingKeepsFrames DEF M!StartsOrReplaces, StreamInv, M!StreamsOwnTheirTargets, M!TypeOK
<1>3. held' = (held \ Left(n)) \cup {t}
  BY DEF M!StartsOrReplaces, Left, M!SameKey
<1> QED BY <1>2, <1>3, StartKeeps DEF M!StartsOrReplaces

\* A stream to another target: the old one brakes and its lock is freed.
LEMMA RetargetsKeeps ==
  ASSUME M!StreamAssumption, StreamInv, NEW n \in Nodes, NEW t \in Targets, NEW name \in Kinds,
         NEW ttl \in BOOLEAN,
         M!Retargets(n, t, name, ttl)
  PROVE  StreamInv'
<1>1. M!Setpoint(Len(streams) + 1, t, name) \in M!Frames
  BY RunsInItsSlot, SetpointIsFrame DEF M!Retargets, M!Begins, M!StreamAssumption
<1>2. M!Coalesced(band, M!Setpoint(Len(streams) + 1, t, name)) \in Seq(M!Frames)
  BY <1>1, CoalescingKeepsFrames DEF StreamInv, M!StreamsOwnTheirTargets, M!TypeOK
<1>3. slot[n] \in ticking /\ held' = (held \ Left(n)) \cup {t}
  BY RunsInItsSlot DEF M!Retargets, Left
<1>4. band' \in Seq(M!Frames)
  BY <1>2, <1>3, BrakingKeepsFrames DEF M!Retargets
<1> QED BY <1>3, <1>4, StartKeeps DEF M!Retargets

\* Steps that touch the band only, or a node with an empty slot.
LEMMA BandKeeps ==
  ASSUME M!StreamAssumption, StreamInv, band' \in Seq(M!Frames), last' \in [Targets -> M!Frames],
         closed' \subseteq Nodes, \A n \in closed' : slot[n] = None,
         UNCHANGED <<slot, held, streams, ticking, expiring>>
  PROVE  StreamInv'
<1> USE DEF StreamInv, M!StreamsOwnTheirTargets
<1>1. slot' = slot /\ held' = held /\ streams' = streams /\ ticking' = ticking /\ expiring' = expiring
  OBVIOUS
<1>2. M!TypeOK'
  BY <1>1 DEF M!TypeOK, M!Frames
<1>3. M!OneStreamPerTarget'
  BY <1>1 DEF M!OneStreamPerTarget, M!TargetOf
<1>4. held' = {streams'[j].target : j \in ticking'}
  BY <1>1 DEF M!LockFollowsStream, M!TargetOf
<1>5. ticking' = {slot'[m] : m \in {o \in Nodes : slot'[o] # None}}
  BY <1>1 DEF M!LockFollowsStream
<1>6. \A m \in closed' : slot'[m] = None
  BY <1>1
<1>7. M!SlotsAreOwn'
  BY <1>1 DEF M!SlotsAreOwn
<1> QED BY <1>2, <1>3, <1>4, <1>5, <1>6, <1>7 DEF M!LockFollowsStream, M!TargetOf

\* Nothing streams at first.
LEMMA StreamInvInit == ASSUME M!StreamAssumption, M!Init PROVE StreamInv
<1>1. streams = <<>> /\ DOMAIN streams = {} /\ Len(streams) = 0 /\ streams \in Seq(Stream)
  BY DEF M!Init
<1>2. last \in [Targets -> M!Frames] /\ band \in Seq(M!Frames)
  BY DEF M!Init, M!Setpoint, M!Frames, M!NoStream, M!StreamAssumption
<1>3. M!TypeOK
  BY <1>1, <1>2 DEF M!Init, M!TypeOK, Stream, M!StreamAssumption
<1> QED BY <1>1, <1>3 DEF M!Init, StreamInv, M!StreamsOwnTheirTargets, M!OneStreamPerTarget,
       M!LockFollowsStream, M!SlotsAreOwn

\* One step per action.
LEMMA StreamInvNext == ASSUME M!StreamAssumption, StreamInv, [M!Next]_M!vars PROVE StreamInv'
<1> USE DEF StreamInv, M!StreamsOwnTheirTargets
<1>1. ASSUME NEW n \in Nodes, M!Stop(n) PROVE StreamInv'
  <2>1. slot[n] \in ticking /\ band \in Seq(M!Frames)
    BY <1>1, RunsInItsSlot DEF M!Stop, M!TypeOK
  <2>2. band' \in Seq(M!Frames)
    BY <1>1, <2>1, BrakingKeepsFrames DEF M!Stop
  <2> QED BY <1>1, <2>2, EndKeeps DEF M!Stop
<1>2. ASSUME NEW n \in Nodes, M!Close(n) PROVE StreamInv'
  <2>1. CASE slot[n] # None
    <3>1. slot[n] \in ticking /\ band \in Seq(M!Frames)
      BY <2>1, RunsInItsSlot DEF M!TypeOK
    <3>2. M!Halt(slot[n]) /\ M!Brakes(slot[n], band) /\ M!ClearSlot(n) /\ closed' = closed \cup {n}
          /\ UNCHANGED <<streams, last>>
      BY <1>2, <2>1 DEF M!Close
    <3>3. band' \in Seq(M!Frames)
      BY <3>1, <3>2, BrakingKeepsFrames
    <3> QED BY <2>1, <3>2, <3>3, EndKeeps
  <2>2. CASE slot[n] = None
    <3>1. closed' = closed \cup {n} /\ UNCHANGED <<slot, held, streams, ticking, expiring, band, last>>
      BY <1>2, <2>2 DEF M!Close
    <3>2. closed' \subseteq Nodes /\ \A m \in closed' : slot[m] = None
      BY <2>2, <3>1 DEF M!TypeOK, M!LockFollowsStream
    <3>3. band' \in Seq(M!Frames) /\ last' \in [Targets -> M!Frames]
      BY <3>1 DEF M!TypeOK
    <3> QED BY <3>1, <3>2, <3>3, BandKeeps
  <2> QED BY <2>1, <2>2
<1>3. ASSUME NEW n \in Nodes, M!Redeploy(n) PROVE StreamInv'
  <2>1. closed' \subseteq Nodes /\ \A m \in closed' : slot[m] = None
    BY <1>3 DEF M!Redeploy, M!TypeOK, M!LockFollowsStream
  <2> QED BY <1>3, <2>1, BandKeeps DEF M!Redeploy, M!TypeOK
<1>4. ASSUME NEW k \in expiring, M!Expire(k) PROVE StreamInv'
  <2> DEFINE n == streams[k].node
  <2>1. k \in ticking /\ n \in Nodes /\ slot[n] = k /\ slot[n] # None /\ band \in Seq(M!Frames)
    BY RunsInItsSlot DEF M!TypeOK, Stream, M!StreamAssumption
  <2>2. M!Halt(slot[n]) /\ M!Brakes(slot[n], band) /\ M!ClearSlot(n) /\ UNCHANGED <<closed, streams, last>>
    BY <1>4, <2>1 DEF M!Expire
  <2>3. band' \in Seq(M!Frames)
    BY <2>1, <2>2, BrakingKeepsFrames
  <2> HIDE DEF n
  <2> QED BY <2>1, <2>2, <2>3, EndKeeps
<1>5. ASSUME NEW k \in ticking, M!Tick(k) PROVE StreamInv'
  <2>1. k \in 0..MaxStreams /\ M!TargetOf(k) \in Targets /\ streams[k].kind \in Kinds
    BY RunsInItsSlot DEF M!TypeOK, Stream, M!TargetOf, M!StreamAssumption
  <2>2. band' \in Seq(M!Frames)
    BY <1>5, <2>1, SetpointIsFrame, CoalescingKeepsFrames DEF M!Tick, M!TypeOK
  <2> QED BY <1>5, <2>2, BandKeeps DEF M!Tick, M!TypeOK, M!LockFollowsStream
<1>6. ASSUME NEW name \in Kinds, M!Broadcast(name) \/ \E t \in Targets : M!FanOut(t, name) PROVE StreamInv'
  <2>1. M!NoStream \in 0..MaxStreams
    BY DEF M!NoStream, M!StreamAssumption
  <2>2. band' \in Seq(M!Frames)
    BY <1>6, <2>1, SetpointIsFrame, CoalescingKeepsFrames DEF M!Broadcast, M!FanOut, M!TypeOK
  <2> QED BY <1>6, <2>2, BandKeeps DEF M!Broadcast, M!FanOut, M!TypeOK, M!LockFollowsStream
<1>7. CASE M!Transmit
  <2>1. Head(band) \in M!Frames /\ Tail(band) \in Seq(M!Frames)
    BY <1>7 DEF M!Transmit, M!TypeOK
  <2>2. last' \in [Targets -> M!Frames]
    BY <1>7, <2>1 DEF M!Transmit, M!TypeOK
  <2> QED BY <1>7, <2>1, <2>2, BandKeeps DEF M!Transmit, M!TypeOK, M!LockFollowsStream
<1>8. CASE M!LinkRestored
  <2>1. band' \in Seq(M!Frames) /\ last' = last /\ closed' = closed
        /\ UNCHANGED <<slot, held, streams, ticking, expiring>>
    BY <1>8 DEF M!LinkRestored
  <2>2. last \in [Targets -> M!Frames] /\ closed \subseteq Nodes /\ \A m \in closed : slot[m] = None
    BY DEF M!TypeOK, M!LockFollowsStream
  <2> HIDE DEF StreamInv, M!StreamsOwnTheirTargets
  <2> QED BY <2>1, <2>2, BandKeeps
<1>9. CASE UNCHANGED M!vars
  BY <1>9, BandKeeps DEF M!vars, M!TypeOK, M!LockFollowsStream
<1>10. ASSUME NEW n \in Nodes, NEW t \in Targets, M!StartThrows(n, t) PROVE StreamInv'
  BY <1>9, <1>10 DEF M!StartThrows
<1> QED BY <1>1, <1>2, <1>3, <1>4, <1>5, <1>6, <1>7, <1>8, <1>9, <1>10, StartsOrReplacesKeeps,
       RetargetsKeeps DEF M!Next


-----------------------------------------------------------------------------
(* The band and the brakes *)

Slots(b)   == {b[i] : i \in DOMAIN b}
OneSlot(b) == \A i, j \in DOMAIN b : b[i].to = b[j].to /\ b[i].name = b[j].name => i = j

\* A frame of a stream goes to its target, and a brake is a local setpoint.
Formed(f) ==
  /\ f.to = M!All => f.stream = M!NoStream
  /\ f.brake => f.name = "local" /\ f.to # M!All
  /\ f.stream <= Len(streams)

\* What runs to t began after the stream that f brakes.
BrakedBefore(f, t) == f.brake => \A j \in ticking : M!TargetOf(j) = t => f.stream < j

\* What may still take the place of the brake that t got is of a later stream.
QueuedAfter(t) ==
  last[t].brake => \A f \in Slots(band) :
    f.to = t /\ f.name = "local" /\ f.stream # M!NoStream => last[t].stream < f.stream

BrakeInv ==
  /\ OneSlot(band)
  /\ \A f \in Slots(band) : Formed(f) /\ BrakedBefore(f, f.to)
  /\ \A t \in Targets : Formed(last[t]) /\ BrakedBefore(last[t], t) /\ QueuedAfter(t)

BandInv == StreamInv /\ BrakeInv

\* One frame more: it is in a slot, and nothing else is new.
LEMMA CoalescingAdds ==
  ASSUME NEW b \in Seq(M!Frames), OneSlot(b), NEW f \in M!Frames
  PROVE  OneSlot(M!Coalesced(b, f)) /\ Slots(M!Coalesced(b, f)) \subseteq Slots(b) \cup {f}
<1>1. DOMAIN b = 1..Len(b) /\ Len(b) \in Nat
  OBVIOUS
<1>2. CASE \E i \in DOMAIN b : b[i].to = f.to /\ b[i].name = f.name
  <2> DEFINE c == [i \in DOMAIN b |-> IF b[i].to = f.to /\ b[i].name = f.name THEN f ELSE b[i]]
  <2>1. M!Coalesced(b, f) = c
    BY <1>2 DEF M!Coalesced
  <2>2. DOMAIN c = DOMAIN b /\ \A i \in DOMAIN b : c[i] = IF b[i].to = f.to /\ b[i].name = f.name THEN f ELSE b[i]
    OBVIOUS
  <2>3. \A i \in DOMAIN b : c[i].to = b[i].to /\ c[i].name = b[i].name
    BY <2>2
  <2> HIDE DEF c
  <2> QED BY <2>1, <2>2, <2>3 DEF OneSlot, Slots
<1>3. CASE ~\E i \in DOMAIN b : b[i].to = f.to /\ b[i].name = f.name
  <2> DEFINE c == Append(b, f)
  <2>1. M!Coalesced(b, f) = c
    BY <1>3 DEF M!Coalesced
  <2>2. DOMAIN c = 1..Len(b) + 1 /\ c[Len(b) + 1] = f /\ \A i \in 1..Len(b) : c[i] = b[i]
    BY AppendProperties
  <2>3. \A i \in DOMAIN c : i \in DOMAIN b \/ i = Len(b) + 1
    BY <1>1, <2>2
  <2> HIDE DEF c
  <2> QED BY <1>1, <1>3, <2>1, <2>2, <2>3 DEF OneSlot, Slots
<1> QED BY <1>2, <1>3

\* The oldest slot is gone with all that could be in it.
LEMMA TransmissionTakes ==
  ASSUME NEW b \in Seq(M!Frames), b # <<>>, OneSlot(b)
  PROVE  /\ Head(b) \in Slots(b) /\ OneSlot(Tail(b))
         /\ \A f \in Slots(Tail(b)) : f \in Slots(b) /\ ~(f.to = Head(b).to /\ f.name = Head(b).name)
<1> DEFINE c == Tail(b)
<1>1. Len(b) \in Nat \ {0} /\ DOMAIN b = 1..Len(b) /\ Head(b) = b[1]
  BY EmptySeq
<1>2. c \in Seq(M!Frames) /\ Len(c) = Len(b) - 1 /\ DOMAIN c = 1..Len(b) - 1
  OBVIOUS
<1>3. \A i \in DOMAIN c : c[i] = b[i + 1] /\ i + 1 \in DOMAIN b /\ i + 1 # 1 /\ i \in Nat
  BY <1>1, <1>2
<1> HIDE DEF c
<1>4. OneSlot(c)
  <2> SUFFICES ASSUME NEW i \in DOMAIN c, NEW j \in DOMAIN c, c[i].to = c[j].to, c[i].name = c[j].name
               PROVE  i = j
    BY DEF OneSlot
  <2>1. i + 1 = j + 1
    BY <1>3 DEF OneSlot
  <2> QED BY <1>3, <2>1
<1>5. ASSUME NEW i \in DOMAIN c PROVE c[i] \in Slots(b) /\ ~(c[i].to = b[1].to /\ c[i].name = b[1].name)
  BY <1>1, <1>3 DEF OneSlot, Slots
<1>6. Head(b) \in Slots(b)
  BY <1>1 DEF Slots
<1> QED BY <1>1, <1>4, <1>5, <1>6 DEF c, Slots

\* What runs ran before or began in this step.
Runs ==
  /\ Len(streams) <= Len(streams') /\ Len(streams') \in Nat /\ ticking' \subseteq Nat
  /\ \A j \in ticking' : (j \in ticking /\ M!TargetOf(j)' = M!TargetOf(j)) \/ Len(streams) < j

\* A frame that enters the band: of Fan-out, or of a stream that runs to its
\* target, begins with it, or ends with it.
Joins(f) ==
  /\ f \in M!Frames
  /\ f.brake => f.stream # M!NoStream /\ f.name = "local"
  /\ f.stream # M!NoStream =>
       /\ f.to # M!All /\ f.stream <= Len(streams')
       /\ (f.stream \in ticking /\ M!TargetOf(f.stream) = f.to) \/ Len(streams) < f.stream
  /\ f.brake => \A j \in ticking' : M!TargetOf(j)' = f.to => f.stream < j

\* What enters the band comes after the brakes there and those sent.
LEMMA BandGrows ==
  ASSUME M!StreamAssumption, BandInv, Runs, UNCHANGED last, OneSlot(band'),
         \A f \in Slots(band') : f \in Slots(band) \/ Joins(f)
  PROVE  BrakeInv'
<1>1. /\ Len(streams) \in Nat /\ \A j \in ticking : j \in Nat /\ j <= Len(streams)
      /\ \A j \in ticking' : j \in ticking \/ Len(streams) < j
  <2>1. Len(streams) \in Nat /\ \A j \in ticking : j \in 1..Len(streams)
    BY RunsInItsSlot DEF BandInv
  <2>2. \A j \in ticking' : j \in ticking \/ Len(streams) < j
    BY DEF Runs
  <2> QED BY <2>1, <2>2
<1>2. \A f \in Slots(band) : f \in M!Frames /\ f.stream \in Nat
  <2>1. band \in Seq(M!Frames)
    BY DEF BandInv, StreamInv, M!StreamsOwnTheirTargets, M!TypeOK
  <2>2. \A f \in Slots(band) : f \in M!Frames
    BY <2>1 DEF Slots
  <2> QED BY <2>2 DEF M!Frames
<1>3. \A t \in Targets : last[t] \in M!Frames /\ last[t].stream \in Nat
  BY DEF BandInv, StreamInv, M!StreamsOwnTheirTargets, M!TypeOK, M!Frames
<1>4. \A f \in M!Frames : f.stream \in Nat
  BY DEF M!Frames
<1>5. ASSUME NEW f \in M!Frames, NEW t, Formed(f), BrakedBefore(f, t) PROVE Formed(f)' /\ BrakedBefore(f, t)'
  <2>1. Formed(f)'
    BY <1>1, <1>4, <1>5 DEF Formed, Runs
  <2>2. ASSUME f.brake, NEW j \in ticking', M!TargetOf(j)' = t PROVE f.stream < j
    <3>1. CASE Len(streams) < j
      BY <1>1, <1>4, <1>5, <2>2, <3>1 DEF Formed, Runs
    <3>2. CASE j \in ticking /\ M!TargetOf(j)' = M!TargetOf(j)
      BY <1>5, <2>2, <3>2 DEF BrakedBefore
    <3> QED BY <3>1, <3>2 DEF Runs
  <2>3. BrakedBefore(f, t)'
    BY <2>2 DEF BrakedBefore
  <2> QED BY <2>1, <2>3
<1>6. ASSUME NEW f \in Slots(band') PROVE Formed(f)' /\ BrakedBefore(f, f.to)'
  <2>1. CASE f \in Slots(band)
    BY <1>2, <1>5, <2>1 DEF BandInv, BrakeInv
  <2>2. CASE Joins(f)
    BY <2>2 DEF Joins, Formed, BrakedBefore, Runs, M!NoStream
  <2> QED BY <1>6, <2>1, <2>2
<1>7. ASSUME NEW t \in Targets PROVE Formed(last[t])' /\ BrakedBefore(last[t], t)' /\ QueuedAfter(t)'
  <2>1. Formed(last[t]) /\ BrakedBefore(last[t], t) /\ QueuedAfter(t)
    BY DEF BandInv, BrakeInv
  <2>2. last' = last
    OBVIOUS
  <2>3. Formed(last[t])' /\ BrakedBefore(last[t], t)'
    <3> DEFINE x == last[t]
    <3>1. Formed(x) /\ BrakedBefore(x, t) /\ x \in M!Frames
      BY <1>3, <2>1
    <3>2. x' = x
      BY <2>2
    <3> QED BY <3>1, <3>2, <1>5 DEF Formed, BrakedBefore
  <2>4. ASSUME last[t].brake, NEW f \in Slots(band'), f.to = t, f.name = "local", f.stream # M!NoStream
        PROVE  last[t].stream < f.stream
    <3>1. CASE f \in Slots(band)
      BY <2>1, <2>4, <3>1 DEF QueuedAfter
    <3>2. CASE f.stream \in ticking /\ M!TargetOf(f.stream) = f.to
      BY <2>1, <2>4, <3>2 DEF BrakedBefore
    <3>3. CASE Len(streams) < f.stream /\ f \in M!Frames
      BY <1>1, <1>3, <1>4, <2>1, <3>3 DEF Formed
    <3> QED BY <2>4, <3>1, <3>2, <3>3 DEF Joins
  <2>5. QueuedAfter(t)'
    BY <2>2, <2>4 DEF QueuedAfter, Slots
  <2> QED BY <2>3, <2>5
<1>8. \A f \in Slots(band)' : Formed(f)' /\ BrakedBefore(f, f.to)'
  BY <1>6 DEF Slots
<1> QED BY <1>7, <1>8 DEF BrakeInv, OneSlot

\* A brake of k reaches the band that holds only what was there or joins, or nothing does.
LEMMA BrakeJoins ==
  ASSUME M!StreamAssumption, BandInv, Runs, NEW k \in ticking, NEW b \in Seq(M!Frames), OneSlot(b),
         \A f \in Slots(b) : f \in Slots(band) \/ Joins(f),
         \A j \in ticking' : Len(streams) < j \/ (j \in ticking /\ j # k), M!Brakes(k, b)
  PROVE  OneSlot(band') /\ \A f \in Slots(band') : f \in Slots(band) \/ Joins(f)
<1>1. /\ k \in Nat \ {0} /\ k <= Len(streams) /\ streams[k] \in Stream /\ Len(streams) \in Nat
      /\ Len(streams) <= MaxStreams
  BY RunsInItsSlot DEF BandInv, StreamInv, M!StreamsOwnTheirTargets, M!TypeOK
<1>2. M!Brake(k) \in M!Frames /\ M!Brake(k).to = M!TargetOf(k) /\ M!Brake(k).stream = k
      /\ M!Brake(k).name = "local" /\ M!TargetOf(k) \in Targets
  BY <1>1 DEF M!Brake, M!Frames, M!TargetOf, Stream, M!StreamAssumption
<1>3. \A j \in ticking' : M!TargetOf(j)' = M!TargetOf(k) => k < j
  <2> SUFFICES ASSUME NEW j \in ticking', M!TargetOf(j)' = M!TargetOf(k) PROVE k < j
    OBVIOUS
  <2>1. CASE Len(streams) < j
    BY <1>1, <2>1 DEF Runs
  <2>2. CASE ~(Len(streams) < j)
    BY <2>2 DEF Runs, BandInv, StreamInv, M!StreamsOwnTheirTargets, M!OneStreamPerTarget
  <2> QED BY <2>1, <2>2
<1>4. Joins(M!Brake(k))
  BY <1>1, <1>2, <1>3 DEF Joins, Runs, M!NoStream, M!StreamAssumption
<1>5. CASE band' = b
  BY <1>5
<1>6. CASE band' = M!Coalesced(b, M!Brake(k))
  BY <1>2, <1>4, <1>6, CoalescingAdds
<1> QED BY <1>5, <1>6 DEF M!Brakes

\* A stream that ends brakes behind all that it sent.
LEMMA EndOrders ==
  ASSUME M!StreamAssumption, BandInv, NEW k \in ticking, M!Halt(k), M!Brakes(k, band), UNCHANGED <<streams,
           last>>
  PROVE  BrakeInv'
<1>1. Runs /\ \A j \in ticking' : j \in ticking /\ j # k
  BY RunsInItsSlot DEF Runs, M!Halt, M!TargetOf, BandInv
<1>2. OneSlot(band) /\ band \in Seq(M!Frames)
  BY DEF BandInv, BrakeInv, StreamInv, M!StreamsOwnTheirTargets, M!TypeOK
<1>3. OneSlot(band') /\ \A f \in Slots(band') : f \in Slots(band) \/ Joins(f)
  BY <1>1, <1>2, BrakeJoins
<1> QED BY <1>1, <1>3, BandGrows

\* A frame of Fan-out, or of a stream that runs, is in no brake's way.
LEMMA OneFrameOrders ==
  ASSUME M!StreamAssumption, BandInv, NEW f \in M!Frames, ~f.brake,
         f.stream = M!NoStream \/ (f.stream \in ticking /\ f.to = M!TargetOf(f.stream)),
         band' = M!Coalesced(band, f), UNCHANGED <<streams, ticking, last>>
  PROVE  BrakeInv'
<1>1. Runs
  BY RunsInItsSlot DEF Runs, M!TargetOf, BandInv
<1>2. OneSlot(band) /\ band \in Seq(M!Frames)
  BY DEF BandInv, BrakeInv, StreamInv, M!StreamsOwnTheirTargets, M!TypeOK
<1>3. f.stream # M!NoStream => f.to # M!All /\ f.stream <= Len(streams)
  BY RunsInItsSlot DEF BandInv, Stream, M!TargetOf, M!StreamAssumption
<1>4. Joins(f)
  BY <1>3 DEF Joins
<1> QED BY <1>1, <1>2, <1>4, CoalescingAdds, BandGrows

\* A stream that begins is later than any brake, and the one it replaces is not
\* heard again.
LEMMA StartOrders ==
  ASSUME M!StreamAssumption, BandInv, NEW n \in Nodes, NEW t \in Targets, NEW name \in Kinds,
         NEW ttl \in BOOLEAN,
         M!Begins(n, t, name, ttl)
  PROVE  LET f == M!Setpoint(Len(streams) + 1, t, name)
         IN  /\ Runs /\ Joins(f) /\ UNCHANGED last
             /\ OneSlot(M!Coalesced(band, f)) /\ M!Coalesced(band, f) \in Seq(M!Frames)
             /\ \A g \in Slots(M!Coalesced(band, f)) : g \in Slots(band) \/ Joins(g)
             /\ \A j \in ticking' : Len(streams) < j \/ (j \in ticking /\ j # slot[n])
<1> DEFINE k == Len(streams) + 1
           x == [node |-> n, target |-> t, kind |-> name]
           f == M!Setpoint(k, t, name)
<1>1. /\ k <= MaxStreams /\ streams' = Append(streams, x) /\ ticking' = (ticking \ {slot[n]}) \cup {k}
      /\ last' = last
  BY DEF M!Begins
<1>2. /\ Len(streams) \in Nat /\ streams \in Seq(Stream)
      /\ \A j \in ticking : j \in 1..Len(streams)
  BY RunsInItsSlot DEF BandInv, StreamInv, M!StreamsOwnTheirTargets, M!TypeOK, Stream
<1>3. Len(streams') = k /\ \A j \in ticking : streams'[j] = streams[j]
  <2>1. x \in Stream
    BY DEF Stream
  <2> HIDE DEF x
  <2> QED BY <1>1, <1>2, <2>1, AppendProperties
<1>4. Runs
  BY <1>1, <1>2, <1>3 DEF Runs, M!TargetOf
<1>5. f \in M!Frames /\ f.stream = k /\ f.to = t /\ ~f.brake
  BY <1>1, <1>2, SetpointIsFrame DEF M!Setpoint, M!StreamAssumption
<1>6. Joins(f)
  BY <1>2, <1>3, <1>5 DEF Joins, M!NoStream, M!StreamAssumption
<1>7. OneSlot(band) /\ band \in Seq(M!Frames)
  BY DEF BandInv, BrakeInv, StreamInv, M!StreamsOwnTheirTargets, M!TypeOK
<1>8. \A j \in ticking' : Len(streams) < j \/ (j \in ticking /\ j # slot[n])
  BY <1>1, <1>2
<1> QED BY <1>1, <1>4, <1>5, <1>6, <1>7, <1>8, CoalescingAdds, CoalescingKeepsFrames

\* Sending takes the oldest slot, and with it all that its brake comes after.
LEMMA SendingOrders == ASSUME M!StreamAssumption, BandInv, M!Transmit PROVE BrakeInv'
<1> DEFINE h == Head(band)
<1>1. band \in Seq(M!Frames) /\ band # <<>> /\ OneSlot(band)
  BY DEF M!Transmit, BandInv, BrakeInv, StreamInv, M!StreamsOwnTheirTargets, M!TypeOK
<1>2. /\ h \in Slots(band) /\ OneSlot(Tail(band))
      /\ \A f \in Slots(Tail(band)) : f \in Slots(band) /\ ~(f.to = h.to /\ f.name = h.name)
  BY <1>1, TransmissionTakes
<1>3. band' = Tail(band) /\ streams' = streams /\ ticking' = ticking
  BY DEF M!Transmit
<1>4. \A t \in Targets : last'[t] = IF h.to \in {t, M!All} THEN h ELSE last[t]
  BY DEF M!Transmit
<1>5. \A f : Formed(f)' = Formed(f) /\ \A t : BrakedBefore(f, t)' = BrakedBefore(f, t)
  BY <1>3 DEF Formed, BrakedBefore, M!TargetOf
<1>6. \A f \in Slots(band') : Formed(f)' /\ BrakedBefore(f, f.to)'
  BY <1>2, <1>3, <1>5 DEF BandInv, BrakeInv
<1>7. ASSUME NEW t \in Targets
      PROVE  /\ Formed(last'[t]) /\ BrakedBefore(last'[t], t)
             /\ last'[t].brake => \A f \in Slots(band') :
                  f.to = t /\ f.name = "local" /\ f.stream # M!NoStream => last'[t].stream < f.stream
  <2>1. CASE h.to \in {t, M!All}
    <3>1. last'[t] = h /\ Formed(h) /\ BrakedBefore(h, h.to)
      BY <1>2, <1>4, <2>1 DEF BandInv, BrakeInv
    <3>2. h.brake => h.to = t /\ h.name = "local"
      BY <2>1, <3>1 DEF Formed
    <3>3. BrakedBefore(h, t)
      BY <3>1, <3>2 DEF BrakedBefore
    <3> QED BY <1>2, <1>3, <1>5, <3>1, <3>2, <3>3
  <2>2. CASE h.to \notin {t, M!All}
    <3>1. last'[t] = last[t] /\ Formed(last[t]) /\ BrakedBefore(last[t], t) /\ QueuedAfter(t)
      BY <1>4, <2>2 DEF BandInv, BrakeInv
    <3> QED BY <1>2, <1>3, <1>5, <3>1 DEF QueuedAfter
  <2> QED BY <2>1, <2>2
<1>8. \A t \in Targets : Formed(last[t])' /\ BrakedBefore(last[t], t)' /\ QueuedAfter(t)'
  <2> SUFFICES ASSUME NEW t \in Targets PROVE Formed(last[t])' /\ BrakedBefore(last[t], t)' /\ QueuedAfter(t)'
    OBVIOUS
  <2>1. Formed(last[t])' /\ BrakedBefore(last[t], t)'
    BY <1>3, <1>7 DEF Formed, BrakedBefore, M!TargetOf
  <2>2. QueuedAfter(t)'
    BY <1>7 DEF QueuedAfter, Slots
  <2> QED BY <2>1, <2>2
<1>9. \A f \in Slots(band)' : Formed(f)' /\ BrakedBefore(f, f.to)'
  BY <1>6 DEF Slots
<1> QED BY <1>2, <1>3, <1>8, <1>9 DEF BrakeInv, OneSlot

\* No brake waits at first and none was sent.
LEMMA BandInvInit == ASSUME M!StreamAssumption, M!Init PROVE BandInv
<1>1. band = <<>> /\ DOMAIN band = {} /\ streams = <<>> /\ Len(streams) = 0
  BY DEF M!Init
<1>2. \A t \in Targets : last[t].brake = FALSE /\ last[t].to = t /\ last[t].stream = 0
  BY DEF M!Init, M!Setpoint, M!NoStream
<1>3. BrakeInv
  BY <1>1, <1>2 DEF BrakeInv, OneSlot, Slots, Formed, BrakedBefore, QueuedAfter, M!NoStream, M!StreamAssumption
<1> QED BY <1>3, StreamInvInit DEF BandInv

\* Steps that leave the band and what runs as they are.
LEMMA QuietOrders ==
  ASSUME M!StreamAssumption, BandInv, UNCHANGED <<streams, ticking, last>>,
         band' = band \/ band' = <<>>
  PROVE  BrakeInv'
<1>1. Runs
  BY RunsInItsSlot DEF Runs, M!TargetOf, BandInv
<1>2. OneSlot(band') /\ \A f \in Slots(band') : f \in Slots(band)
  BY DEF OneSlot, Slots, BandInv, BrakeInv
<1> QED BY <1>1, <1>2, BandGrows

\* One step per action.
LEMMA BandInvNext == ASSUME M!StreamAssumption, BandInv, [M!Next]_M!vars PROVE BandInv'
<1>1. StreamInv'
  BY StreamInvNext DEF BandInv
<1>2. ASSUME NEW n \in Nodes, M!Stop(n) \/ M!Close(n) \/ M!Redeploy(n) PROVE BrakeInv'
  <2>1. CASE slot[n] # None /\ (M!Stop(n) \/ M!Close(n))
    <3>1. slot[n] \in ticking
      BY <2>1, RunsInItsSlot DEF BandInv
    <3>2. M!Halt(slot[n]) /\ M!Brakes(slot[n], band) /\ UNCHANGED <<streams, last>>
      BY <2>1 DEF M!Stop, M!Close
    <3> QED BY <3>1, <3>2, EndOrders
  <2>2. CASE M!Redeploy(n) \/ (slot[n] = None /\ M!Close(n))
    <3>1. UNCHANGED <<streams, ticking, last, band>>
      BY <2>2 DEF M!Redeploy, M!Close
    <3> QED BY <3>1, QuietOrders
  <2> QED BY <1>2, <2>1, <2>2 DEF M!Stop
<1>3. ASSUME NEW k \in expiring, M!Expire(k) PROVE BrakeInv'
  <2>1. k \in ticking
    BY DEF BandInv, StreamInv, M!StreamsOwnTheirTargets, M!TypeOK
  <2>2. M!Halt(k) /\ M!Brakes(k, band) /\ UNCHANGED <<streams, last>>
    BY <1>3, <2>1 DEF M!Expire
  <2> QED BY <2>1, <2>2, EndOrders
<1>4. ASSUME NEW n \in Nodes, NEW t \in Targets, NEW name \in Kinds, NEW ttl \in BOOLEAN,
             M!StartsOrReplaces(n, t, name, ttl)
      PROVE  BrakeInv'
  BY <1>4, StartOrders, BandGrows DEF M!StartsOrReplaces
<1>5. ASSUME NEW n \in Nodes, NEW t \in Targets, NEW name \in Kinds, NEW ttl \in BOOLEAN,
             M!Retargets(n, t, name, ttl)
      PROVE  BrakeInv'
  <2>1. slot[n] \in ticking
    BY <1>5, RunsInItsSlot DEF M!Retargets, BandInv
  <2> QED BY <1>5, <2>1, StartOrders, BrakeJoins, BandGrows DEF M!Retargets
<1>6. ASSUME NEW k \in ticking, M!Tick(k) PROVE BrakeInv'
  <2> DEFINE f == M!Setpoint(k, M!TargetOf(k), streams[k].kind)
  <2>1. k \in 0..MaxStreams /\ M!TargetOf(k) \in Targets /\ streams[k].kind \in Kinds
    BY RunsInItsSlot DEF BandInv, StreamInv, M!StreamsOwnTheirTargets, M!TypeOK, Stream, M!TargetOf,
       M!StreamAssumption
  <2>2. f \in M!Frames /\ f.stream = k /\ f.to = M!TargetOf(k) /\ ~f.brake
    BY <2>1, SetpointIsFrame DEF M!Setpoint
  <2>3. band' = M!Coalesced(band, f) /\ UNCHANGED <<streams, ticking, last>>
    BY <1>6 DEF M!Tick
  <2> HIDE DEF f
  <2> QED BY <2>2, <2>3, OneFrameOrders
<1>7. ASSUME NEW name \in Kinds, NEW t \in Targets \cup {M!All}, band' = M!Coalesced(band,
         M!Setpoint(M!NoStream, t, name)),
             UNCHANGED <<streams, ticking, last>>
      PROVE  BrakeInv'
  <2> DEFINE f == M!Setpoint(M!NoStream, t, name)
  <2>1. f \in M!Frames /\ f.stream = M!NoStream /\ ~f.brake
    BY SetpointIsFrame DEF M!Setpoint, M!NoStream, M!StreamAssumption
  <2>2. band' = M!Coalesced(band, f) /\ UNCHANGED <<streams, ticking, last>>
    BY <1>7
  <2> HIDE DEF f
  <2> QED BY <2>1, <2>2, OneFrameOrders
<1>8. ASSUME UNCHANGED <<streams, ticking, last>>, band' = band \/ band' = <<>> PROVE BrakeInv'
  BY <1>8, QuietOrders
<1>9. M!LinkRestored \/ UNCHANGED M!vars \/ (\E n \in Nodes, t \in Targets : M!StartThrows(n, t)) => BrakeInv'
  BY <1>8 DEF M!LinkRestored, M!StartThrows, M!vars
<1>10. (\E t \in Targets, name \in Kinds : M!FanOut(t, name)) \/ (\E name \in Kinds : M!Broadcast(name)) => BrakeInv'
  BY <1>7 DEF M!FanOut, M!Broadcast
<1>11. BrakeInv'
  BY <1>2, <1>3, <1>4, <1>5, <1>6, <1>8, <1>9, <1>10, SendingOrders DEF M!Next
<1> QED BY <1>1, <1>11 DEF BandInv

\* A frame of a stream, or one to vehicles that none runs to.
Free(f) == f.stream # M!NoStream \/ \A t \in Targets : f.to \in {t, M!All} => t \notin held

\* One frame more, which is free.
LEMMA FreeFrame ==
  ASSUME NEW b \in Seq(M!Frames), OneSlot(b), NEW f \in M!Frames, Free(f),
         \A g \in Slots(b) : g \in Slots(band) \/ Free(g)
  PROVE  \A g \in Slots(M!Coalesced(b, f)) : g \in Slots(band) \/ Free(g)
BY CoalescingAdds

\* A brake is of a stream.
LEMMA FreeBrake ==
  ASSUME M!StreamAssumption, BandInv, NEW k \in ticking, NEW b \in Seq(M!Frames), OneSlot(b), M!Brakes(k, b),
         \A g \in Slots(b) : g \in Slots(band) \/ Free(g)
  PROVE  \A g \in Slots(band') : g \in Slots(band) \/ Free(g)
<1>1. /\ k \in Nat \ {0} /\ k <= Len(streams) /\ streams[k] \in Stream /\ Len(streams) \in Nat
      /\ Len(streams) <= MaxStreams
  BY RunsInItsSlot DEF BandInv, StreamInv, M!StreamsOwnTheirTargets, M!TypeOK
<1>2. M!Brake(k) \in M!Frames /\ M!Brake(k).stream = k
  BY <1>1 DEF M!Brake, M!Frames, M!TargetOf, Stream, M!StreamAssumption
<1>3. Free(M!Brake(k))
  BY <1>1, <1>2 DEF Free, M!NoStream
<1> QED BY <1>2, <1>3, FreeFrame DEF M!Brakes

\* What is new in the band is free.
LEMMA NewIsFree ==
  ASSUME M!StreamAssumption, BandInv, M!Next
  PROVE  \A g \in Slots(band') : g \in Slots(band) \/ Free(g)
<1> DEFINE Goal == \A g \in Slots(band') : g \in Slots(band) \/ Free(g)
<1>1. band \in Seq(M!Frames) /\ OneSlot(band) /\ \A g \in Slots(band) : g \in Slots(band) \/ Free(g)
  BY DEF BandInv, BrakeInv, StreamInv, M!StreamsOwnTheirTargets, M!TypeOK
<1>2. ASSUME NEW n \in Nodes, M!Stop(n) \/ M!Close(n) \/ M!Redeploy(n) PROVE Goal
  <2>1. CASE slot[n] # None /\ (M!Stop(n) \/ M!Close(n))
    <3>1. slot[n] \in ticking /\ M!Brakes(slot[n], band)
      BY <2>1, RunsInItsSlot DEF BandInv, M!Stop, M!Close
    <3> QED BY <1>1, <3>1, FreeBrake
  <2>2. CASE M!Redeploy(n) \/ (slot[n] = None /\ M!Close(n))
    BY <2>2 DEF M!Redeploy, M!Close
  <2> QED BY <1>2, <2>1, <2>2 DEF M!Stop
<1>3. ASSUME NEW k \in expiring, M!Expire(k) PROVE Goal
  <2>1. k \in ticking
    BY DEF BandInv, StreamInv, M!StreamsOwnTheirTargets, M!TypeOK
  <2> QED BY <1>1, <1>3, <2>1, FreeBrake DEF M!Expire
<1>4. ASSUME NEW n \in Nodes, NEW t \in Targets, NEW name \in Kinds, NEW ttl \in BOOLEAN,
             M!StartsOrReplaces(n, t, name, ttl) \/ M!Retargets(n, t, name, ttl)
      PROVE  Goal
  <2> DEFINE f == M!Setpoint(Len(streams) + 1, t, name)
             b == M!Coalesced(band, f)
  <2>1. M!Begins(n, t, name, ttl)
    BY <1>4 DEF M!StartsOrReplaces, M!Retargets
  <2>2. f \in M!Frames /\ Free(f)
    <3>1. Len(streams) + 1 \in 0..MaxStreams /\ Len(streams) + 1 # 0
      BY <2>1, RunsInItsSlot DEF BandInv, M!Begins, M!StreamAssumption
    <3> QED BY <3>1, SetpointIsFrame DEF Free, M!NoStream, M!Setpoint
  <2>3. b \in Seq(M!Frames) /\ OneSlot(b) /\ \A g \in Slots(b) : g \in Slots(band) \/ Free(g)
    BY <1>1, <2>2, FreeFrame, CoalescingAdds, CoalescingKeepsFrames
  <2>4. CASE M!StartsOrReplaces(n, t, name, ttl)
    BY <2>3, <2>4 DEF M!StartsOrReplaces
  <2>5. CASE M!Retargets(n, t, name, ttl)
    <3>1. slot[n] \in ticking /\ M!Brakes(slot[n], b)
      BY <2>5, RunsInItsSlot DEF M!Retargets, BandInv
    <3> HIDE DEF b
    <3> QED BY <2>3, <3>1, FreeBrake
  <2> QED BY <1>4, <2>4, <2>5
<1>5. ASSUME NEW k \in ticking, M!Tick(k) PROVE Goal
  <2> DEFINE f == M!Setpoint(k, M!TargetOf(k), streams[k].kind)
  <2>1. k \in 0..MaxStreams /\ k # 0 /\ M!TargetOf(k) \in Targets /\ streams[k].kind \in Kinds
    BY RunsInItsSlot DEF BandInv, StreamInv, M!StreamsOwnTheirTargets, M!TypeOK, Stream, M!TargetOf,
       M!StreamAssumption
  <2>2. f \in M!Frames /\ Free(f)
    BY <2>1, SetpointIsFrame DEF M!Setpoint, Free, M!NoStream
  <2>3. band' = M!Coalesced(band, f)
    BY <1>5 DEF M!Tick
  <2> HIDE DEF f
  <2> QED BY <1>1, <2>2, <2>3, FreeFrame
<1>6. ASSUME NEW name \in Kinds, M!Broadcast(name) \/ \E t \in Targets : M!FanOut(t, name) PROVE Goal
  <2> PICK to \in Targets \cup {M!All} :
             /\ band' = M!Coalesced(band, M!Setpoint(M!NoStream, to, name))
             /\ \A t \in Targets : to \in {t, M!All} => t \notin held
    BY <1>6 DEF M!Broadcast, M!FanOut, M!MayFanOut, M!StreamAssumption
  <2> DEFINE f == M!Setpoint(M!NoStream, to, name)
  <2>1. f \in M!Frames /\ Free(f)
    BY SetpointIsFrame DEF M!Setpoint, Free, M!NoStream, M!StreamAssumption
  <2>2. band' = M!Coalesced(band, f)
    OBVIOUS
  <2> HIDE DEF f
  <2> QED BY <1>1, <2>1, <2>2, FreeFrame
<1>7. ASSUME M!Transmit PROVE Goal
  BY <1>1, <1>7, TransmissionTakes DEF M!Transmit
<1>8. ASSUME M!LinkRestored \/ \E n \in Nodes, t \in Targets : M!StartThrows(n, t) PROVE Goal
  BY <1>8 DEF M!LinkRestored, M!StartThrows, M!vars, Slots
<1> HIDE DEF Goal
<1>9. Goal
  BY <1>2, <1>3, <1>4, <1>5, <1>6, <1>7, <1>8 DEF M!Next
<1> QED BY <1>9 DEF Goal

\* A one-shot setpoint is new in the band only if it was free to be sent.
LEMMA StreamsAreRespected == ASSUME M!StreamAssumption, BandInv, M!Next PROVE M!RespectsStreams
<1>1. \A t, b : M!OneShotFor(b, t) <=> \E f \in Slots(b) : f.stream = M!NoStream /\ f.to \in {t, M!All}
  BY DEF M!OneShotFor, Slots
<1>2. \A k \in ticking : M!TargetOf(k) \in held
  BY RunsInItsSlot DEF BandInv
<1> QED BY <1>1, <1>2, NewIsFree DEF M!RespectsStreams, Free

\* Only sending moves what a vehicle got last, to the oldest slot: what is there is of a
\* later stream than the brake, or in no way of it.
LEMMA BrakesAreHeeded == ASSUME M!StreamAssumption, BandInv, M!Next PROVE M!HeedsBrakes
<1>1. CASE last' = last
  BY <1>1 DEF M!HeedsBrakes
<1>2. CASE M!Transmit
  <2> SUFFICES ASSUME NEW t \in Targets, last[t].brake, last'[t] # last[t], last'[t].name = last[t].name,
                      last'[t].stream # M!NoStream
               PROVE  ~(last'[t].stream <= last[t].stream)
    BY DEF M!HeedsBrakes, M!Overtaken
  <2> DEFINE h == Head(band)
  <2>1. band \in Seq(M!Frames) /\ band # <<>> /\ OneSlot(band) /\ h \in Slots(band) /\ h \in M!Frames
    <3>1. band \in Seq(M!Frames) /\ band # <<>> /\ OneSlot(band)
      BY <1>2 DEF M!Transmit, BandInv, BrakeInv, StreamInv, M!StreamsOwnTheirTargets, M!TypeOK
    <3> QED BY <3>1, TransmissionTakes
  <2>2. last'[t] = h /\ h.to \in {t, M!All}
    BY <1>2 DEF M!Transmit
  <2>3. Formed(h) /\ Formed(last[t]) /\ QueuedAfter(t)
    BY <2>1 DEF BandInv, BrakeInv
  <2>4. h.to = t /\ h.name = "local"
    BY <2>2, <2>3 DEF Formed
  <2>5. last[t].stream < h.stream
    BY <2>1, <2>2, <2>3, <2>4 DEF QueuedAfter
  <2>6. last[t].stream \in Nat /\ h.stream \in Nat
    BY <2>1 DEF M!Frames, BandInv, StreamInv, M!StreamsOwnTheirTargets, M!TypeOK
  <2> QED BY <2>2, <2>5, <2>6
<1>3. last' = last \/ M!Transmit
  BY DEF M!Next, M!Stop, M!Close, M!Redeploy, M!StartsOrReplaces, M!Retargets, M!Begins, M!StartThrows,
     M!vars, M!Tick, M!Expire,
     M!FanOut, M!Broadcast, M!LinkRestored
<1> QED BY <1>1, <1>2, <1>3

-----------------------------------------------------------------------------
(* Queue and peers are what the proofs about them are about *)

\* The table begins, goes on and is judged as in PeerProofs.
LEMMA PeersAreProved ==
  /\ PP!Assumptions
  /\ P!Init => PP!Init
  /\ P!Next => PP!Next
  /\ PP!RoutesAreSound /\ PP!FreshnessIsTrue => P!RoutesAreSound /\ P!FreshnessIsTrue
<1>1. PP!Assumptions
  BY PeerAssumption DEF P!ComponentsAssumption, P!AgesAssumption, P!NullsAssumption, PP!Assumptions,
     PP!ComponentsAssumption, PP!AgesAssumption, PP!NullsAssumption
<1>2. P!Init => PP!Init
  BY DEF P!Init, P!Fresh, PP!Init, PP!Fresh
<1>3. \A r, e : P!At(r, e) = PP!At(r, e) /\ (P!Knows(r, e) <=> PP!Knows(r, e))
  BY DEF P!At, P!Knows, PP!At, PP!Knows
<1>4. P!Next => PP!Next
  <2>1. \A c, name, e : P!Update(c, name, e) => PP!Update(c, name, e)
    <3>1. \A r, e : P!RecordEndpoint(r, e) = PP!RecordEndpoint(r, e)
      BY DEF P!RecordEndpoint, P!Knows, P!At, PP!RecordEndpoint, PP!Knows, PP!At
    <3>2. \A c : P!Ensured(c) = PP!Ensured(c)
      BY DEF P!Ensured, P!Fresh, PP!Ensured, PP!Fresh
    <3>3. \A c, e : P!LearnsRoute(c, e) <=> PP!LearnsRoute(c, e)
      BY DEF P!LearnsRoute, P!GCS_SYSID_MIN, PP!LearnsRoute, PP!GCS_SYSID_MIN
    <3>4. \A c, e : P!Routed(c, e) = PP!Routed(c, e)
      BY <3>1, <3>2, <3>3 DEF P!Routed, PP!Routed
    <3>5. \A q, name : P!Folded(q, name) = PP!Folded(q, name)
      BY DEF P!Folded, PP!Folded
    <3> QED BY <3>3, <3>4, <3>5 DEF P!Update, PP!Update
  <2>2. \A eps : P!NextPrimary(eps) = PP!NextPrimary(eps)
    BY DEF P!NextPrimary, PP!NextPrimary
  <2>3. \A r : P!WithoutPrimary(r) = PP!WithoutPrimary(r)
    BY DEF P!WithoutPrimary, P!Knows, P!At, P!RemoveAt, PP!WithoutPrimary,
       PP!Knows, PP!At, PP!RemoveAt
  <2>4. \A c : P!MarkPrimaryFailed(c) => PP!MarkPrimaryFailed(c)
    BY <2>2, <2>3 DEF P!MarkPrimaryFailed, PP!MarkPrimaryFailed
  <2>5. P!DemoteEndpoints => PP!DemoteEndpoints
    BY DEF P!DemoteEndpoints, P!Demoted, PP!DemoteEndpoints, PP!Demoted
  <2>6. P!Sweep => PP!Sweep
    BY DEF P!Sweep, P!Age, P!FreshnessRef, P!Swept, PP!Sweep, PP!Age, PP!FreshnessRef, PP!Swept
  <2>7. P!Tick => PP!Tick
    BY DEF P!Tick, PP!Tick
  <2> QED BY <2>1, <2>4, <2>5, <2>6, <2>7 DEF P!Next, P!Step, PP!Next, PP!Step
<1>5. PP!RoutesAreSound => P!RoutesAreSound
  <2>1. PP!TypeOK => P!TypeOK
    BY DEF P!TypeOK, P!At, PP!TypeOK, PP!At
  <2>2. PP!RoutedWhenReachable => P!RoutedWhenReachable
    BY <1>3 DEF P!RoutedWhenReachable, PP!RoutedWhenReachable
  <2>3. PP!DeadAddressStaysDead => P!DeadAddressStaysDead
    BY DEF P!DeadAddressStaysDead, PP!DeadAddressStaysDead
  <2>4. \A c : P!EndpointFor(c) = PP!EndpointFor(c)
    BY <1>3 DEF P!EndpointFor, PP!EndpointFor
  <2>5. PP!BroadcastReachesVehicles => P!BroadcastReachesVehicles
    BY <2>4 DEF P!BroadcastReachesVehicles, P!EndpointsForBroadcast, P!GCS_SYSID_MIN,
       PP!BroadcastReachesVehicles, PP!EndpointsForBroadcast, PP!GCS_SYSID_MIN
  <2> QED BY <2>1, <2>2, <2>3, <2>5 DEF P!RoutesAreSound, PP!RoutesAreSound
<1>6. PP!FreshnessIsTrue => P!FreshnessIsTrue
  BY DEF P!FreshnessIsTrue, P!FreshnessIsBounded, P!StaleUntilRerouted, P!Silence, P!GCS_SYSID_MIN,
     PP!FreshnessIsTrue, PP!FreshnessIsBounded, PP!StaleUntilRerouted, PP!Silence, PP!GCS_SYSID_MIN
<1> QED BY <1>1, <1>2, <1>4, <1>5, <1>6

\* The feed begins, goes on and is judged as in PeerProofs.
LEMMA FeedIsProved ==
  /\ FP!FeedAssumptions
  /\ F!FeedInit => FP!FeedInit
  /\ F!FeedNext => FP!FeedNext
  /\ FP!KnownIsTrue => F!KnownIsTrue
<1>1. FP!FeedAssumptions
  BY FeedAssumption DEF F!ComponentsAssumption, F!AgesAssumption, F!NullsAssumption, F!BlankAssumption,
     F!Carried, F!Views, FP!FeedAssumptions, FP!Assumptions, FP!ComponentsAssumption, FP!AgesAssumption,
     FP!NullsAssumption, FP!BlankAssumption, FP!Carried, FP!Views
<1>2. F!Fields = FP!Fields /\ F!Nothing = FP!Nothing /\ F!Carried = FP!Carried
  BY DEF F!Fields, F!Nothing, F!Carried, FP!Fields, FP!Nothing, FP!Carried
<1>3. F!FeedInit => FP!FeedInit
  BY <1>2 DEF F!FeedInit, F!Init, F!Fresh, FP!FeedInit, FP!Init, FP!Fresh
<1>4. \A r, e : F!At(r, e) = FP!At(r, e) /\ (F!Knows(r, e) <=> FP!Knows(r, e))
  BY DEF F!At, F!Knows, FP!At, FP!Knows
<1>5. F!FeedNext => FP!FeedNext
  <2>1. \A c, name, e : F!Update(c, name, e) => FP!Update(c, name, e)
    <3>1. \A r, e : F!RecordEndpoint(r, e) = FP!RecordEndpoint(r, e)
      BY DEF F!RecordEndpoint, F!Knows, F!At, FP!RecordEndpoint, FP!Knows, FP!At
    <3>2. \A c : F!Ensured(c) = FP!Ensured(c)
      BY DEF F!Ensured, F!Fresh, FP!Ensured, FP!Fresh
    <3>3. \A c, e : F!LearnsRoute(c, e) <=> FP!LearnsRoute(c, e)
      BY DEF F!LearnsRoute, F!GCS_SYSID_MIN, FP!LearnsRoute, FP!GCS_SYSID_MIN
    <3>4. \A c, e : F!Routed(c, e) = FP!Routed(c, e)
      BY <3>1, <3>2, <3>3 DEF F!Routed, FP!Routed
    <3>5. \A q, name : F!Folded(q, name) = FP!Folded(q, name)
      BY DEF F!Folded, FP!Folded
    <3> QED BY <3>3, <3>4, <3>5 DEF F!Update, FP!Update
  <2>2. \A c, e : F!IsNew(c, e) <=> FP!IsNew(c, e)
    BY <1>4 DEF F!IsNew, F!LearnsRoute, F!Ensured, F!Fresh, F!GCS_SYSID_MIN, FP!IsNew, FP!LearnsRoute,
       FP!Ensured, FP!Fresh, FP!GCS_SYSID_MIN
  <2>3. \A c : F!Held(c) = FP!Held(c)
    BY <1>2 DEF F!Held, FP!Held
  <2>4. \A known, was, is : F!Learns(known, was, is) = FP!Learns(known, was, is)
    BY DEF F!Learns, F!Changed, FP!Learns, FP!Changed
  <2>5. \A c, e, v : F!EndpointAdded(c, e, v) = FP!EndpointAdded(c, e, v) /\ F!ComponentNew(c, v) = FP!ComponentNew(c, v)
    BY <1>2, <2>2 DEF F!EndpointAdded, F!ComponentNew, FP!EndpointAdded, FP!ComponentNew
  <2>6. \A name, v : F!HeartbeatTold(name, v) = FP!HeartbeatTold(name, v)
    BY DEF F!HeartbeatTold, FP!HeartbeatTold
  <2>7. \A c, readings, v : F!FieldsTold(c, readings, v) = FP!FieldsTold(c, readings, v)
    BY <1>2, <2>3, <2>4 DEF F!FieldsTold, FP!FieldsTold
  <2>8. \A c, name, e : F!Receives(c, name, e) => FP!Receives(c, name, e)
    <3> SUFFICES ASSUME NEW c, NEW name, NEW e, F!Receives(c, name, e) PROVE FP!Receives(c, name, e)
      OBVIOUS
    <3> DEFINE Told(readings, v) == F!FieldsTold(c, readings, F!HeartbeatTold(name, F!EndpointAdded(c, e, F!ComponentNew(c, v))))
               ToldHere(readings, v) ==
                 FP!FieldsTold(c, readings, FP!HeartbeatTold(name, FP!EndpointAdded(c, e, FP!ComponentNew(c, v))))
    <3>1. \E readings \in [FP!Carried[name] \cap FP!Fields -> Readings] :
            /\ values' = [values EXCEPT ![c] = [f \in FP!Fields |-> IF f \in DOMAIN readings THEN readings[f] ELSE FP!Held(c)[f]]]
            /\ view' = IF feed # "synced" THEN view ELSE [view EXCEPT ![c] = ToldHere(readings, @)]
      <4>1. PICK readings \in [F!Carried[name] \cap F!Fields -> Readings] :
              /\ values' = [values EXCEPT ![c] = [f \in F!Fields |-> IF f \in DOMAIN readings THEN readings[f] ELSE F!Held(c)[f]]]
              /\ view' = IF feed # "synced" THEN view ELSE [view EXCEPT ![c] = Told(readings, @)]
        BY DEF F!Receives
      <4>2. readings \in [FP!Carried[name] \cap FP!Fields -> Readings]
        BY <1>2
      <4>3. values' = [values EXCEPT ![c] = [f \in FP!Fields |-> IF f \in DOMAIN readings THEN readings[f] ELSE FP!Held(c)[f]]]
        BY <1>2, <2>3, <4>1
      <4>4. Told(readings, view[c]) = ToldHere(readings, view[c])
        BY <2>5, <2>6, <2>7
      <4>5. view' = IF feed # "synced" THEN view ELSE [view EXCEPT ![c] = ToldHere(readings, @)]
        BY <4>1, <4>4
      <4> QED BY <4>2, <4>3, <4>5
    <3>2. FP!Update(c, name, e) /\ UNCHANGED <<kind, feed>>
      BY <2>1 DEF F!Receives
    <3>3. lapsed' = [lapsed EXCEPT ![c] =
                       IF c \notin listed THEN {}
                       ELSE @ \ ((IF record'[c].state = "active" THEN {"state"} ELSE {}) \cup
                                 (IF FP!IsNew(c, e) THEN {"primary"} ELSE {}))]
      BY <2>2 DEF F!Receives
    <3> QED BY <3>1, <3>2, <3>3 DEF FP!Receives
  <2>9. \A eps : F!NextPrimary(eps) = FP!NextPrimary(eps)
    BY DEF F!NextPrimary, FP!NextPrimary
  <2>10. \A r : F!WithoutPrimary(r) = FP!WithoutPrimary(r)
    BY DEF F!WithoutPrimary, F!Knows, F!At, F!RemoveAt, FP!WithoutPrimary,
       FP!Knows, FP!At, FP!RemoveAt
  <2>11. \A c : F!FailureTells(c) => FP!FailureTells(c)
    BY <2>9, <2>10 DEF F!FailureTells, F!MarkPrimaryFailed, FP!FailureTells, FP!MarkPrimaryFailed
  <2>12. F!ReconnectIsSilent => FP!ReconnectIsSilent
    BY DEF F!ReconnectIsSilent, F!DemoteEndpoints, F!Demoted, FP!ReconnectIsSilent, FP!DemoteEndpoints,
       FP!Demoted
  <2>13. F!SweepTells => FP!SweepTells
    BY DEF F!SweepTells, F!Sweep, F!Age, F!FreshnessRef, F!Swept, FP!SweepTells, FP!Sweep, FP!Age,
       FP!FreshnessRef, FP!Swept
  <2>14. F!TimePasses => FP!TimePasses
    BY DEF F!TimePasses, F!Tick, F!feedVars, FP!TimePasses, FP!Tick, FP!feedVars
  <2>15. (F!Snapshot => FP!Snapshot) /\ (F!CloseFeed => FP!CloseFeed) /\ (F!OpenFeed => FP!OpenFeed)
    BY DEF F!Snapshot, F!CloseFeed, F!OpenFeed, F!Forgets, F!vars, FP!Snapshot, FP!CloseFeed, FP!OpenFeed,
       FP!Forgets, FP!vars
  <2> QED BY <2>8, <2>11, <2>12, <2>13, <2>14, <2>15 DEF F!FeedNext, FP!FeedNext
<1>6. FP!KnownIsTrue => F!KnownIsTrue
  BY <1>2 DEF F!KnownIsTrue, FP!KnownIsTrue
<1> QED BY <1>1, <1>3, <1>5, <1>6

\* The queue begins, goes on and is judged as in OutboundQueueProofs.
LEMMA QueueIsProved ==
  /\ QP!RequestsAssumption /\ QP!CapacityAssumption /\ QP!ClockAssumption /\ QP!BoundsAssumption
  /\ Q!Init => QP!Init
  /\ Q!Next => QP!Next
  /\ QP!LeavesUrgentFirst /\ QP!LeavesBySending => Q!LeavesUrgentFirst /\ Q!LeavesBySending
<1> USE DEF Q!Bands, Q!ArrayBands, Q!MapBands, Q!CappedBands, Q!AGE_CLAMP_BAND, Q!EMERGENCY, Q!LIVENESS,
            Q!CONTROL, Q!STREAMING, Q!BULK, QP!Bands, QP!ArrayBands, QP!MapBands, QP!CappedBands,
            QP!AGE_CLAMP_BAND, QP!EMERGENCY, QP!LIVENESS, QP!CONTROL, QP!STREAMING, QP!BULK
<1>0. QP!RequestsAssumption /\ QP!CapacityAssumption /\ QP!ClockAssumption /\ QP!BoundsAssumption
  BY QueueAssumption DEF Q!RequestsAssumption, Q!CapacityAssumption, Q!ClockAssumption, Q!BoundsAssumption,
     QP!RequestsAssumption, QP!CapacityAssumption, QP!ClockAssumption, QP!BoundsAssumption
<1>1. Q!Init => QP!Init
  BY DEF Q!Init, QP!Init
<1>2. \A b : Q!Live(b) = QP!Live(b) /\ Q!BandHead(b) = QP!BandHead(b)
  BY DEF Q!Live, Q!BandHead, QP!Live, QP!BandHead
<1>3. \A b : Q!Queued(b) = QP!Queued(b) /\ (Q!Occupied(b) <=> QP!Occupied(b))
  BY <1>2 DEF Q!Queued, Q!Occupied, QP!Queued, QP!Occupied
<1>4. Q!BestBand = QP!BestBand
  <2>1. \A x : Q!EffectiveBand(x) = QP!EffectiveBand(x)
    BY DEF Q!EffectiveBand, QP!EffectiveBand
  <2>2. \A x, y : Q!Before(x, y) <=> QP!Before(x, y)
    BY <2>1 DEF Q!Before, QP!Before
  <2>3. \A b, c : Q!Better(b, c) = QP!Better(b, c)
    BY <1>2, <1>3, <2>2 DEF Q!Better, QP!Better
  <2> QED BY <2>3 DEF Q!BestBand, QP!BestBand
<1>5. ASSUME NEW r, Q!Enqueue(r) PROVE QP!Enqueue(r)
  <2>1. Q!ItemOf(r) = QP!ItemOf(r)
    BY DEF Q!ItemOf, QP!ItemOf
  <2>2. \A x : Q!SameSlot(x, r) <=> QP!SameSlot(x, r)
    BY DEF Q!SameSlot, QP!SameSlot
  <2>3. Q!SlotsOf(r) = QP!SlotsOf(r)
    BY <2>2 DEF Q!SlotsOf, QP!SlotsOf
  <2>4. Q!EnqueueLiveness(r) => QP!EnqueueLiveness(r)
    <3>1. \A s, i : Q!RemoveAt(s, i) = QP!RemoveAt(s, i)
      BY DEF Q!RemoveAt, QP!RemoveAt
    <3> QED BY <2>1, <2>3, <3>1 DEF Q!EnqueueLiveness, QP!EnqueueLiveness
  <2>5. Q!CoalesceStreaming(r) => QP!CoalesceStreaming(r)
    BY <2>3 DEF Q!CoalesceStreaming, QP!CoalesceStreaming
  <2>6. Q!InsertStreaming(r) => QP!InsertStreaming(r)
    BY <2>1, <2>3 DEF Q!InsertStreaming, QP!InsertStreaming
  <2>7. Q!EnqueueBounded(r) => QP!EnqueueBounded(r)
    BY <2>1 DEF Q!EnqueueBounded, QP!EnqueueBounded
  <2>8. Q!OverflowBounded(r) => QP!OverflowBounded(r)
    BY DEF Q!OverflowBounded, QP!OverflowBounded
  <2> QED BY <1>5, <2>4, <2>5, <2>6, <2>7, <2>8 DEF Q!Enqueue, Q!Accept, QP!Enqueue, QP!Accept
<1>6. Q!Dequeue => QP!Dequeue
  BY <1>2, <1>3, <1>4 DEF Q!Dequeue, Q!RemoveHead, QP!Dequeue, QP!RemoveHead
<1>7. Q!DequeueEmpty => QP!DequeueEmpty
  BY <1>3 DEF Q!DequeueEmpty, QP!DequeueEmpty
<1>8. (Q!Clear => QP!Clear) /\ (Q!Tick => QP!Tick)
  BY DEF Q!Clear, Q!Tick, QP!Clear, QP!Tick
<1>9. Q!Next => QP!Next
  BY <1>5, <1>6, <1>7, <1>8 DEF Q!Next, QP!Next
<1>10. QP!LeavesUrgentFirst => Q!LeavesUrgentFirst
  BY <1>3 DEF Q!LeavesUrgentFirst, Q!AllQueued, QP!LeavesUrgentFirst, QP!AllQueued
<1>11. QP!LeavesBySending => Q!LeavesBySending
  <2>1. \A b : Q!Queued(b)' = QP!Queued(b)'
    BY DEF Q!Queued, Q!Live, QP!Queued, QP!Live
  <2> QED BY <1>3, <2>1 DEF Q!LeavesBySending, QP!LeavesBySending
<1> QED BY <1>1, <1>9, <1>10, <1>11, <1>0

-----------------------------------------------------------------------------
(* Behaviours of Link *)

\* On a link whatever is repeated, reordered and lost, whatever the clock does and
\* whenever the process restarts, a signed frame is trusted once between restarts and
\* no established peer is locked out (signing.js:86-225).
THEOREM LinkRemembers == Spec => []ReplaysAndOnlyReplays
<1> DEFINE Inv == part = "signing" => SInv
<1>1. Init => Inv
  BY SigningAssumption, SInvInit DEF Init
<1>2. Inv /\ [Next]_vars => Inv'
  <2> SUFFICES ASSUME Inv, [Next]_vars, part' = "signing" PROVE SInv'
    OBVIOUS
  <2>1. part = "signing" /\ SInv /\ [S!Next]_S!vars
    BY DEF Next, vars, signingVars, S!vars, S!stateVars, S!historyVars
  <2> QED BY <2>1, SigningAssumption, SInvNext
<1>3. Inv => ReplaysAndOnlyReplays
  <2> SUFFICES ASSUME SInv PROVE S!ReplaysAndOnlyReplays
    BY DEF ReplaysAndOnlyReplays
  <2>1. S!TypeOK /\ S!FloorsAreEarned /\ S!StoresAreSound /\ S!TrustedOnce
    BY DEF SInv, S!StoresAreSound
  <2>2. S!EstablishedPeerIsHeard
    BY <2>1, SigningAssumption, MemoryDecides
  <2> QED BY <2>1, <2>2 DEF S!ReplaysAndOnlyReplays
<1> QED BY <1>1, <1>2, <1>3, PTL DEF Spec

\* On a link with whatever nodes start, replace, retarget, stop, expire and close,
\* a vehicle follows one stream at most, and is locked exactly while it does
\* (lock.js:10-14, move.js:43-49, 172-263).
THEOREM LinkStreamsOwn == Spec => []StreamsOwnTheirTargets
<1> DEFINE Inv == part = "streams" => StreamInv
<1>1. Init => Inv
  BY StreamAssumption, StreamInvInit DEF Init
<1>2. Inv /\ [Next]_vars => Inv'
  <2> SUFFICES ASSUME Inv, [Next]_vars, part' = "streams" PROVE StreamInv'
    OBVIOUS
  <2>1. part = "streams" /\ StreamInv /\ [M!Next]_M!vars
    BY DEF Next, vars, streamVars, M!vars
  <2> QED BY <2>1, StreamAssumption, StreamInvNext
<1>3. Inv => StreamsOwnTheirTargets
  BY DEF StreamsOwnTheirTargets, StreamInv
<1> QED BY <1>1, <1>2, <1>3, PTL DEF Spec

\* On a link routes exist where there is one to have, avoid what failed, and are those of
\* vehicles; a silent component is marked and forgotten in time, and a reconnect's
\* mark stays until the new link is heard; and who keeps up with the feed knows what the
\* table holds (peer-table.js:38-45, 137, 194, 352-361, 506-511).
THEOREM LinkKnowsItsPeers == Spec => []PeersAreTrue
<1> DEFINE Inv == (part = "peers" => PP!PeerInv) /\ (part = "feed" => FP!FeedInv)
<1>1. Init => Inv
  BY PeersAreProved, FeedIsProved, PP!PeersBegin, FP!FeedBegins DEF Init
<1>2. Inv /\ [Next]_vars => Inv'
  <2> SUFFICES ASSUME Inv, [Next]_vars PROVE Inv'
    OBVIOUS
  <2>1. ASSUME part' = "peers" PROVE PP!PeerInv'
    <3>1. part = "peers" /\ PP!PeerInv /\ [PP!Next]_<<PP!vars, acceptInvalid>>
      BY <2>1, PeersAreProved DEF Next, vars, peerVars, PP!vars
    <3> QED BY <3>1, PeersAreProved, PP!PeersGoOn
  <2>2. ASSUME part' = "feed" PROVE FP!FeedInv'
    <3>1. part = "feed" /\ FP!FeedInv /\ [FP!FeedNext]_<<acceptInvalid, FP!vars, FP!feedVars>>
      BY <2>2, FeedIsProved DEF Next, vars, peerVars, feedVars, FP!vars, FP!feedVars
    <3> QED BY <3>1, FeedIsProved, FP!FeedGoesOn
  <2> QED BY <2>1, <2>2
<1>3. Inv => PeersAreTrue
  <2>1. PP!PeerInv => PP!RoutesAreSound /\ PP!FreshnessIsTrue
    BY PeersAreProved, PP!PeersRoute, PP!PeersAge
  <2>2. FP!FeedInv => FP!KnownIsTrue
    BY FP!FeedIsKnown
  <2> QED BY <2>1, <2>2, PeersAreProved, FeedIsProved DEF PeersAreTrue
<1> QED BY <1>1, <1>2, <1>3, PTL DEF Spec

\* On a link what leaves is in order.  A signed frame is stamped after all that we
\* emitted and all that verified peers showed us; Fan-out puts no setpoint behind the
\* back of a running stream, and after a brake nothing of its stream takes its place; and
\* whatever becomes of the clock, nothing that aged precedes an emergency or a heartbeat
\* and no accepted command is lost (signing.js:110-117, fanout/index.js:344-365,
\* move/index.js:137, 222-231, queue.js:91-121, 191-232).
THEOREM LinkEmitsInOrder == Spec => EmissionsAreOrdered
<1> DEFINE Inv == /\ part = "signing" => SInv
                  /\ part = "streams" => BandInv
                  /\ part = "queue" => QP!IInv
           Ordered == /\ part = "signing" => S!StampLeads
                      /\ part = "streams" => M!RespectsStreams /\ M!HeedsBrakes
                      /\ part = "queue" => Q!LeavesUrgentFirst /\ Q!LeavesBySending
<1>1. Init => Inv
  BY SigningAssumption, StreamAssumption, QueueIsProved, SInvInit, BandInvInit, QP!InitInv DEF Init
<1>2. ASSUME Inv, [Next]_vars
      PROVE  /\ part' = part
             /\ part = "signing" => SInv /\ [S!Next]_S!vars
             /\ part = "streams" => BandInv /\ [M!Next]_M!vars
             /\ part = "queue" => QP!IInv /\ [QP!Next]_QP!vars
  <2>1. part = "signing" => [S!Next]_S!vars
    BY <1>2 DEF Next, vars, signingVars, S!vars, S!stateVars, S!historyVars
  <2>2. part = "streams" => [M!Next]_M!vars
    BY <1>2 DEF Next, vars, streamVars, M!vars
  <2>3. part = "queue" => [QP!Next]_QP!vars
    BY <1>2, QueueIsProved DEF Next, vars, queueVars, QP!vars
  <2> QED BY <1>2, <2>1, <2>2, <2>3 DEF Next, vars
<1>3. Inv /\ [Next]_vars => Inv'
  BY <1>2, SigningAssumption, StreamAssumption, QueueIsProved, SInvNext, BandInvNext, QP!NextInv
<1>4. Inv /\ [Next]_vars => [Ordered]_vars
  <2> SUFFICES ASSUME Inv, Next, vars' # vars PROVE Ordered
    OBVIOUS
  <2>1. CASE part = "signing"
    <3>1. SInv /\ S!Next
      BY <2>1, <1>2 DEF Next
    <3> QED BY <2>1, <3>1, SigningAssumption, StepsLead
  <2>2. CASE part = "streams"
    <3>1. BandInv /\ M!Next
      BY <2>2, <1>2 DEF Next
    <3> QED BY <2>2, <3>1, StreamAssumption, StreamsAreRespected, BrakesAreHeeded
  <2>3. CASE part = "queue"
    <3>1. QP!IInv /\ QP!Next /\ QP!vars' # QP!vars
      BY <2>3, <1>2, QueueIsProved DEF Next, vars, queueVars, QP!vars
    <3>2. QP!LeavesUrgentFirst /\ QP!LeavesBySending
      BY <3>1, QueueIsProved, QP!UrgentGoesFirst, QP!LeavesOnlySent
    <3> QED BY <2>3, <3>2, QueueIsProved
  <2> QED BY <2>1, <2>2, <2>3
<1> QED BY <1>1, <1>3, <1>4, PTL DEF Spec, EmissionsAreOrdered
===============================================================================
