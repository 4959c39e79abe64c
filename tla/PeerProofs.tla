------------------------------ MODULE PeerProofs ------------------------------
(***************************************************************************)
(* Proofs about PeerTable and StateFeed, for any components, addresses,    *)
(* ages and readings: the routes are sound, freshness is true, and who     *)
(* keeps up with the feed knows what the table holds.                      *)
(***************************************************************************)
EXTENDS StateFeed, SequenceTheorems, WellFoundedInduction, TLAPS

Heard == [at : Endpoints, lastSeen : Nat]

Record == [state : {"active", "stale"}, lastSeen : Nat, heartbeat : Nat \cup {Never},
           endpoints : Seq(Heard), primary : Endpoints \cup {NoEndpoint}]

\* The addresses a component is known at.
Places(r) == {r.endpoints[i].at : i \in 1..Len(r.endpoints)}

\* A record of the past, with every address listed once.
Sound(r, t) ==
  /\ r \in Record
  /\ r.lastSeen <= t /\ (r.heartbeat # Never => r.heartbeat <= t)
  /\ \A i \in 1..Len(r.endpoints) : r.endpoints[i].lastSeen <= t
  /\ \A i, j \in 1..Len(r.endpoints) : r.endpoints[i].at = r.endpoints[j].at => i = j

PeersTyped ==
  /\ acceptInvalid \in BOOLEAN /\ listed \subseteq Components /\ unheard \subseteq Components
  /\ now \in Nat /\ lastSweep \in Nat /\ lastSweep <= now
  /\ record = [c \in Components |-> record[c]] /\ \A c \in Components : Sound(record[c], now)
  /\ dead \in [Components -> SUBSET Endpoints]

\* No address that is listed has failed, and ground stations have none.
RoutesAreKept ==
  \A c \in listed :
    /\ record[c].primary # NoEndpoint => record[c].primary \in Places(record[c])
    /\ c \notin unheard /\ Places(record[c]) # {} => record[c].primary # NoEndpoint
    /\ Places(record[c]) \cap dead[c] = {}
    /\ c.sysid >= GCS_SYSID_MIN => Places(record[c]) = {}

\* What the last sweep left is not expired at that time, and marked if it was
\* stale then.
AgesAreKept ==
  /\ now - lastSweep <= SweepPeriod
  /\ \A c \in listed :
       /\ lastSweep - FreshnessRef(record[c]) <= ExpireAge
       /\ lastSweep - FreshnessRef(record[c]) > StaleAge => record[c].state = "stale"

PeerInv == PeersTyped /\ RoutesAreKept /\ AgesAreKept /\ StaleUntilRerouted

Assumptions == ComponentsAssumption /\ AgesAssumption /\ NullsAssumption

-----------------------------------------------------------------------------
(* Records *)

\* A sequence is one of whatever its elements are.
LEMMA RetypedSeq ==
  ASSUME NEW T, NEW U, NEW q \in Seq(T), \A i \in 1..Len(q) : q[i] \in U
  PROVE  q \in Seq(U)
<1>1. Len(q) \in Nat /\ q \in [1..Len(q) -> U]
  OBVIOUS
<1> QED BY <1>1

\* A record knows its places.
LEMMA KnownPlaces ==
  ASSUME NEW r \in Record
  PROVE  /\ r.endpoints \in Seq(Heard) /\ Len(r.endpoints) \in Nat
         /\ \A e : Knows(r, e) <=> e \in Places(r)
         /\ r.endpoints = <<>> <=> Places(r) = {}
         /\ Places(r) \subseteq Endpoints
<1>1. r.endpoints \in Seq(Heard) /\ Len(r.endpoints) \in Nat
  BY DEF Record
<1>2. \A e : Knows(r, e) <=> e \in Places(r)
  BY DEF Knows, At, Places
<1>3. r.endpoints = <<>> <=> Places(r) = {}
  <2>1. r.endpoints = <<>> <=> Len(r.endpoints) = 0
    BY <1>1, EmptySeq
  <2>2. ASSUME Places(r) = {} PROVE Len(r.endpoints) = 0
    <3>1. ~(1 \in 1..Len(r.endpoints))
      BY <2>2 DEF Places
    <3> QED BY <1>1, <3>1
  <2>3. ASSUME Len(r.endpoints) = 0 PROVE Places(r) = {}
    BY <2>3 DEF Places
  <2> QED BY <2>1, <2>2, <2>3
<1>4. Places(r) \subseteq Endpoints
  <2>1. \A i \in 1..Len(r.endpoints) : r.endpoints[i] \in Heard
    BY <1>1
  <2> QED BY <2>1 DEF Places, Heard
<1> QED BY <1>1, <1>2, <1>3, <1>4

\* A route that is learned adds its address, and changes nothing but routes.
LEMMA RouteIsLearned ==
  ASSUME NEW r, NEW t \in Nat, t = now, Sound(r, t), NEW e \in Endpoints, NullsAssumption,
         NEW s, s = RecordEndpoint(r, e)
  PROVE  /\ Sound(s, t) /\ Places(s) = Places(r) \cup {e}
         /\ s.primary = IF e \in Places(r) /\ r.primary # NoEndpoint THEN r.primary ELSE e
         /\ s.state = r.state /\ s.lastSeen = r.lastSeen /\ s.heartbeat = r.heartbeat
<1> DEFINE eps == r.endpoints
<1>1. /\ eps \in Seq(Heard) /\ Len(eps) \in Nat /\ DOMAIN eps = 1..Len(eps)
      /\ \A i \in 1..Len(eps) : eps[i] \in Heard
      /\ r \in Record
  BY DEF Sound, Record
<1>2. Knows(r, e) <=> e \in Places(r)
  BY <1>1, KnownPlaces
<1>3. CASE Knows(r, e)
  <2> DEFINE new == [i \in 1..Len(eps) |-> IF i \in At(r, e) THEN [eps[i] EXCEPT !.lastSeen = now] ELSE eps[i]]
  <2>1. \A i \in 1..Len(eps) : /\ new[i] \in Heard /\ new[i].at = eps[i].at
                               /\ new[i].lastSeen = t \/ new[i].lastSeen = eps[i].lastSeen
    BY <1>1 DEF Heard
  <2>2. new \in Seq(Heard) /\ Len(new) = Len(eps)
    <3>1. new \in [1..Len(eps) -> Heard]
      BY <2>1
    <3> HIDE DEF new
    <3> QED BY <1>1, <3>1
  <2>3. s = [r EXCEPT !.endpoints = new, !.primary = IF @ = NoEndpoint THEN e ELSE @]
    BY <1>3 DEF RecordEndpoint
  <2> HIDE DEF new
  <2>4. /\ s \in Record /\ s.endpoints = new
        /\ s.primary = IF r.primary # NoEndpoint THEN r.primary ELSE e
        /\ s.state = r.state /\ s.lastSeen = r.lastSeen /\ s.heartbeat = r.heartbeat
    BY <1>1, <2>2, <2>3 DEF Record
  <2>5. Sound(s, t)
    BY <1>1, <2>1, <2>2, <2>4 DEF Sound
  <2>6. Places(s) = Places(r)
    BY <2>1, <2>2, <2>4 DEF Places
  <2> QED BY <1>2, <1>3, <2>4, <2>5, <2>6
<1>4. CASE ~Knows(r, e)
  <2> DEFINE item == [at |-> e, lastSeen |-> now]
             new == Append(eps, item)
  <2>1. item \in Heard /\ item.at = e /\ item.lastSeen = t
    BY DEF Heard
  <2>2. /\ new \in Seq(Heard) /\ Len(new) = Len(eps) + 1
        /\ \A i \in 1..Len(eps) : new[i] = eps[i]
        /\ new[Len(eps) + 1] = item
    <3> HIDE DEF item
    <3> QED BY <1>1, <2>1, AppendProperties
  <2>3. s = [r EXCEPT !.endpoints = new, !.primary = e]
    BY <1>4 DEF RecordEndpoint
  <2> HIDE DEF new, item
  <2>4. /\ s \in Record /\ s.endpoints = new /\ s.primary = e
        /\ s.state = r.state /\ s.lastSeen = r.lastSeen /\ s.heartbeat = r.heartbeat
    BY <1>1, <2>2, <2>3 DEF Record
  <2>5. \A i \in 1..Len(eps) : eps[i].at # e
    BY <1>2, <1>4 DEF Places
  <2>6. \A i \in 1..Len(new) : i \in 1..Len(eps) \/ i = Len(eps) + 1
    BY <1>1, <2>2
  <2>7. Sound(s, t)
    <3>1. \A i \in 1..Len(new) : new[i].lastSeen <= t
      BY <1>1, <2>1, <2>2, <2>6 DEF Sound
    <3>2. \A i, j \in 1..Len(new) : new[i].at = new[j].at => i = j
      BY <1>1, <2>1, <2>2, <2>5, <2>6 DEF Sound
    <3> QED BY <2>4, <3>1, <3>2 DEF Sound
  <2>8. Places(s) = Places(r) \cup {e}
    <3>1. \A i \in 1..Len(eps) : i \in 1..Len(new)
      BY <1>1, <2>2
    <3>2. Len(eps) + 1 \in 1..Len(new)
      BY <1>1, <2>2
    <3> QED BY <2>1, <2>2, <2>4, <2>6, <3>1, <3>2 DEF Places
  <2> QED BY <1>2, <1>4, <2>4, <2>7, <2>8
<1> QED BY <1>3, <1>4

\* Deleting a position closes the gap.
LEMMA RemovalShifts ==
  ASSUME NEW T, NEW s \in Seq(T), NEW k \in 1..Len(s)
  PROVE  /\ RemoveAt(s, k) \in Seq(T) /\ Len(RemoveAt(s, k)) = Len(s) - 1
         /\ \A j \in 1..(Len(s) - 1) : RemoveAt(s, k)[j] = s[IF j < k THEN j ELSE j + 1]
<1> DEFINE left == SubSeq(s, 1, k - 1)
           right == SubSeq(s, k + 1, Len(s))
<1>1. Len(s) \in Nat /\ k \in Nat /\ 1 <= k /\ k <= Len(s) /\ \A j \in 1..Len(s) : s[j] \in T
  OBVIOUS
<1>2. left \in Seq(T) /\ Len(left) = k - 1 /\ \A j \in 1..(k - 1) : left[j] = s[j]
  BY <1>1, SubSeqProperties
<1>3. right \in Seq(T) /\ Len(right) = Len(s) - k /\ \A j \in 1..(Len(s) - k) : right[j] = s[k + j]
  <2>1. \A j \in (k + 1)..Len(s) : s[j] \in T
    BY <1>1
  <2>2. /\ right \in Seq(T)
        /\ Len(right) = IF k + 1 <= Len(s) THEN Len(s) - (k + 1) + 1 ELSE 0
        /\ \A j \in 1..(Len(s) - (k + 1) + 1) : right[j] = s[(k + 1) + j - 1]
    BY <1>1, <2>1, SubSeqProperties
  <2> QED BY <1>1, <2>2
<1>4. RemoveAt(s, k) = left \o right
  BY DEF RemoveAt
<1> HIDE DEF left, right
<1>5. /\ left \o right \in Seq(T) /\ Len(left \o right) = Len(left) + Len(right)
      /\ \A j \in 1..(Len(left) + Len(right)) :
           (left \o right)[j] = IF j <= Len(left) THEN left[j] ELSE right[j - Len(left)]
  BY <1>2, <1>3, ConcatProperties
<1>6. Len(left) + Len(right) = Len(s) - 1
  BY <1>1, <1>2, <1>3
<1>7. ASSUME NEW j \in 1..(Len(s) - 1) PROVE (left \o right)[j] = s[IF j < k THEN j ELSE j + 1]
  <2>1. CASE j < k
    BY <1>1, <1>2, <1>5, <1>6, <2>1
  <2>2. CASE ~(j < k)
    <3>1. j - (k - 1) \in 1..(Len(s) - k) /\ k + (j - (k - 1)) = j + 1 /\ ~(j <= k - 1)
      BY <1>1, <2>2
    <3>2. right[j - (k - 1)] = s[k + (j - (k - 1))]
      BY <1>3, <3>1
    <3>3. (left \o right)[j] = right[j - (k - 1)]
      BY <1>2, <1>5, <1>6, <3>1
    <3> QED BY <2>2, <3>1, <3>2, <3>3
  <2> QED BY <2>1, <2>2
<1> QED BY <1>4, <1>5, <1>6, <1>7

\* A set of numbers has a least one.
LEMMA LeastExists ==
  ASSUME NEW T, T \subseteq Nat, T # {}
  PROVE  \E x \in T : \A y \in T : x <= y
<1>1. PICK x \in T : \A y \in T : ~(<<y, x>> \in OpToRel(<, Nat))
  BY WFMin, NatLessThanWellFounded
<1>2. \A y \in T : y < x => <<y, x>> \in OpToRel(<, Nat)
  BY <1>1 DEF OpToRel
<1>3. x \in T /\ \A y \in T : ~(y < x)
  BY <1>1, <1>2, Zenon
<1>4. \A y \in T : x <= y
  BY <1>3
<1> QED BY <1>3, <1>4, Zenon

\* What takes over is one of the addresses that are left, if any is.
LEMMA SuccessorIsLeft ==
  ASSUME NEW eps \in Seq(Heard), NEW t \in Nat, \A i \in 1..Len(eps) : eps[i].lastSeen <= t
  PROVE  IF eps = <<>> THEN NextPrimary(eps) = NoEndpoint
         ELSE \E i \in 1..Len(eps) : NextPrimary(eps) = eps[i].at
<1> DEFINE best == {i \in 1..Len(eps) : \A j \in 1..Len(eps) : eps[j].lastSeen <= eps[i].lastSeen}
<1>1. CASE eps = <<>>
  BY <1>1 DEF NextPrimary
<1>2. CASE eps # <<>>
  <2>0. \A i \in 1..Len(eps) : eps[i] \in Heard
    OBVIOUS
  <2>1. Len(eps) \in Nat \ {0} /\ \A i \in 1..Len(eps) : eps[i].lastSeen \in Nat
    BY <1>2, <2>0, EmptySeq DEF Heard
  <2> DEFINE ages == {t - eps[i].lastSeen : i \in 1..Len(eps)}
  <2>2. ages \subseteq Nat /\ ages # {}
    BY <2>1
  <2>3. PICK x \in ages : \A y \in ages : x <= y
    BY <2>2, LeastExists
  <2>4. PICK i \in 1..Len(eps) : x = t - eps[i].lastSeen
    OBVIOUS
  <2>5. \A j \in 1..Len(eps) : t - eps[i].lastSeen <= t - eps[j].lastSeen
    BY <2>3, <2>4
  <2>6. i \in best
    BY <2>1, <2>5
  <2>7. best \subseteq Nat
    BY <2>1
  <2>8. \E k \in best : \A j \in best : k <= j
    <3> HIDE DEF best
    <3> QED BY <2>6, <2>7, LeastExists
  <2> DEFINE k == CHOOSE k \in best : \A j \in best : k <= j
  <2>9. k \in best
    <3> HIDE DEF best
    <3> QED BY <2>8
  <2>10. NextPrimary(eps) = eps[k].at
    BY <1>2 DEF NextPrimary
  <2> QED BY <1>2, <2>9, <2>10
<1> QED BY <1>1, <1>2

\* A failed primary is dropped, and another address takes over if there is one.
LEMMA FailedIsDropped ==
  ASSUME NEW r, NEW t \in Nat, Sound(r, t), r.primary \in Places(r), NullsAssumption,
         NEW s, s = [r EXCEPT !.endpoints = WithoutPrimary(r), !.primary = NextPrimary(WithoutPrimary(r))]
  PROVE  /\ Sound(s, t) /\ Places(s) = Places(r) \ {r.primary}
         /\ IF Places(s) = {} THEN s.primary = NoEndpoint ELSE s.primary \in Places(s)
         /\ s.state = r.state /\ s.lastSeen = r.lastSeen /\ s.heartbeat = r.heartbeat
<1> DEFINE eps == r.endpoints
           k == CHOOSE i \in At(r, r.primary) : TRUE
           new == WithoutPrimary(r)
<1>1. /\ r \in Record /\ eps \in Seq(Heard) /\ Len(eps) \in Nat
      /\ Knows(r, r.primary)
  BY KnownPlaces DEF Sound
<1>2. k \in 1..Len(eps) /\ eps[k].at = r.primary
  <2>1. k \in At(r, r.primary)
    BY <1>1 DEF Knows
  <2> QED BY <2>1 DEF At
<1>3. new = RemoveAt(eps, k)
  BY <1>1 DEF WithoutPrimary
<1> HIDE DEF k, new
<1>4. /\ new \in Seq(Heard) /\ Len(new) = Len(eps) - 1
      /\ \A j \in 1..(Len(eps) - 1) : new[j] = eps[IF j < k THEN j ELSE j + 1]
  BY <1>1, <1>2, <1>3, RemovalShifts
<1>5. \A j \in 1..Len(new) : (IF j < k THEN j ELSE j + 1) \in 1..Len(eps)
  BY <1>1, <1>2, <1>4
<1>6. /\ \A i \in 1..Len(new) : new[i].lastSeen <= t
      /\ \A i, j \in 1..Len(new) : new[i].at = new[j].at => i = j
  <2>1. \A i \in 1..Len(new) : new[i].lastSeen <= t
    BY <1>4, <1>5 DEF Sound
  <2>2. ASSUME NEW i \in 1..Len(new), NEW j \in 1..Len(new), new[i].at = new[j].at PROVE i = j
    <3>1. (IF i < k THEN i ELSE i + 1) = (IF j < k THEN j ELSE j + 1)
      BY <1>4, <1>5, <2>2 DEF Sound
    <3> QED BY <1>1, <1>2, <1>4, <3>1
  <2> QED BY <2>1, <2>2
<1>7. IF new = <<>> THEN NextPrimary(new) = NoEndpoint ELSE \E i \in 1..Len(new) : NextPrimary(new) = new[i].at
  BY <1>4, <1>6, SuccessorIsLeft
<1>8. \A i \in 1..Len(new) : new[i].at \in Endpoints
  <2>1. \A i \in 1..Len(new) : new[i] \in Heard
    BY <1>4
  <2> QED BY <2>1 DEF Heard
<1>9. /\ s \in Record /\ s.endpoints = new /\ s.primary = NextPrimary(new)
      /\ s.state = r.state /\ s.lastSeen = r.lastSeen /\ s.heartbeat = r.heartbeat
  <2>1. s = [r EXCEPT !.endpoints = new, !.primary = NextPrimary(new)]
    BY DEF new
  <2>2. NextPrimary(new) \in Endpoints \cup {NoEndpoint}
    BY <1>7, <1>8
  <2> QED BY <1>1, <1>4, <2>1, <2>2 DEF Record
<1>10. Sound(s, t)
  BY <1>6, <1>9 DEF Sound
<1>11. Places(s) = Places(r) \ {r.primary}
  <2>1. \A i \in 1..Len(new) : new[i].at \in Places(r) \ {r.primary}
    <3> SUFFICES ASSUME NEW i \in 1..Len(new) PROVE new[i].at \in Places(r) \ {r.primary}
      OBVIOUS
    <3> DEFINE j == IF i < k THEN i ELSE i + 1
    <3>1. j \in 1..Len(eps) /\ j # k /\ new[i] = eps[j]
      BY <1>1, <1>2, <1>4, <1>5
    <3> HIDE DEF j
    <3>2. eps[j].at # r.primary
      BY <1>2, <3>1 DEF Sound
    <3> QED BY <3>1, <3>2 DEF Places
  <2>2. ASSUME NEW j \in 1..Len(eps), eps[j].at # r.primary PROVE \E i \in 1..Len(new) : new[i].at = eps[j].at
    <3> DEFINE i == IF j < k THEN j ELSE j - 1
    <3>1. i \in 1..Len(new) /\ (IF i < k THEN i ELSE i + 1) = j
      BY <1>1, <1>2, <1>4, <2>2
    <3> HIDE DEF i
    <3> QED BY <1>4, <3>1
  <2>3. Places(s) \subseteq Places(r) \ {r.primary}
    BY <1>9, <2>1 DEF Places
  <2>4. Places(r) \ {r.primary} \subseteq Places(s)
    BY <1>9, <2>2 DEF Places
  <2> QED BY <2>3, <2>4
<1>12. new = <<>> <=> Places(s) = {}
  BY <1>9, KnownPlaces
<1> QED BY <1>7, <1>9, <1>10, <1>11, <1>12 DEF Places

-----------------------------------------------------------------------------
(* The table's steps *)

\* What an incoming frame makes of a component's record.
LEMMA FrameIsFolded ==
  ASSUME Assumptions, PeerInv, NEW c \in Components, NEW name, NEW e \in Endpoints \cup {NoEndpoint},
         NEW s, s = Folded(Routed(c, e), name)
  PROVE  /\ Sound(s, now) /\ s.lastSeen = now
         /\ Places(s) = Places(Ensured(c)) \cup (IF LearnsRoute(c, e) THEN {e} ELSE {})
         /\ s.primary = IF LearnsRoute(c, e) /\ ~(e \in Places(Ensured(c)) /\ Ensured(c).primary # NoEndpoint)
                        THEN e ELSE Ensured(c).primary
         /\ s.heartbeat = IF name = "HEARTBEAT" THEN now ELSE Ensured(c).heartbeat
         /\ s.state = IF name = "HEARTBEAT" \/ Ensured(c).heartbeat = Never THEN "active" ELSE Ensured(c).state
<1> DEFINE r == Ensured(c)
           r0 == [r EXCEPT !.lastSeen = now]
           r1 == Routed(c, e)
<1>0. now \in Nat /\ Never \notin Nat
  BY DEF PeerInv, PeersTyped, Assumptions, NullsAssumption
<1>1. Sound(r, now)
  <2>1. Sound(record[c], now)
    BY DEF PeerInv, PeersTyped
  <2>2. Sound(Fresh, now)
    <3>1. Fresh \in Record /\ Fresh.endpoints = <<>> /\ Fresh.lastSeen = now /\ Fresh.heartbeat = Never
      BY <1>0, EmptySeq DEF Fresh, Record
    <3>2. 1..Len(<<>>) = {}
      OBVIOUS
    <3> QED BY <1>0, <3>1, <3>2 DEF Sound
  <2> QED BY <2>1, <2>2 DEF Ensured
<1> HIDE DEF r
<1>2. /\ Sound(r0, now) /\ Places(r0) = Places(r) /\ r0.primary = r.primary /\ r0.state = r.state
      /\ r0.heartbeat = r.heartbeat /\ r0.lastSeen = now
  <2>1. r0 \in Record /\ r0.endpoints = r.endpoints /\ r0.primary = r.primary /\ r0.state = r.state
        /\ r0.heartbeat = r.heartbeat /\ r0.lastSeen = now
    BY <1>0, <1>1 DEF Sound, Record
  <2> HIDE DEF r0
  <2> QED BY <1>0, <1>1, <2>1 DEF Sound, Places
<1>3. r1 = IF LearnsRoute(c, e) THEN RecordEndpoint(r0, e) ELSE r0
  BY DEF Routed, r
<1> HIDE DEF r0
<1>4. /\ Sound(r1, now) /\ r1.state = r.state /\ r1.heartbeat = r.heartbeat /\ r1.lastSeen = now
      /\ Places(r1) = Places(r) \cup (IF LearnsRoute(c, e) THEN {e} ELSE {})
      /\ r1.primary = IF LearnsRoute(c, e) /\ ~(e \in Places(r) /\ r.primary # NoEndpoint)
                      THEN e ELSE r.primary
  <2>1. CASE LearnsRoute(c, e)
    <3>1. e \in Endpoints
      BY <2>1 DEF LearnsRoute
    <3>2. /\ Sound(r1, now) /\ Places(r1) = Places(r0) \cup {e}
          /\ r1.primary = IF e \in Places(r0) /\ r0.primary # NoEndpoint THEN r0.primary ELSE e
          /\ r1.state = r0.state /\ r1.lastSeen = r0.lastSeen /\ r1.heartbeat = r0.heartbeat
      <4> HIDE DEF r1
      <4> QED BY <1>0, <1>2, <1>3, <2>1, <3>1, RouteIsLearned DEF Assumptions
    <3> HIDE DEF r1
    <3> QED BY <1>2, <2>1, <3>2
  <2>2. CASE ~LearnsRoute(c, e)
    <3> HIDE DEF r1
    <3> QED BY <1>2, <1>3, <2>2
  <2> QED BY <2>1, <2>2
<1>5. s = Folded(r1, name)
  OBVIOUS
<1> HIDE DEF r1
<1>6. r1 \in Record
  BY <1>4 DEF Sound
<1>7. /\ s \in Record /\ s.endpoints = r1.endpoints /\ s.primary = r1.primary /\ s.lastSeen = r1.lastSeen
      /\ s.heartbeat = IF name = "HEARTBEAT" THEN now ELSE r1.heartbeat
      /\ s.state = IF name = "HEARTBEAT" \/ r1.heartbeat = Never THEN "active" ELSE r1.state
  BY <1>0, <1>5, <1>6 DEF Folded, Record
<1>8. Places(s) = Places(r1)
  BY <1>7 DEF Places
<1>9. Sound(s, now)
  BY <1>0, <1>4, <1>7 DEF Sound
<1> QED BY <1>4, <1>7, <1>8, <1>9 DEF r

\* A component that is new was heard nowhere.
LEMMA NewIsFresh ==
  ASSUME NEW c, c \notin listed, Assumptions
  PROVE  /\ Ensured(c).state = "active" /\ Ensured(c).heartbeat = Never /\ Ensured(c).primary = NoEndpoint
         /\ Places(Ensured(c)) = {}
<1>1. Ensured(c) = Fresh
  BY DEF Ensured
<1>2. 1..Len(Fresh.endpoints) = {}
  BY DEF Fresh
<1> QED BY <1>1, <1>2 DEF Fresh, Places

\* A step that changes the record of one component.
LEMMA OneRecordChanges ==
  ASSUME PeerInv, NEW c \in Components, NEW s, record' = [record EXCEPT ![c] = s]
  PROVE  /\ record' = [d \in Components |-> record'[d]]
         /\ record'[c] = s /\ \A d \in Components \ {c} : record'[d] = record[d]
BY DEF PeerInv, PeersTyped

\* update() keeps the table true.
LEMMA UpdateKeeps ==
  ASSUME Assumptions, PeerInv, UNCHANGED acceptInvalid,
         NEW c \in Components, NEW name, NEW e \in Endpoints \cup {NoEndpoint}, Update(c, name, e)
  PROVE  PeerInv'
<1> DEFINE s == Folded(Routed(c, e), name)
           r == Ensured(c)
<1>1. /\ Sound(s, now) /\ s.lastSeen = now
      /\ Places(s) = Places(r) \cup (IF LearnsRoute(c, e) THEN {e} ELSE {})
      /\ s.primary = IF LearnsRoute(c, e) /\ ~(e \in Places(r) /\ r.primary # NoEndpoint)
                     THEN e ELSE r.primary
      /\ s.heartbeat = IF name = "HEARTBEAT" THEN now ELSE r.heartbeat
      /\ s.state = IF name = "HEARTBEAT" \/ r.heartbeat = Never THEN "active" ELSE r.state
  BY FrameIsFolded
<1> HIDE DEF s
<1>2. /\ record' = [d \in Components |-> record'[d]]
      /\ record'[c] = s /\ \A d \in Components \ {c} : record'[d] = record[d]
  BY OneRecordChanges DEF Update, s
<1>3. /\ listed' = listed \cup {c} /\ now' = now /\ lastSweep' = lastSweep
      /\ dead' = [dead EXCEPT ![c] = (IF c \in listed THEN @ ELSE {}) \ {e}]
      /\ unheard' = IF LearnsRoute(c, e) \/ c \notin listed THEN unheard \ {c} ELSE unheard
      /\ e = NoEndpoint => acceptInvalid
  BY DEF Update
<1>4. c \in listed => r = record[c]
  BY DEF Ensured
<1>5. c \notin listed => r.state = "active" /\ r.heartbeat = Never /\ r.primary = NoEndpoint /\ Places(r) = {}
  BY NewIsFresh
<1> HIDE DEF r
<1>6. /\ listed \subseteq Components /\ now \in Nat /\ lastSweep \in Nat /\ lastSweep <= now
      /\ dead \in [Components -> SUBSET Endpoints] /\ c.sysid \in Nat /\ NoEndpoint \notin Endpoints
      /\ Never \notin Nat /\ StaleAge \in Nat /\ ExpireAge \in Nat
  BY DEF PeerInv, PeersTyped, Assumptions, ComponentsAssumption, NullsAssumption, AgesAssumption
<1>7. PeersTyped'
  <2>1. \A d \in Components : Sound(record'[d], now')
    BY <1>1, <1>2, <1>3 DEF PeerInv, PeersTyped
  <2>2. dead' \in [Components -> SUBSET Endpoints]
    BY <1>3, <1>6
  <2> QED BY <1>2, <1>3, <2>1, <2>2 DEF PeerInv, PeersTyped
<1>8. RoutesAreKept'
  <2> SUFFICES ASSUME NEW d \in listed'
               PROVE  /\ record'[d].primary # NoEndpoint => record'[d].primary \in Places(record'[d])
                      /\ d \notin unheard' /\ Places(record'[d]) # {} => record'[d].primary # NoEndpoint
                      /\ Places(record'[d]) \cap dead'[d] = {}
                      /\ d.sysid >= GCS_SYSID_MIN => Places(record'[d]) = {}
    BY DEF RoutesAreKept, Places
  <2>1. CASE d # c
    BY <1>2, <1>3, <1>6, <2>1 DEF PeerInv, RoutesAreKept
  <2>2. CASE d = c
    <3>1. LearnsRoute(c, e) => e \in Endpoints /\ e # NoEndpoint /\ ~(c.sysid >= GCS_SYSID_MIN)
      BY <1>6 DEF LearnsRoute, GCS_SYSID_MIN
    <3>2. dead'[c] = (IF c \in listed THEN dead[c] ELSE {}) \ {e}
      BY <1>3, <1>6
    <3>3. c \in listed =>
            /\ r.primary # NoEndpoint => r.primary \in Places(r)
            /\ c \notin unheard /\ Places(r) # {} => r.primary # NoEndpoint
            /\ Places(r) \cap dead[c] = {}
            /\ c.sysid >= GCS_SYSID_MIN => Places(r) = {}
      BY <1>4 DEF PeerInv, RoutesAreKept
    <3> QED BY <1>1, <1>2, <1>3, <1>5, <2>2, <3>1, <3>2, <3>3
  <2> QED BY <2>1, <2>2
<1>9. AgesAreKept'
  <2>1. now' - lastSweep' <= SweepPeriod
    BY <1>3 DEF PeerInv, AgesAreKept
  <2> SUFFICES ASSUME NEW d \in listed'
               PROVE  /\ lastSweep' - FreshnessRef(record'[d]) <= ExpireAge
                      /\ lastSweep' - FreshnessRef(record'[d]) > StaleAge => record'[d].state = "stale"
    BY <2>1 DEF AgesAreKept, FreshnessRef
  <2>2. CASE d # c
    BY <1>2, <1>3, <1>6, <2>2 DEF PeerInv, AgesAreKept
  <2>3. CASE d = c /\ (name = "HEARTBEAT" \/ r.heartbeat = Never)
    <3>1. FreshnessRef(s) = now
      BY <1>1, <1>6, <2>3 DEF FreshnessRef
    <3> QED BY <1>2, <1>3, <1>6, <2>3, <3>1
  <2>4. CASE d = c /\ ~(name = "HEARTBEAT" \/ r.heartbeat = Never)
    <3>1. c \in listed /\ r = record[c]
      BY <1>4, <1>5, <2>4
    <3>2. FreshnessRef(s) = FreshnessRef(r) /\ s.state = r.state
      BY <1>1, <2>4 DEF FreshnessRef
    <3> QED BY <1>2, <1>3, <2>4, <3>1, <3>2 DEF PeerInv, AgesAreKept
  <2> QED BY <2>2, <2>3, <2>4
<1>10. StaleUntilRerouted'
  <2> SUFFICES ASSUME ~acceptInvalid', NEW d \in listed' \cap unheard', d.sysid < GCS_SYSID_MIN
               PROVE  record'[d].state = "stale" /\ record'[d].primary = NoEndpoint
    BY DEF StaleUntilRerouted
  <2>1. d # c
    BY <1>3 DEF LearnsRoute
  <2> QED BY <1>2, <1>3, <1>6, <2>1 DEF PeerInv, StaleUntilRerouted
<1> QED BY <1>7, <1>8, <1>9, <1>10 DEF PeerInv

\* A failover keeps the table true: what failed is not listed again.
LEMMA FailureKeeps ==
  ASSUME Assumptions, PeerInv, UNCHANGED acceptInvalid, NEW c \in Components, MarkPrimaryFailed(c)
  PROVE  PeerInv'
<1> DEFINE r == record[c]
           s == [r EXCEPT !.endpoints = WithoutPrimary(r), !.primary = NextPrimary(WithoutPrimary(r))]
<1>1. /\ listed \subseteq Components /\ now \in Nat /\ NullsAssumption /\ Sound(r, now) /\ c \in listed
      /\ dead \in [Components -> SUBSET Endpoints] /\ r.primary # NoEndpoint
      /\ UNCHANGED <<listed, now, lastSweep, unheard>>
      /\ dead' = [dead EXCEPT ![c] = @ \cup {r.primary}]
  BY DEF PeerInv, PeersTyped, Assumptions, MarkPrimaryFailed
<1>2. r.primary \in Places(r) /\ Places(r) \subseteq Endpoints
  BY <1>1, KnownPlaces DEF PeerInv, RoutesAreKept, Sound
<1>3. record' = [record EXCEPT ![c] = s]
  BY <1>1 DEF MarkPrimaryFailed, PeerInv, PeersTyped
<1>4. /\ Sound(s, now) /\ Places(s) = Places(r) \ {r.primary}
      /\ IF Places(s) = {} THEN s.primary = NoEndpoint ELSE s.primary \in Places(s)
      /\ s.state = r.state /\ s.lastSeen = r.lastSeen /\ s.heartbeat = r.heartbeat
  <2> HIDE DEF r
  <2> QED BY <1>1, <1>2, FailedIsDropped
<1> HIDE DEF s
<1>5. /\ record' = [d \in Components |-> record'[d]]
      /\ record'[c] = s /\ \A d \in Components \ {c} : record'[d] = record[d]
  BY <1>3, OneRecordChanges
<1>6. PeersTyped'
  <2>1. \A d \in Components : Sound(record'[d], now')
    BY <1>1, <1>4, <1>5 DEF PeerInv, PeersTyped
  <2>2. dead' \in [Components -> SUBSET Endpoints]
    BY <1>1, <1>2
  <2> QED BY <1>1, <1>5, <2>1, <2>2 DEF PeerInv, PeersTyped
<1>7. RoutesAreKept'
  <2> SUFFICES ASSUME NEW d \in listed'
               PROVE  /\ record'[d].primary # NoEndpoint => record'[d].primary \in Places(record'[d])
                      /\ d \notin unheard' /\ Places(record'[d]) # {} => record'[d].primary # NoEndpoint
                      /\ Places(record'[d]) \cap dead'[d] = {}
                      /\ d.sysid >= GCS_SYSID_MIN => Places(record'[d]) = {}
    BY DEF RoutesAreKept, Places
  <2>1. CASE d # c
    BY <1>1, <1>5, <2>1 DEF PeerInv, RoutesAreKept
  <2>2. CASE d = c
    <3>1. /\ dead'[c] = dead[c] \cup {r.primary} /\ Places(r) \cap dead[c] = {}
          /\ c.sysid >= GCS_SYSID_MIN => Places(r) = {}
      BY <1>1 DEF PeerInv, RoutesAreKept
    <3>2. NoEndpoint \notin Places(s)
      BY <1>1, <1>2, <1>4 DEF NullsAssumption
    <3> HIDE DEF r
    <3> QED BY <1>4, <1>5, <2>2, <3>1, <3>2
  <2> QED BY <2>1, <2>2
<1>8. AgesAreKept'
  <2>1. \A d \in listed : FreshnessRef(record'[d]) = FreshnessRef(record[d]) /\ record'[d].state = record[d].state
    BY <1>1, <1>4, <1>5 DEF FreshnessRef
  <2> QED BY <1>1, <2>1 DEF PeerInv, AgesAreKept, FreshnessRef
<1>9. StaleUntilRerouted'
  BY <1>1, <1>5 DEF PeerInv, StaleUntilRerouted
<1> QED BY <1>6, <1>7, <1>8, <1>9 DEF PeerInv

\* A reconnect keeps it: routes go, addresses stay.
LEMMA DemotionKeeps ==
  ASSUME Assumptions, PeerInv, UNCHANGED acceptInvalid, DemoteEndpoints
  PROVE  PeerInv'
<1>1. \A c \in listed :
        /\ record'[c] = Demoted(record[c]) /\ Sound(record'[c], now)
        /\ record'[c].state = "stale" /\ record'[c].primary = NoEndpoint
        /\ Places(record'[c]) = Places(record[c]) /\ FreshnessRef(record'[c]) = FreshnessRef(record[c])
  <2> SUFFICES ASSUME NEW c \in listed, NEW s, s = Demoted(record[c])
               PROVE  /\ Sound(s, now) /\ s.state = "stale" /\ s.primary = NoEndpoint
                      /\ Places(s) = Places(record[c]) /\ FreshnessRef(s) = FreshnessRef(record[c])
    BY DEF DemoteEndpoints, PeerInv, PeersTyped
  <2>1. Sound(record[c], now)
    BY DEF PeerInv, PeersTyped
  <2>2. /\ s \in Record /\ s.state = "stale" /\ s.primary = NoEndpoint /\ s.endpoints = record[c].endpoints
        /\ s.lastSeen = record[c].lastSeen /\ s.heartbeat = record[c].heartbeat
    BY <2>1 DEF Sound, Demoted, Record
  <2> QED BY <2>1, <2>2 DEF Sound, Places, FreshnessRef
<1>2. /\ record' = [c \in Components |-> record'[c]]
      /\ \A c \in Components \ listed : record'[c] = record[c]
      /\ UNCHANGED <<listed, now, lastSweep, dead>> /\ unheard' = listed
  BY DEF DemoteEndpoints
<1>3. PeersTyped'
  BY <1>1, <1>2 DEF PeerInv, PeersTyped
<1>4. RoutesAreKept'
  <2> SUFFICES ASSUME NEW c \in listed
               PROVE  /\ record'[c].primary = NoEndpoint /\ c \in unheard'
                      /\ Places(record'[c]) \cap dead'[c] = {}
                      /\ c.sysid >= GCS_SYSID_MIN => Places(record'[c]) = {}
    BY <1>2 DEF RoutesAreKept, Places
  <2> QED BY <1>1, <1>2 DEF PeerInv, RoutesAreKept
<1>5. AgesAreKept'
  BY <1>1, <1>2 DEF PeerInv, AgesAreKept, FreshnessRef
<1>6. StaleUntilRerouted'
  BY <1>1, <1>2 DEF StaleUntilRerouted
<1> QED BY <1>3, <1>4, <1>5, <1>6 DEF PeerInv

\* A sweep keeps it: what is left is not expired, and marked where it is stale.
LEMMA SweepKeeps ==
  ASSUME Assumptions, PeerInv, UNCHANGED acceptInvalid, Sweep
  PROVE  PeerInv'
<1>1. \A c \in listed' :
        /\ record'[c] = Swept(record[c]) /\ Sound(record'[c], now)
        /\ record'[c].state = "stale" \/ (Age(record[c]) <= StaleAge /\ record'[c].state = record[c].state)
        /\ record[c].state = "stale" => record'[c].state = "stale"
        /\ record'[c].primary = record[c].primary
        /\ Places(record'[c]) = Places(record[c]) /\ FreshnessRef(record'[c]) = FreshnessRef(record[c])
  <2> SUFFICES ASSUME NEW c \in listed, NEW s, s = Swept(record[c])
               PROVE  /\ Sound(s, now) /\ s.primary = record[c].primary
                      /\ s.state = "stale" \/ (Age(record[c]) <= StaleAge /\ s.state = record[c].state)
                      /\ record[c].state = "stale" => s.state = "stale"
                      /\ Places(s) = Places(record[c]) /\ FreshnessRef(s) = FreshnessRef(record[c])
    BY DEF Sweep, PeerInv, PeersTyped
  <2>1. Sound(record[c], now) /\ now \in Nat /\ Never \notin Nat /\ StaleAge \in Nat
    BY DEF PeerInv, PeersTyped, Assumptions, NullsAssumption, AgesAssumption
  <2>2. Age(record[c]) \in Int
    BY <2>1 DEF Sound, Record, Age, FreshnessRef
  <2>3. CASE Age(record[c]) > StaleAge
    <3>1. /\ s \in Record /\ s.state = "stale" /\ s.primary = record[c].primary
          /\ s.endpoints = record[c].endpoints
          /\ s.lastSeen = record[c].lastSeen /\ s.heartbeat = record[c].heartbeat
      BY <2>1, <2>3 DEF Sound, Swept, Record
    <3>2. Sound(s, now)
      BY <2>1, <3>1 DEF Sound
    <3>3. Places(s) = Places(record[c]) /\ FreshnessRef(s) = FreshnessRef(record[c])
      BY <3>1 DEF Places, FreshnessRef
    <3> QED BY <3>1, <3>2, <3>3
  <2>4. CASE ~(Age(record[c]) > StaleAge)
    <3>1. s = record[c]
      BY <2>4 DEF Swept
    <3> QED BY <2>1, <2>2, <2>4, <3>1
  <2> QED BY <2>3, <2>4
<1>2. /\ record' = [c \in Components |-> record'[c]]
      /\ \A c \in Components \ listed' : record'[c] = record[c]
      /\ listed' = {c \in listed : Age(record[c]) <= ExpireAge}
      /\ UNCHANGED <<now, dead>> /\ unheard' = unheard \cap listed' /\ lastSweep' = now
  BY DEF Sweep
<1>3. PeersTyped'
  BY <1>1, <1>2 DEF PeerInv, PeersTyped
<1>4. RoutesAreKept'
  <2> SUFFICES ASSUME NEW c \in listed'
               PROVE  /\ record'[c].primary # NoEndpoint => record'[c].primary \in Places(record'[c])
                      /\ c \notin unheard' /\ Places(record'[c]) # {} => record'[c].primary # NoEndpoint
                      /\ Places(record'[c]) \cap dead'[c] = {}
                      /\ c.sysid >= GCS_SYSID_MIN => Places(record'[c]) = {}
    BY DEF RoutesAreKept, Places
  <2> QED BY <1>1, <1>2 DEF PeerInv, RoutesAreKept
<1>5. AgesAreKept'
  <2>1. now' - lastSweep' <= SweepPeriod
    BY <1>2 DEF PeerInv, PeersTyped, Assumptions, AgesAssumption
  <2> SUFFICES ASSUME NEW c \in listed'
               PROVE  /\ lastSweep' - FreshnessRef(record'[c]) <= ExpireAge
                      /\ lastSweep' - FreshnessRef(record'[c]) > StaleAge => record'[c].state = "stale"
    BY <2>1 DEF AgesAreKept, FreshnessRef
  <2>2. Sound(record[c], now) /\ now \in Nat /\ Never \notin Nat /\ StaleAge \in Nat
    BY <1>2 DEF PeerInv, PeersTyped, Assumptions, NullsAssumption, AgesAssumption
  <2>3. FreshnessRef(record[c]) \in Nat
    BY <2>2 DEF Sound, Record, FreshnessRef
  <2> QED BY <1>1, <1>2, <2>2, <2>3 DEF Age
<1>6. StaleUntilRerouted'
  BY <1>1, <1>2 DEF PeerInv, StaleUntilRerouted
<1> QED BY <1>3, <1>4, <1>5, <1>6 DEF PeerInv

\* Time keeps it, until a sweep is due.
LEMMA TickKeeps ==
  ASSUME Assumptions, PeerInv, UNCHANGED acceptInvalid, Tick
  PROVE  PeerInv'
<1>1. /\ UNCHANGED <<listed, record, lastSweep, dead, unheard>> /\ now' = now + 1 /\ now \in Nat /\ lastSweep \in Nat
      /\ now - lastSweep < SweepPeriod /\ SweepPeriod \in Nat /\ Never \notin Nat
  BY DEF Tick, PeerInv, PeersTyped, Assumptions, AgesAssumption, NullsAssumption
<1>2. \A c \in Components : Sound(record[c], now + 1)
  <2> SUFFICES ASSUME NEW c \in Components PROVE Sound(record[c], now + 1)
    OBVIOUS
  <2>1. Sound(record[c], now)
    BY DEF PeerInv, PeersTyped
  <2>2. \A i \in 1..Len(record[c].endpoints) : record[c].endpoints[i].lastSeen \in Nat
    <3>1. record[c].endpoints \in Seq(Heard)
      BY <2>1 DEF Sound, Record
    <3>2. \A i \in 1..Len(record[c].endpoints) : record[c].endpoints[i] \in Heard
      BY <3>1
    <3> QED BY <3>2 DEF Heard
  <2>3. record[c].lastSeen \in Nat /\ (record[c].heartbeat # Never => record[c].heartbeat \in Nat)
    BY <2>1 DEF Sound, Record
  <2> QED BY <1>1, <2>1, <2>2, <2>3 DEF Sound
<1>3. PeersTyped'
  BY <1>1, <1>2 DEF PeerInv, PeersTyped
<1>4. RoutesAreKept' /\ StaleUntilRerouted'
  <2>1. \A c : Places(record[c])' = Places(record[c])
    BY <1>1 DEF Places
  <2>2. RoutesAreKept'
    BY <1>1, <2>1 DEF PeerInv, RoutesAreKept
  <2>3. StaleUntilRerouted'
    BY <1>1 DEF PeerInv, StaleUntilRerouted
  <2> QED BY <2>2, <2>3
<1>5. AgesAreKept'
  BY <1>1 DEF PeerInv, AgesAreKept, FreshnessRef
<1> QED BY <1>3, <1>4, <1>5 DEF PeerInv

-----------------------------------------------------------------------------
(* The table *)

\* An empty table is true.
LEMMA PeersBegin == Assumptions /\ Init => PeerInv
<1> SUFFICES ASSUME Assumptions, Init PROVE PeerInv
  OBVIOUS
<1>1. Sound(Fresh, 0) /\ now = 0
  <2>1. /\ Fresh \in Record /\ Fresh.endpoints = <<>> /\ Fresh.lastSeen = 0 /\ Fresh.heartbeat = Never /\ now = 0
    BY EmptySeq DEF Init, Fresh, Record
  <2>2. 1..Len(<<>>) = {}
    OBVIOUS
  <2> QED BY <2>1, <2>2 DEF Sound
<1>2. PeersTyped
  BY <1>1 DEF Init, PeersTyped
<1> QED BY <1>2 DEF Init, PeerInv, RoutesAreKept, AgesAreKept, StaleUntilRerouted, Assumptions, AgesAssumption

\* The table stays true, whatever comes in, fails, reconnects, is swept or waits.
LEMMA PeersGoOn ==
  ASSUME Assumptions, PeerInv, [Next]_<<vars, acceptInvalid>>
  PROVE  PeerInv'
<1>1. ASSUME NEW c \in Components, NEW name, NEW e \in Endpoints \cup {NoEndpoint},
             Update(c, name, e), UNCHANGED acceptInvalid
      PROVE  PeerInv'
  BY <1>1, UpdateKeeps
<1>2. ASSUME NEW c \in Components, MarkPrimaryFailed(c), UNCHANGED acceptInvalid PROVE PeerInv'
  BY <1>2, FailureKeeps
<1>3. CASE DemoteEndpoints /\ UNCHANGED acceptInvalid
  BY <1>3, DemotionKeeps
<1>4. CASE Sweep /\ UNCHANGED acceptInvalid
  BY <1>4, SweepKeeps
<1>5. CASE Tick /\ UNCHANGED acceptInvalid
  BY <1>5, TickKeeps
<1>6. CASE UNCHANGED <<vars, acceptInvalid>>
  <2>1. UNCHANGED <<acceptInvalid, listed, record, now, lastSweep, dead, unheard>>
    BY <1>6 DEF vars
  <2>2. PeersTyped'
    BY <2>1 DEF PeerInv, PeersTyped
  <2>3. RoutesAreKept'
    <3>1. \A c : Places(record[c])' = Places(record[c])
      BY <2>1 DEF Places
    <3> QED BY <2>1, <3>1 DEF PeerInv, RoutesAreKept
  <2>4. AgesAreKept'
    BY <2>1 DEF PeerInv, AgesAreKept, FreshnessRef
  <2>5. StaleUntilRerouted'
    BY <2>1 DEF PeerInv, StaleUntilRerouted
  <2> QED BY <2>2, <2>3, <2>4, <2>5 DEF PeerInv
<1> QED BY <1>1, <1>2, <1>3, <1>4, <1>5, <1>6 DEF Next, Step

\* A true table routes soundly.
LEMMA PeersRoute == ASSUME Assumptions, PeerInv PROVE RoutesAreSound
<1>1. \A c \in Components : record[c] \in Record /\ Sound(record[c], now)
  BY DEF PeerInv, PeersTyped, Sound
<1>2. TypeOK
  <2>1. ASSUME NEW c \in Components
        PROVE  /\ record[c].state \in {"active", "stale"}
               /\ record[c].lastSeen \in 0..now
               /\ record[c].heartbeat \in (0..now) \cup {Never}
               /\ record[c].primary \in Endpoints \cup {NoEndpoint}
               /\ record[c].endpoints \in Seq([at : Endpoints, lastSeen : 0..now])
               /\ \A e \in Endpoints : \A i, j \in At(record[c], e) : i = j
    <3>1. record[c] \in Record /\ Sound(record[c], now) /\ now \in Nat
      BY <1>1 DEF PeerInv, PeersTyped
    <3>2. record[c].endpoints \in Seq(Heard)
      BY <3>1 DEF Record
    <3>3. \A i \in 1..Len(record[c].endpoints) : record[c].endpoints[i] \in [at : Endpoints, lastSeen : 0..now]
      <4>1. \A i \in 1..Len(record[c].endpoints) : record[c].endpoints[i] \in Heard
        BY <3>2
      <4> QED BY <3>1, <4>1 DEF Sound, Heard
    <3>4. record[c].endpoints \in Seq([at : Endpoints, lastSeen : 0..now])
      <4> DEFINE q == record[c].endpoints
                 U == [at : Endpoints, lastSeen : 0..now]
      <4>1. q \in Seq(Heard) /\ \A i \in 1..Len(q) : q[i] \in U
        BY <3>2, <3>3
      <4> HIDE DEF q, U
      <4>2. q \in Seq(U)
        BY <4>1, RetypedSeq
      <4> QED BY <4>2 DEF q, U
    <3>5. \A e \in Endpoints : \A i, j \in At(record[c], e) : i = j
      BY <3>1 DEF Sound, At
    <3> QED BY <3>1, <3>4, <3>5 DEF Sound, Record
  <2>2. /\ acceptInvalid \in BOOLEAN /\ listed \subseteq Components /\ dead \in [Components -> SUBSET Endpoints]
        /\ unheard \subseteq Components /\ now \in Nat /\ lastSweep \in 0..now
    BY DEF PeerInv, PeersTyped
  <2> QED BY <2>1, <2>2 DEF TypeOK
<1>3. \A c \in listed :
        /\ \A e : Knows(record[c], e) <=> e \in Places(record[c])
        /\ record[c].endpoints = <<>> <=> Places(record[c]) = {}
        /\ Places(record[c]) \subseteq Endpoints
        /\ dead[c] \subseteq Endpoints
  BY <1>1, KnownPlaces DEF PeerInv, PeersTyped
<1>4. RoutedWhenReachable
  BY <1>3 DEF RoutedWhenReachable, PeerInv, RoutesAreKept
<1>5. DeadAddressStaysDead
  <2> SUFFICES ASSUME NEW c \in listed PROVE record[c].primary \notin dead[c]
    BY DEF DeadAddressStaysDead
  <2>1. NoEndpoint \notin dead[c]
    BY <1>3 DEF Assumptions, NullsAssumption
  <2> QED BY <2>1 DEF PeerInv, RoutesAreKept
<1>6. BroadcastReachesVehicles
  <2>1. \A c \in listed : c.sysid >= GCS_SYSID_MIN => EndpointFor(c) = NoEndpoint
    BY <1>3 DEF EndpointFor, PeerInv, RoutesAreKept
  <2>2. \A c \in listed : c.sysid < GCS_SYSID_MIN \/ c.sysid >= GCS_SYSID_MIN
    BY DEF PeerInv, PeersTyped, Assumptions, ComponentsAssumption, GCS_SYSID_MIN
  <2> HIDE DEF EndpointFor
  <2> QED BY <2>1, <2>2 DEF BroadcastReachesVehicles, EndpointsForBroadcast
<1> QED BY <1>2, <1>4, <1>5, <1>6 DEF RoutesAreSound

\* A true table is of its time.
LEMMA PeersAge == ASSUME Assumptions, PeerInv PROVE FreshnessIsTrue
<1> SUFFICES ASSUME NEW c \in listed
             PROVE  /\ Silence(record[c]) <= ExpireAge + SweepPeriod
                    /\ Silence(record[c]) > StaleAge + SweepPeriod => record[c].state = "stale"
  BY DEF FreshnessIsTrue, FreshnessIsBounded, PeerInv
<1>1. Sound(record[c], now) /\ now \in Nat /\ lastSweep \in Nat
  BY DEF PeerInv, PeersTyped
<1>2. FreshnessRef(record[c]) \in Nat /\ Silence(record[c]) = now - FreshnessRef(record[c])
  BY <1>1 DEF Sound, Record, FreshnessRef, Silence
<1>3. StaleAge \in Nat /\ ExpireAge \in Nat /\ SweepPeriod \in Nat
  BY DEF Assumptions, AgesAssumption
<1>4. /\ now - lastSweep <= SweepPeriod
      /\ lastSweep - FreshnessRef(record[c]) <= ExpireAge
      /\ lastSweep - FreshnessRef(record[c]) > StaleAge => record[c].state = "stale"
  BY DEF PeerInv, AgesAreKept
<1> QED BY <1>1, <1>2, <1>3, <1>4

\* Whatever is heard, fails, is taken down or forgotten, and however often the link is
\* made again: routes exist where there is one to have, avoid what failed, and are those
\* of vehicles; and no component outlives its silence (peer-table.js:38-45, 137, 190-215).
THEOREM RoutesStaySound ==
  ASSUME Assumptions
  PROVE  Spec => [](RoutesAreSound /\ FreshnessIsTrue)
<1>1. Init => PeerInv
  BY PeersBegin
<1>2. PeerInv /\ [Next]_<<vars, acceptInvalid>> => PeerInv'
  BY PeersGoOn
<1>3. PeerInv => RoutesAreSound /\ FreshnessIsTrue
  BY PeersRoute, PeersAge
<1> QED BY <1>1, <1>2, <1>3, PTL DEF Spec

-----------------------------------------------------------------------------
(* The feed *)

FeedTyped ==
  /\ kind \in DOMAIN Carried /\ feed \in {"synced", "open", "closed"}
  /\ values \in [Components -> [Fields -> Readings \cup {Blank}]]
  /\ view = [c \in Components |-> view[c]] /\ \A c \in Components : view[c] \in Views(Fields) \cup {Blank}
  /\ lapsed \in [Components -> SUBSET {"state", "primary"}]

\* What a reconnect took back is still away until it is told.
LapsedIsTrue ==
  \A c \in listed :
    /\ "state" \in lapsed[c] => record[c].state = "stale"
    /\ record[c].primary = NoEndpoint /\ Places(record[c]) # {} => "primary" \in lapsed[c]

\* What a flow knows of a component is so.
KnowsOf(c) ==
  /\ view[c] # Blank <=> c \in listed
  /\ c \in listed =>
       /\ \A f \in Fields : view[c].values[f] \in {Blank, values[c][f]}
       /\ view[c].state = record[c].state \/ "state" \in lapsed[c]
            \/ (view[c].state = "stale" /\ record[c].heartbeat = Never)
       /\ view[c].primary = record[c].primary \/ "primary" \in lapsed[c] \/ Places(record[c]) = {}

FeedInv ==
  /\ PeerInv /\ FeedTyped /\ LapsedIsTrue
  /\ feed = "synced" => \A c \in Components : KnowsOf(c)

FeedAssumptions == Assumptions /\ BlankAssumption

-----------------------------------------------------------------------------
(* What is told *)

\* An empty address list is one without places.
LEMMA EmptyIsPlaceless ==
  ASSUME PeerInv, NEW c \in Components
  PROVE  record[c].endpoints = <<>> <=> Places(record[c]) = {}
<1>1. record[c] \in Record
  BY DEF PeerInv, PeersTyped, Sound
<1> QED BY <1>1, KnownPlaces

\* A field's record keeps a flow right: one that knew the reading before knows the new one.
LEMMA FieldsStayTrue ==
  ASSUME NEW was, NEW is, NEW known \in {Blank, was}
  PROVE  Learns(known, was, is) \in {Blank, is}
BY DEF Learns, Changed

\* The view of a component after a frame, as its records tell it.
LEMMA FrameIsTold ==
  ASSUME NEW fields, NEW v \in Views(fields), fields = Fields,
         NEW c \in Components, NEW name, NEW e \in Endpoints \cup {NoEndpoint}, NEW readings,
         \A f \in DOMAIN readings : readings[f] \in Readings,
         \A f \in Fields : v.values[f] \in {Blank, Held(c)[f]},
         NEW w, w = FieldsTold(c, readings, HeartbeatTold(name, EndpointAdded(c, e, v)))
  PROVE  /\ w \in Views(fields)
         /\ w.state = IF name = "HEARTBEAT" THEN "active" ELSE v.state
         /\ w.primary = IF IsNew(c, e) THEN e ELSE v.primary
         /\ \A f \in Fields : w.values[f] \in {Blank, IF f \in DOMAIN readings THEN readings[f] ELSE Held(c)[f]}
<1> DEFINE v1 == EndpointAdded(c, e, v)
           v2 == HeartbeatTold(name, v1)
           new == [f \in Fields |-> IF f \in DOMAIN readings THEN Learns(v2.values[f], Held(c)[f], readings[f]) ELSE v2.values[f]]
<1>1. /\ v1 \in Views(fields) /\ v1.state = v.state /\ v1.values = v.values
      /\ v1.primary = IF IsNew(c, e) THEN e ELSE v.primary
  <2>1. e \in Endpoints \cup {NoEndpoint} /\ v \in Views(fields)
    OBVIOUS
  <2> QED BY <2>1 DEF EndpointAdded, Views
<1> HIDE DEF v1
<1>2. /\ v2 \in Views(fields) /\ v2.primary = v1.primary /\ v2.values = v1.values
      /\ v2.state = IF name = "HEARTBEAT" THEN "active" ELSE v1.state
  BY <1>1 DEF HeartbeatTold, Views
<1>3. w = [v2 EXCEPT !.values = new]
  BY DEF FieldsTold, v1
<1> HIDE DEF v2
<1>4. \A f \in Fields :
        /\ new[f] \in {Blank, IF f \in DOMAIN readings THEN readings[f] ELSE Held(c)[f]}
        /\ new[f] \in Readings \cup {Blank, Torn}
  <2> SUFFICES ASSUME NEW f \in Fields
               PROVE  /\ new[f] \in {Blank, IF f \in DOMAIN readings THEN readings[f] ELSE Held(c)[f]}
                      /\ new[f] \in Readings \cup {Blank, Torn}
    OBVIOUS
  <2>1. v2.values[f] \in {Blank, Held(c)[f]} /\ v2.values[f] \in Readings \cup {Blank, Torn}
    BY <1>1, <1>2 DEF Views
  <2>2. Learns(v2.values[f], Held(c)[f], readings[f]) \in {Blank, readings[f]}
    BY <2>1, FieldsStayTrue
  <2> QED BY <2>1, <2>2
<1>5. new \in [Fields -> Readings \cup {Blank, Torn}]
  BY <1>4
<1> HIDE DEF new
<1>6. w \in Views(fields) /\ w.values = new /\ w.state = v2.state /\ w.primary = v2.primary
  BY <1>2, <1>3, <1>5 DEF Views
<1> QED BY <1>1, <1>2, <1>4, <1>6

\* Every frame is told so that who knew the component knows it still.
LEMMA ReceivesKeeps ==
  ASSUME FeedAssumptions, FeedInv, UNCHANGED acceptInvalid,
         NEW c \in Components, NEW name, NEW e \in Endpoints \cup {NoEndpoint}, Receives(c, name, e)
  PROVE  FeedInv'
<1> DEFINE s == Folded(Routed(c, e), name)
           r == Ensured(c)
<1>1. Assumptions /\ PeerInv /\ Update(c, name, e) /\ UNCHANGED <<kind, feed>>
  BY DEF FeedAssumptions, FeedInv, Receives
<1>2. PeerInv'
  BY <1>1, UpdateKeeps
<1>3. /\ Sound(s, now) /\ Places(s) = Places(r) \cup (IF LearnsRoute(c, e) THEN {e} ELSE {})
      /\ s.primary = IF LearnsRoute(c, e) /\ ~(e \in Places(r) /\ r.primary # NoEndpoint) THEN e ELSE r.primary
      /\ s.heartbeat = IF name = "HEARTBEAT" THEN now ELSE r.heartbeat
      /\ s.state = IF name = "HEARTBEAT" \/ r.heartbeat = Never THEN "active" ELSE r.state
  BY <1>1, FrameIsFolded
<1>4. IsNew(c, e) <=> LearnsRoute(c, e) /\ e \notin Places(r)
  <2>1. r \in Record
    <3>1. record[c] \in Record
      BY <1>1 DEF PeerInv, PeersTyped, Sound
    <3>2. Fresh \in Record
      BY <1>1, EmptySeq DEF Fresh, Record, PeerInv, PeersTyped
    <3> QED BY <3>1, <3>2 DEF Ensured
  <2> HIDE DEF r
  <2>2. Knows(r, e) <=> e \in Places(r)
    BY <2>1, KnownPlaces
  <2> QED BY <2>2 DEF IsNew, r
<1> HIDE DEF s
<1>5. /\ record'[c] = s /\ \A d \in Components \ {c} : record'[d] = record[d]
      /\ listed' = listed \cup {c}
  BY <1>1, OneRecordChanges DEF Update, s
<1>6. /\ c \in listed => r = record[c]
      /\ c \notin listed => r.state = "active" /\ r.heartbeat = Never /\ r.primary = NoEndpoint /\ Places(r) = {}
      /\ r.state \in {"active", "stale"}
  <2>1. c \notin listed => r.state = "active" /\ r.heartbeat = Never /\ r.primary = NoEndpoint /\ Places(r) = {}
    BY <1>1, NewIsFresh
  <2>2. c \in listed => r = record[c]
    BY DEF Ensured
  <2>3. record[c].state \in {"active", "stale"}
    BY <1>1 DEF PeerInv, PeersTyped, Sound, Record
  <2> QED BY <2>1, <2>2, <2>3
<1>7. /\ Fields' = Fields /\ kind \in DOMAIN Carried /\ Blank \notin Views(Fields)
      /\ \A d \in Components : values[d] \in [Fields -> Readings \cup {Blank}]
      /\ \A d \in Components : view[d] \in Views(Fields) \cup {Blank}
      /\ lapsed \in [Components -> SUBSET {"state", "primary"}]
      /\ view = [d \in Components |-> view[d]] /\ values \in [Components -> [Fields -> Readings \cup {Blank}]]
  BY <1>1 DEF Fields, FeedInv, FeedTyped, FeedAssumptions, BlankAssumption
<1>8. Held(c) \in [Fields -> Readings \cup {Blank}] /\ (c \in listed => Held(c) = values[c])
      /\ (c \notin listed => \A f \in Fields : Held(c)[f] = Blank)
  BY <1>7 DEF Held, Nothing
<1>9. PICK readings \in [Carried[name] \cap Fields -> Readings] :
        /\ values' = [values EXCEPT ![c] = [f \in Fields |-> IF f \in DOMAIN readings THEN readings[f] ELSE Held(c)[f]]]
        /\ view' = IF feed # "synced" THEN view
                   ELSE [view EXCEPT ![c] =
                           FieldsTold(c, readings, HeartbeatTold(name, EndpointAdded(c, e, ComponentNew(c, @))))]
  BY DEF Receives
<1>10. \A f \in DOMAIN readings : readings[f] \in Readings
  OBVIOUS
<1>11. /\ values' \in [Components -> [Fields -> Readings \cup {Blank}]]
       /\ \A f \in Fields : values'[c][f] = IF f \in DOMAIN readings THEN readings[f] ELSE Held(c)[f]
       /\ \A d \in Components \ {c} : values'[d] = values[d]
  <2> DEFINE new == [f \in Fields |-> IF f \in DOMAIN readings THEN readings[f] ELSE Held(c)[f]]
  <2>1. new \in [Fields -> Readings \cup {Blank}]
    BY <1>8, <1>10
  <2>2. \A f \in Fields : new[f] = IF f \in DOMAIN readings THEN readings[f] ELSE Held(c)[f]
    OBVIOUS
  <2> HIDE DEF new
  <2>3. values' = [values EXCEPT ![c] = new]
    BY <1>9 DEF new
  <2> QED BY <1>7, <2>1, <2>2, <2>3
<1>12. /\ lapsed' \in [Components -> SUBSET {"state", "primary"}]
       /\ c \notin listed => lapsed'[c] = {}
       /\ c \in listed =>
            /\ "state" \in lapsed'[c] <=> "state" \in lapsed[c] /\ s.state # "active"
            /\ "primary" \in lapsed'[c] <=> "primary" \in lapsed[c] /\ ~IsNew(c, e)
       /\ \A d \in Components \ {c} : lapsed'[d] = lapsed[d]
  <2>1. lapsed' = [lapsed EXCEPT ![c] =
                     IF c \notin listed THEN {}
                     ELSE @ \ ((IF s.state = "active" THEN {"state"} ELSE {}) \cup
                               (IF IsNew(c, e) THEN {"primary"} ELSE {}))]
    BY <1>5 DEF Receives
  <2> QED BY <1>7, <2>1
<1>13. LapsedIsTrue'
  <2> SUFFICES ASSUME NEW d \in listed'
               PROVE  /\ "state" \in lapsed'[d] => record'[d].state = "stale"
                      /\ record'[d].primary = NoEndpoint /\ Places(record'[d]) # {} => "primary" \in lapsed'[d]
    BY DEF LapsedIsTrue, Places
  <2>1. CASE d # c
    BY <1>5, <1>12, <1>1, <2>1 DEF FeedInv, LapsedIsTrue, PeerInv, PeersTyped
  <2>2. CASE d = c
    <3>1. s.state \in {"active", "stale"}
      BY <1>3 DEF Sound, Record
    <3>2. LearnsRoute(c, e) => e # NoEndpoint
      BY DEF LearnsRoute
    <3>3. c \in listed /\ r.primary = NoEndpoint /\ Places(r) # {} => "primary" \in lapsed[c]
      BY <1>6 DEF FeedInv, LapsedIsTrue
    <3> HIDE DEF r
    <3> QED BY <1>3, <1>4, <1>5, <1>6, <1>12, <2>2, <3>1, <3>2, <3>3
  <2> QED BY <2>1, <2>2
<1>14. CASE feed # "synced"
  <2>1. view' = view /\ feed' = feed
    BY <1>1, <1>9, <1>14
  <2>2. FeedTyped'
    BY <1>1, <1>7, <1>11, <1>12, <2>1 DEF FeedInv, FeedTyped
  <2> QED BY <1>2, <1>13, <1>14, <2>1, <2>2 DEF FeedInv
<1>15. CASE feed = "synced"
  <2> DEFINE v == ComponentNew(c, view[c])
             w == FieldsTold(c, readings, HeartbeatTold(name, EndpointAdded(c, e, v)))
  <2>1. KnowsOf(c)
    BY <1>15 DEF FeedInv
  <2>2. v \in Views(Fields) /\ \A f \in Fields : v.values[f] \in {Blank, Held(c)[f]}
    <3>1. CASE c \in listed
      <4>1. v = view[c] /\ view[c] \in Views(Fields)
        BY <1>7, <2>1, <3>1 DEF ComponentNew, KnowsOf
      <4> QED BY <1>8, <2>1, <3>1, <4>1 DEF KnowsOf
    <3>2. CASE c \notin listed
      <4>1. v = [state |-> "active", primary |-> NoEndpoint, values |-> Nothing]
        BY <3>2 DEF ComponentNew
      <4>2. Nothing \in [Fields -> Readings \cup {Blank, Torn}] /\ \A f \in Fields : Nothing[f] = Blank
        BY DEF Nothing
      <4> QED BY <4>1, <4>2 DEF Views
    <3> QED BY <3>1, <3>2
  <2>3. /\ c \in listed => v = view[c]
        /\ c \notin listed => v.state = "active" /\ v.primary = NoEndpoint
    BY DEF ComponentNew
  <2> HIDE DEF v
  <2>4. /\ w \in Views(Fields)
        /\ w.state = IF name = "HEARTBEAT" THEN "active" ELSE v.state
        /\ w.primary = IF IsNew(c, e) THEN e ELSE v.primary
        /\ \A f \in Fields : w.values[f] \in {Blank, IF f \in DOMAIN readings THEN readings[f] ELSE Held(c)[f]}
    BY <1>10, <2>2, FrameIsTold
  <2>5. view' = [view EXCEPT ![c] = w]
    BY <1>9, <1>15 DEF v
  <2> HIDE DEF w
  <2>6. view' = [d \in Components |-> view'[d]] /\ view'[c] = w /\ \A d \in Components \ {c} : view'[d] = view[d]
    BY <1>7, <2>5
  <2>7. FeedTyped'
    BY <1>1, <1>7, <1>11, <1>12, <2>4, <2>6 DEF FeedInv, FeedTyped
  <2>8. ASSUME NEW d \in Components \ {c} PROVE KnowsOf(d)'
    <3>1. KnowsOf(d)
      BY <1>15 DEF FeedInv
    <3>2. view'[d] = view[d] /\ values'[d] = values[d] /\ record'[d] = record[d] /\ lapsed'[d] = lapsed[d]
          /\ (d \in listed' <=> d \in listed)
      BY <1>5, <1>11, <1>12, <2>6
    <3>3. Places(record[d])' = Places(record[d])
      BY <3>2 DEF Places
    <3> QED BY <1>7, <3>1, <3>2, <3>3 DEF KnowsOf
  <2>9. KnowsOf(c)'
    <3>1. w # Blank /\ c \in listed'
      BY <1>5, <1>7, <2>4
    <3>2. \A f \in Fields : w.values[f] \in {Blank, values'[c][f]}
      BY <1>11, <2>4
    <3>3. \/ w.state = s.state \/ "state" \in lapsed'[c]
          \/ (w.state = "stale" /\ s.heartbeat = Never)
      <4>1. w.state \in {"active", "stale"} /\ s.state \in {"active", "stale"}
        BY <1>3, <2>4 DEF Views, Sound, Record
      <4>2. c \in listed => r.state = record[c].state /\ r.heartbeat = record[c].heartbeat /\ v = view[c]
        BY <1>6, <2>3
      <4>3. c \in listed /\ "state" \in lapsed[c] => record[c].state = "stale"
        BY DEF FeedInv, LapsedIsTrue
      <4>4. c \in listed => view[c].state = record[c].state \/ "state" \in lapsed[c]
                              \/ (view[c].state = "stale" /\ record[c].heartbeat = Never)
        BY <2>1 DEF KnowsOf
      <4> HIDE DEF r
      <4>5. CASE name = "HEARTBEAT"
        BY <1>3, <2>4, <4>5
      <4>6. CASE name # "HEARTBEAT" /\ c \notin listed
        BY <1>3, <1>6, <2>3, <2>4, <4>6
      <4>7. CASE name # "HEARTBEAT" /\ c \in listed /\ r.heartbeat = Never
        BY <1>3, <2>4, <4>1, <4>7
      <4>8. CASE name # "HEARTBEAT" /\ c \in listed /\ r.heartbeat # Never
        BY <1>3, <1>12, <2>4, <4>1, <4>2, <4>3, <4>4, <4>8
      <4> QED BY <4>5, <4>6, <4>7, <4>8
    <3>4. w.primary = s.primary \/ "primary" \in lapsed'[c] \/ Places(s) = {}
      <4>1. c \in listed => r = record[c] /\ v = view[c]
        BY <1>6, <2>3
      <4>2. c \in listed => view[c].primary = record[c].primary \/ "primary" \in lapsed[c] \/ Places(record[c]) = {}
        BY <2>1 DEF KnowsOf
      <4>3. c \in listed /\ record[c].primary = NoEndpoint /\ Places(record[c]) # {} => "primary" \in lapsed[c]
        BY DEF FeedInv, LapsedIsTrue
      <4> HIDE DEF r
      <4>4. CASE IsNew(c, e)
        BY <1>3, <1>4, <2>4, <4>4
      <4>5. CASE ~IsNew(c, e) /\ c \notin listed
        BY <1>3, <1>4, <1>6, <2>3, <2>4, <4>5
      <4>6. CASE ~IsNew(c, e) /\ c \in listed
        BY <1>3, <1>4, <1>12, <2>4, <4>1, <4>2, <4>3, <4>6
      <4> QED BY <4>4, <4>5, <4>6
    <3>5. Places(record[c])' = Places(s)
      BY <1>5 DEF Places
    <3> QED BY <1>5, <1>7, <2>6, <3>1, <3>2, <3>3, <3>4, <3>5 DEF KnowsOf
  <2>10. \A d \in Components : KnowsOf(d)'
    BY <2>8, <2>9
  <2> QED BY <1>2, <1>13, <2>7, <2>10 DEF FeedInv
<1> QED BY <1>14, <1>15

\* The table's own part of a feed step, and what is left alone.
LEMMA FeedIsKept ==
  ASSUME FeedInv, PeerInv', UNCHANGED <<kind, values>>, feed' \in {"synced", "open", "closed"},
         view' = [c \in Components |-> view'[c]], \A c \in Components : view'[c] \in Views(Fields) \cup {Blank},
         lapsed' \in [Components -> SUBSET {"state", "primary"}],
         LapsedIsTrue', feed' = "synced" => \A c \in Components : KnowsOf(c)'
  PROVE  FeedInv'
<1>1. FeedTyped'
  BY DEF FeedInv, FeedTyped, Fields
<1> QED BY <1>1 DEF FeedInv

\* A failover is told, unless no address is left.
LEMMA FailureTellsTrue ==
  ASSUME FeedAssumptions, FeedInv, UNCHANGED acceptInvalid, NEW c \in Components, FailureTells(c)
  PROVE  FeedInv'
<1> DEFINE r == record[c]
           next == NextPrimary(WithoutPrimary(r))
           s == [r EXCEPT !.endpoints = WithoutPrimary(r), !.primary = next]
<1>1. /\ Assumptions /\ PeerInv /\ MarkPrimaryFailed(c) /\ UNCHANGED <<kind, values, feed, lapsed>>
      /\ view' = IF feed # "synced" \/ next = NoEndpoint THEN view ELSE [view EXCEPT ![c].primary = next]
  BY DEF FeedAssumptions, FeedInv, FailureTells
<1>2. PeerInv'
  BY <1>1, FailureKeeps
<1>3. /\ c \in listed /\ Sound(r, now) /\ now \in Nat /\ r.primary \in Places(r) /\ NullsAssumption
      /\ listed' = listed /\ listed \subseteq Components
  BY <1>1 DEF MarkPrimaryFailed, PeerInv, PeersTyped, RoutesAreKept, Assumptions
<1>4. record' = [record EXCEPT ![c] = s]
  BY <1>1 DEF MarkPrimaryFailed, PeerInv, PeersTyped
<1>5. /\ IF Places(s) = {} THEN s.primary = NoEndpoint ELSE s.primary \in Places(s)
      /\ s.state = r.state /\ s.heartbeat = r.heartbeat /\ Sound(s, now)
  <2> HIDE DEF r
  <2> QED BY <1>3, FailedIsDropped
<1>6. s.primary = next
  BY <1>3 DEF Sound, Record
<1> HIDE DEF s
<1>7. record'[c] = s /\ \A d \in Components \ {c} : record'[d] = record[d]
  BY <1>1, <1>4, OneRecordChanges
<1>8. Places(s) \subseteq Endpoints /\ NoEndpoint \notin Endpoints
  BY <1>3, <1>5, KnownPlaces DEF Sound, NullsAssumption
<1>9. LapsedIsTrue'
  <2> SUFFICES ASSUME NEW d \in listed
               PROVE  /\ "state" \in lapsed[d] => record'[d].state = "stale"
                      /\ record'[d].primary = NoEndpoint /\ Places(record'[d]) # {} => "primary" \in lapsed[d]
    BY <1>1, <1>3 DEF LapsedIsTrue, Places
  <2> QED BY <1>3, <1>5, <1>7, <1>8 DEF FeedInv, LapsedIsTrue
<1>10. /\ view = [d \in Components |-> view[d]] /\ \A d \in Components : view[d] \in Views(Fields) \cup {Blank}
       /\ Blank \notin Views(Fields) /\ Fields' = Fields
       /\ lapsed \in [Components -> SUBSET {"state", "primary"}] /\ feed \in {"synced", "open", "closed"}
  BY <1>1 DEF FeedInv, FeedTyped, FeedAssumptions, BlankAssumption, Fields
<1>11. ASSUME feed # "synced" \/ next = NoEndpoint PROVE FeedInv'
  <2>1. view' = view
    BY <1>1, <1>11
  <2>2. ASSUME feed = "synced", NEW d \in Components PROVE KnowsOf(d)'
    <3>1. KnowsOf(d) /\ next = NoEndpoint
      BY <1>11, <2>2 DEF FeedInv
    <3>2. CASE d # c
      <4>1. record'[d] = record[d] /\ Places(record[d])' = Places(record[d])
        BY <1>7, <3>2 DEF Places
      <4> QED BY <1>1, <1>3, <1>10, <2>1, <3>1, <4>1 DEF KnowsOf
    <3>3. CASE d = c
      <4>1. Places(record[c])' = {}
        BY <1>5, <1>6, <1>7, <1>8, <3>1 DEF Places
      <4>2. record'[c].state = record[c].state /\ record'[c].heartbeat = record[c].heartbeat
        BY <1>5, <1>7
      <4> HIDE DEF r
      <4> QED BY <1>1, <1>3, <1>10, <2>1, <3>1, <3>3, <4>1, <4>2 DEF KnowsOf
    <3> QED BY <3>2, <3>3
  <2> QED BY <1>1, <1>2, <1>9, <1>10, <2>1, <2>2, FeedIsKept
<1>12. ASSUME feed = "synced", next # NoEndpoint PROVE FeedInv'
  <2> DEFINE w == [view[c] EXCEPT !.primary = next]
  <2>1. view[c] \in Views(Fields) /\ KnowsOf(c)
    BY <1>3, <1>10, <1>12 DEF FeedInv, KnowsOf
  <2>2. next \in Endpoints
    BY <1>5, <1>6, <1>8, <1>12
  <2>3. w \in Views(Fields) /\ w.primary = next /\ w.state = view[c].state /\ w.values = view[c].values
    BY <2>1, <2>2 DEF Views
  <2>4. view' = [view EXCEPT ![c] = w]
    BY <1>1, <1>10, <1>12
  <2> HIDE DEF w
  <2>5. /\ view' = [d \in Components |-> view'[d]]
        /\ view'[c] = w /\ \A d \in Components \ {c} : view'[d] = view[d]
        /\ \A d \in Components : view'[d] \in Views(Fields) \cup {Blank}
    BY <1>10, <2>3, <2>4
  <2>6. ASSUME NEW d \in Components PROVE KnowsOf(d)'
    <3>1. KnowsOf(d)
      BY <1>12 DEF FeedInv
    <3>2. CASE d # c
      <4>1. record'[d] = record[d] /\ Places(record[d])' = Places(record[d]) /\ view'[d] = view[d]
        BY <1>7, <2>5, <3>2 DEF Places
      <4> QED BY <1>1, <1>3, <1>10, <3>1, <4>1 DEF KnowsOf
    <3>3. CASE d = c
      <4>1. /\ view'[c].primary = record'[c].primary /\ view'[c] # Blank
            /\ record'[c].state = record[c].state /\ record'[c].heartbeat = record[c].heartbeat
            /\ view'[c].state = view[c].state /\ view'[c].values = view[c].values
        BY <1>5, <1>6, <1>7, <1>10, <2>3, <2>5
      <4> HIDE DEF r
      <4> QED BY <1>1, <1>3, <1>10, <3>1, <3>3, <4>1 DEF KnowsOf
    <3> QED BY <3>2, <3>3
  <2> QED BY <1>1, <1>2, <1>9, <1>10, <2>5, <2>6, FeedIsKept
<1> QED BY <1>11, <1>12

\* A reconnect is not told, and is remembered as not told.
LEMMA ReconnectLapses ==
  ASSUME FeedAssumptions, FeedInv, UNCHANGED acceptInvalid, ReconnectIsSilent
  PROVE  FeedInv'
<1>1. /\ Assumptions /\ PeerInv /\ DemoteEndpoints /\ UNCHANGED <<kind, values, feed, view, listed>>
      /\ lapsed' = [c \in Components |-> IF c \in listed THEN {"state", "primary"} ELSE {}]
      /\ listed \subseteq Components
  BY DEF FeedAssumptions, FeedInv, ReconnectIsSilent, DemoteEndpoints, PeerInv, PeersTyped
<1>2. PeerInv'
  BY <1>1, DemotionKeeps
<1>3. lapsed' \in [Components -> SUBSET {"state", "primary"}] /\ \A c \in listed : lapsed'[c] = {"state", "primary"}
  BY <1>1
<1>4. \A c \in listed : record'[c].state = "stale"
  <2> SUFFICES ASSUME NEW c \in listed PROVE record'[c].state = "stale"
    OBVIOUS
  <2>1. record'[c] = Demoted(record[c]) /\ record[c] \in Record
    BY <1>1 DEF DemoteEndpoints, PeerInv, PeersTyped, Sound
  <2> QED BY <2>1 DEF Demoted, Record
<1>5. LapsedIsTrue'
  BY <1>1, <1>3, <1>4 DEF LapsedIsTrue
<1>6. feed = "synced" => \A c \in Components : KnowsOf(c)'
  <2> SUFFICES ASSUME feed = "synced", NEW c \in Components PROVE KnowsOf(c)'
    OBVIOUS
  <2>1. KnowsOf(c)
    BY DEF FeedInv
  <2>2. Fields' = Fields
    BY <1>1 DEF Fields
  <2> QED BY <1>1, <1>3, <2>1, <2>2 DEF KnowsOf
<1>7. view = [c \in Components |-> view[c]] /\ (\A c \in Components : view[c] \in Views(Fields) \cup {Blank})
      /\ feed \in {"synced", "open", "closed"}
  BY DEF FeedInv, FeedTyped
<1> QED BY <1>1, <1>2, <1>3, <1>5, <1>6, <1>7, FeedIsKept

\* A sweep tells what it marks and what it forgets.
LEMMA SweepTellsTrue ==
  ASSUME FeedAssumptions, FeedInv, UNCHANGED acceptInvalid, SweepTells
  PROVE  FeedInv'
<1>1. /\ Assumptions /\ PeerInv /\ Sweep /\ UNCHANGED <<kind, values, feed, lapsed>>
      /\ listed \subseteq Components /\ listed' = {c \in listed : Age(record[c]) <= ExpireAge}
  BY DEF FeedAssumptions, FeedInv, SweepTells, Sweep, PeerInv, PeersTyped
<1>2. PeerInv'
  BY <1>1, SweepKeeps
<1>3. \A c \in listed : Age(record[c]) \in Int /\ record[c] \in Record
  <2> SUFFICES ASSUME NEW c \in listed PROVE Age(record[c]) \in Int /\ record[c] \in Record
    OBVIOUS
  <2>1. Sound(record[c], now) /\ now \in Nat
    BY <1>1 DEF PeerInv, PeersTyped
  <2> QED BY <2>1 DEF Sound, Record, Age, FreshnessRef
<1>4. StaleAge \in Nat /\ ExpireAge \in Nat
  BY <1>1 DEF Assumptions, AgesAssumption
<1>5. \A c \in listed' :
        /\ record'[c].primary = record[c].primary /\ record'[c].heartbeat = record[c].heartbeat
        /\ Places(record[c])' = Places(record[c])
        /\ Age(record[c]) > StaleAge => record'[c].state = "stale"
        /\ ~(Age(record[c]) > StaleAge) => record'[c].state = record[c].state
  <2> SUFFICES ASSUME NEW c \in listed', NEW s, s = Swept(record[c])
               PROVE  /\ s.primary = record[c].primary /\ s.heartbeat = record[c].heartbeat
                      /\ s.endpoints = record[c].endpoints
                      /\ Age(record[c]) > StaleAge => s.state = "stale"
                      /\ ~(Age(record[c]) > StaleAge) => s.state = record[c].state
    BY <1>1 DEF Sweep, Places
  <2> QED BY <1>1, <1>3 DEF Swept, Record
<1>6. LapsedIsTrue'
  <2> SUFFICES ASSUME NEW c \in listed'
               PROVE  /\ "state" \in lapsed[c] => record'[c].state = "stale"
                      /\ record'[c].primary = NoEndpoint /\ Places(record[c])' # {} => "primary" \in lapsed[c]
    BY <1>1 DEF LapsedIsTrue
  <2> QED BY <1>1, <1>5 DEF FeedInv, LapsedIsTrue
<1>7. /\ view = [c \in Components |-> view[c]] /\ \A c \in Components : view[c] \in Views(Fields) \cup {Blank}
      /\ Blank \notin Views(Fields) /\ Fields' = Fields
      /\ lapsed \in [Components -> SUBSET {"state", "primary"}] /\ feed \in {"synced", "open", "closed"}
  BY <1>1 DEF FeedInv, FeedTyped, FeedAssumptions, BlankAssumption, Fields
<1>8. CASE feed # "synced"
  <2>1. view' = view
    BY <1>8 DEF SweepTells
  <2> QED BY <1>1, <1>2, <1>6, <1>7, <1>8, <2>1, FeedIsKept
<1>9. CASE feed = "synced"
  <2>1. view' = [c \in Components |->
                   IF c \notin listed THEN view[c]
                   ELSE IF Age(record[c]) > ExpireAge THEN Blank
                   ELSE IF Age(record[c]) > StaleAge /\ record[c].state # "stale"
                        THEN [view[c] EXCEPT !.state = "stale"] ELSE view[c]]
    BY <1>9 DEF SweepTells
  <2>2. \A c \in Components : KnowsOf(c)
    BY <1>9 DEF FeedInv
  <2>3. ASSUME NEW c \in Components
        PROVE  /\ view'[c] \in Views(Fields) \cup {Blank}
               /\ c \notin listed' => view'[c] = Blank
               /\ c \in listed' => /\ view'[c] # Blank /\ view'[c].primary = view[c].primary
                                   /\ view'[c].values = view[c].values
                                   /\ view'[c].state = IF Age(record[c]) > StaleAge /\ record[c].state # "stale"
                                                       THEN "stale" ELSE view[c].state
    <3>1. CASE c \notin listed
      BY <1>1, <1>7, <2>1, <2>2, <3>1 DEF KnowsOf
    <3>2. CASE c \in listed /\ Age(record[c]) > ExpireAge
      BY <1>1, <1>3, <1>4, <2>1, <3>2
    <3>3. CASE c \in listed /\ ~(Age(record[c]) > ExpireAge)
      <4>1. view[c] \in Views(Fields)
        BY <1>7, <2>2, <3>3 DEF KnowsOf
      <4>2. c \in listed'
        BY <1>1, <1>3, <1>4, <3>3
      <4>3. view'[c] = IF Age(record[c]) > StaleAge /\ record[c].state # "stale"
                       THEN [view[c] EXCEPT !.state = "stale"] ELSE view[c]
        BY <2>1, <3>3
      <4>4. view'[c] \in Views(Fields) /\ view'[c].primary = view[c].primary /\ view'[c].values = view[c].values
            /\ view'[c].state = IF Age(record[c]) > StaleAge /\ record[c].state # "stale" THEN "stale" ELSE view[c].state
        BY <4>1, <4>3 DEF Views
      <4> QED BY <1>7, <4>2, <4>4
    <3> QED BY <3>1, <3>2, <3>3
  <2>4. ASSUME NEW c \in Components PROVE KnowsOf(c)'
    <3>1. CASE c \notin listed'
      BY <2>3, <3>1 DEF KnowsOf
    <3>2. CASE c \in listed'
      <4>1. c \in listed /\ KnowsOf(c)
        BY <1>1, <2>2, <3>2
      <4>2. \/ view'[c].state = record'[c].state \/ "state" \in lapsed[c]
            \/ (view'[c].state = "stale" /\ record'[c].heartbeat = Never)
        BY <1>5, <2>3, <3>2, <4>1 DEF KnowsOf
      <4> QED BY <1>1, <1>5, <1>7, <2>3, <3>2, <4>1, <4>2 DEF KnowsOf
    <3> QED BY <3>1, <3>2
  <2>5. view' = [c \in Components |-> view'[c]]
    BY <2>1
  <2> QED BY <1>1, <1>2, <1>6, <1>7, <2>3, <2>4, <2>5, FeedIsKept
<1> QED BY <1>8, <1>9

\* A snapshot shows the table, and keeps in mind what it could not show.
LEMMA SnapshotIsTrue ==
  ASSUME FeedAssumptions, FeedInv, UNCHANGED acceptInvalid, Snapshot
  PROVE  FeedInv'
<1>1. /\ UNCHANGED <<listed, record, now, lastSweep, dead, unheard, kind, values>> /\ feed' = "synced"
      /\ view' = [c \in Components |->
                    IF c \in listed THEN [state |-> record[c].state, primary |-> record[c].primary, values |-> values[c]]
                    ELSE Blank]
      /\ lapsed' = [c \in Components |->
                      IF c \in listed /\ record[c].primary = NoEndpoint THEN lapsed[c] \cap {"primary"} ELSE {}]
  BY DEF Snapshot, vars
<1>2. PeerInv'
  <2>1. PeerInv /\ Assumptions
    BY DEF FeedInv, FeedAssumptions
  <2>2. UNCHANGED <<vars, acceptInvalid>>
    BY <1>1 DEF vars
  <2> QED BY <2>1, <2>2, PeersGoOn
<1>3. /\ Blank \notin Views(Fields) /\ Fields' = Fields /\ listed \subseteq Components
      /\ values \in [Components -> [Fields -> Readings \cup {Blank}]]
      /\ lapsed \in [Components -> SUBSET {"state", "primary"}]
      /\ \A c \in Components : record[c] \in Record
  BY <1>1 DEF FeedInv, FeedTyped, FeedAssumptions, BlankAssumption, Fields, PeerInv, PeersTyped, Sound
<1>4. ASSUME NEW c \in listed
      PROVE  /\ view'[c] \in Views(Fields) /\ view'[c].state = record[c].state
             /\ view'[c].primary = record[c].primary /\ view'[c].values = values[c]
  <2>1. view'[c] = [state |-> record[c].state, primary |-> record[c].primary, values |-> values[c]]
    BY <1>1, <1>3
  <2>2. values[c] \in [Fields -> Readings \cup {Blank, Torn}] /\ record[c].state \in {"active", "stale"}
        /\ record[c].primary \in Endpoints \cup {NoEndpoint}
    BY <1>3 DEF Record
  <2> QED BY <2>1, <2>2 DEF Views
<1>5. \A c \in Components : c \notin listed => view'[c] = Blank
  BY <1>1
<1>6. \A c \in Components : view'[c] \in Views(Fields) \cup {Blank}
  BY <1>4, <1>5
<1>7. /\ lapsed' \in [Components -> SUBSET {"state", "primary"}]
      /\ \A c \in listed : /\ "state" \notin lapsed'[c]
                           /\ "primary" \in lapsed[c] /\ record[c].primary = NoEndpoint => "primary" \in lapsed'[c]
  BY <1>1, <1>3
<1>8. LapsedIsTrue'
  <2>1. \A c : Places(record[c])' = Places(record[c])
    BY <1>1 DEF Places
  <2> QED BY <1>1, <1>7, <2>1 DEF LapsedIsTrue, FeedInv
<1>9. ASSUME NEW c \in Components PROVE KnowsOf(c)'
  BY <1>1, <1>3, <1>4, <1>5 DEF KnowsOf
<1>10. view' = [c \in Components |-> view'[c]]
  BY <1>1
<1> QED BY <1>1, <1>2, <1>6, <1>7, <1>8, <1>9, <1>10, FeedIsKept

\* A node that is closed or opened knows nothing, and the table lives on.
LEMMA ForgettingIsTrue ==
  ASSUME FeedAssumptions, FeedInv, UNCHANGED acceptInvalid, CloseFeed \/ OpenFeed
  PROVE  FeedInv'
<1>1. /\ UNCHANGED <<listed, record, now, lastSweep, dead, unheard, kind, values, lapsed>>
      /\ feed' \in {"open", "closed"} /\ view' = [c \in Components |-> Blank]
  BY DEF CloseFeed, OpenFeed, Forgets, vars
<1>2. PeerInv'
  <2>1. PeerInv /\ Assumptions
    BY DEF FeedInv, FeedAssumptions
  <2>2. UNCHANGED <<vars, acceptInvalid>>
    BY <1>1 DEF vars
  <2> QED BY <2>1, <2>2, PeersGoOn
<1>3. LapsedIsTrue'
  <2>1. \A c : Places(record[c])' = Places(record[c])
    BY <1>1 DEF Places
  <2> QED BY <1>1, <2>1 DEF LapsedIsTrue, FeedInv
<1>4. lapsed \in [Components -> SUBSET {"state", "primary"}] /\ feed' # "synced"
  BY <1>1 DEF FeedInv, FeedTyped
<1>5. view' = [c \in Components |-> view'[c]] /\ \A c \in Components : view'[c] \in Views(Fields) \cup {Blank}
  BY <1>1
<1> QED BY <1>1, <1>2, <1>3, <1>4, <1>5, FeedIsKept

\* What neither frame nor node moves is left as it was.
LEMMA WaitingIsTrue ==
  ASSUME FeedAssumptions, FeedInv, UNCHANGED acceptInvalid, TimePasses \/ UNCHANGED <<vars, feedVars>>
  PROVE  FeedInv'
<1>1. UNCHANGED <<listed, record, kind, values, feed, view, lapsed>>
  BY DEF TimePasses, Tick, vars, feedVars
<1>2. PeerInv'
  <2>1. PeerInv /\ Assumptions
    BY DEF FeedInv, FeedAssumptions
  <2> QED BY <2>1, PeersGoOn, TickKeeps DEF TimePasses
<1>3. \A c : Places(record[c])' = Places(record[c])
  BY <1>1 DEF Places
<1>4. LapsedIsTrue'
  BY <1>1, <1>3 DEF LapsedIsTrue, FeedInv
<1>5. feed = "synced" => \A c \in Components : KnowsOf(c)'
  <2>1. Fields' = Fields
    BY <1>1 DEF Fields
  <2> QED BY <1>1, <1>3, <2>1 DEF FeedInv, KnowsOf
<1>6. /\ view = [c \in Components |-> view[c]] /\ \A c \in Components : view[c] \in Views(Fields) \cup {Blank}
      /\ lapsed \in [Components -> SUBSET {"state", "primary"}] /\ feed \in {"synced", "open", "closed"}
  BY DEF FeedInv, FeedTyped
<1> QED BY <1>1, <1>2, <1>4, <1>5, <1>6, FeedIsKept

-----------------------------------------------------------------------------
(* What a flow knows *)

\* Nothing is listed and nothing is known.
LEMMA FeedBegins == FeedAssumptions /\ FeedInit => FeedInv
<1> SUFFICES ASSUME FeedAssumptions, FeedInit PROVE FeedInv
  OBVIOUS
<1>1. PeerInv /\ listed = {}
  BY PeersBegin DEF FeedInit, FeedAssumptions, Init
<1>2. FeedTyped
  BY DEF FeedTyped, FeedInit, Nothing, Fields
<1>3. LapsedIsTrue /\ \A c \in Components : KnowsOf(c)
  BY <1>1 DEF LapsedIsTrue, KnowsOf, FeedInit
<1> QED BY <1>1, <1>2, <1>3 DEF FeedInv

\* The feed stays true, whatever the table does and whenever the node is closed.
LEMMA FeedGoesOn ==
  ASSUME FeedAssumptions, FeedInv, [FeedNext]_<<acceptInvalid, vars, feedVars>>
  PROVE  FeedInv'
<1>1. CASE \E c \in Components, name \in {"HEARTBEAT", kind, "GLOBAL_POSITION_INT"}, e \in Endpoints \cup {NoEndpoint} :
             Receives(c, name, e) /\ UNCHANGED acceptInvalid
  BY <1>1, ReceivesKeeps
<1>2. CASE \E c \in Components : FailureTells(c) /\ UNCHANGED acceptInvalid
  BY <1>2, FailureTellsTrue
<1>3. CASE ReconnectIsSilent /\ UNCHANGED acceptInvalid
  BY <1>3, ReconnectLapses
<1>4. CASE SweepTells /\ UNCHANGED acceptInvalid
  BY <1>4, SweepTellsTrue
<1>5. CASE Snapshot /\ UNCHANGED acceptInvalid
  BY <1>5, SnapshotIsTrue
<1>6. CASE (CloseFeed \/ OpenFeed) /\ UNCHANGED acceptInvalid
  BY <1>6, ForgettingIsTrue
<1>7. CASE (TimePasses \/ UNCHANGED <<vars, feedVars>>) /\ UNCHANGED acceptInvalid
  BY <1>7, WaitingIsTrue
<1> QED BY <1>1, <1>2, <1>3, <1>4, <1>5, <1>6, <1>7 DEF FeedNext

\* Who knows every component truly knows the table.
LEMMA FeedIsKnown == ASSUME FeedInv PROVE KnownIsTrue
<1> SUFFICES ASSUME feed = "synced", NEW c \in Components
             PROVE  /\ view[c] # Blank <=> c \in listed
                    /\ c \in listed =>
                         /\ \A f \in Fields : view[c].values[f] \in {Blank, values[c][f]}
                         /\ \/ view[c].state = record[c].state
                            \/ "state" \in lapsed[c]
                            \/ view[c].state = "stale" /\ record[c].heartbeat = Never
                         /\ \/ view[c].primary = record[c].primary
                            \/ "primary" \in lapsed[c]
                            \/ record[c].endpoints = <<>>
  BY DEF KnownIsTrue
<1>1. KnowsOf(c) /\ (record[c].endpoints = <<>> <=> Places(record[c]) = {})
  BY EmptyIsPlaceless DEF FeedInv
<1> QED BY <1>1 DEF KnowsOf

\* For any components, addresses, ages and readings: a flow that keeps up with the feed
\* knows which components there are, and what it knows of one is so, but for what is
\* never told (peer-table.js:361, 506-511, state/index.js:117).
THEOREM FeedStaysTrue ==
  ASSUME FeedAssumptions
  PROVE  FeedSpec => []KnownIsTrue
<1>1. FeedInit => FeedInv
  BY FeedBegins
<1>2. FeedInv /\ [FeedNext]_<<acceptInvalid, vars, feedVars>> => FeedInv'
  BY FeedGoesOn
<1>3. FeedInv => KnownIsTrue
  BY FeedIsKnown
<1> QED BY <1>1, <1>2, <1>3, PTL DEF FeedSpec
===============================================================================
