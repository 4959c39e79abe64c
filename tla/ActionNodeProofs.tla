--------------------------- MODULE ActionNodeProofs ---------------------------
(***************************************************************************)
(* Proofs about ActionNodes, for groups of any size and any number of      *)
(* runs: a fan-out tells the truth about every member and sends what is    *)
(* meant; a conversation with a vehicle has one owner, and its outcome is  *)
(* what was moved; in a formation nobody shares a slot, and who leads is   *)
(* fit to.                                                                 *)
(***************************************************************************)
EXTENDS ActionNodes, FiniteSetTheorems, WellFoundedInduction, TLAPS

-----------------------------------------------------------------------------
(* Fan-out: its invariant *)

Settlements == {Pending, "refused", "failed", "sent", "accepted", "unconfirmed", "cancelled"}

\* FanOutTypeOK, and what the other variables hold.
FanOutTyped ==
  /\ FanOutTypeOK
  /\ mode \in {"sequential", "broadcast"} /\ tier \in {"send", "confirm"}
  /\ streaming \in BOOLEAN /\ stopOnError \in BOOLEAN /\ concurrency \in Nat \ {0}
  /\ result \in [Members -> Settlements] /\ records \in [Members -> Settlements \cup {"skipped"}]
  /\ answers \in [Members -> {Pending, "accepted", "rejected"}]
  /\ told \in {Pending, "empty", "refused", "cancelled", "succeeded", "failed"}

\* Where the loop of each mode can be, and what cannot have happened by then.
LoopIsOfMode ==
  /\ mode = "sequential" => loop \notin {"broadcasts", "acks"}
  /\ mode = "broadcast" =>
       /\ loop \notin {"top", "capacity", "interval", "visit"}
       /\ at = 0 /\ inFlight = {} /\ ~stopped /\ (loop # "idle" => group = Members)
       /\ loop = "draining" => \A m \in Members : records[m] # Pending
  /\ loop \in {"idle", "broadcasts"} => at = 0 /\ inFlight = {} /\ sent = {} /\ result = NoResults /\ records = NoResults
  /\ loop = "broadcasts" => node = "open"
  /\ loop = "reported" => inFlight = {}
  /\ told # Pending => loop = "reported"
  /\ node = "closed" => loop \in {"idle", "reported"}

\* The members are visited in their order, and each once.
VisitsAreInOrder ==
  mode = "sequential" =>
    /\ inFlight \subseteq group /\ sent \subseteq group
    /\ \A m \in inFlight : m <= at
    /\ \A m \in Members : m > at =>
         result[m] = Pending /\ m \notin sent /\ (loop # "reported" => records[m] = Pending)
    /\ \A m \in group \ inFlight : m <= at => records[m] # Pending
    /\ loop = "draining" /\ ~Aborted => stopped \/ \A m \in group : m <= at

\* A place is free where a member is visited, and nothing of what has settled is
\* still unknown then.
VisitsKnow ==
  mode = "sequential" =>
    /\ \A m \in Members \ inFlight : result[m] # Pending => records[m] = result[m]
    /\ loop \in {"interval", "visit"} => Cardinality(inFlight) < concurrency
    /\ loop = "visit" /\ ~Aborted => \A m \in inFlight : result[m] = Pending

\* What is known of a member has its reason.
RecordsAreEarned ==
  \A m \in Members :
    /\ "accepted" \in {records[m], result[m]} => answers[m] = "accepted"
    /\ "sent" \in {records[m], result[m]} => m \in sent
    /\ {records[m], result[m]} \cap {"refused", "skipped"} # {} => m \notin sent

\* What is told is so.
AggregateIsTrue ==
  /\ told \in {"succeeded", "failed"} =>
       /\ sent \subseteq group /\ \A m \in group : records[m] # Pending
       /\ told = "succeeded" <=> \A m \in group : records[m] \in {"accepted", "sent"}
  /\ told \in {"refused", "empty"} => sent = {}

FanOutInv ==
  /\ FanOutTyped /\ LoopIsOfMode /\ VisitsAreInOrder /\ VisitsKnow /\ RecordsAreEarned /\ AggregateIsTrue
  /\ Cardinality(inFlight) <= concurrency

-----------------------------------------------------------------------------
(* Fan-out: its steps *)

\* Places are counted: a set of members has a size, and one more is one more.
LEMMA PlacesAreCounted ==
  ASSUME NEW S \in SUBSET Members
  PROVE  /\ IsFiniteSet(S) /\ Cardinality(S) \in Nat
         /\ \A m \in Members \ S : Cardinality(S \cup {m}) = Cardinality(S) + 1
         /\ \A m \in S : Cardinality(S \ {m}) = Cardinality(S) - 1
         /\ S = {} => Cardinality(S) = 0
<1>1. IsFiniteSet(Members)
  BY FanOutAssumption, FS_Interval DEF Members
<1>2. IsFiniteSet(S) /\ Cardinality(S) \in Nat
  BY <1>1, FS_Subset, FS_CardinalityType
<1>3. \A m \in Members \ S : Cardinality(S \cup {m}) = Cardinality(S) + 1
  BY <1>2, FS_AddElement
<1>4. \A m \in S : Cardinality(S \ {m}) = Cardinality(S) - 1
  BY <1>2, FS_RemoveElement
<1> QED BY <1>2, <1>3, <1>4, FS_EmptySet

\* A set of numbers has a least one.
LEMMA LeastExists ==
  ASSUME NEW T, T \subseteq Nat, T # {}
  PROVE  \E x \in T : \A y \in T : x <= y
<1>1. PICK x \in T : \A y \in T : ~(<<y, x>> \in OpToRel(<, Nat))
  BY WFMin, NatLessThanWellFounded
<1>2. \A y \in T : y < x => <<y, x>> \in OpToRel(<, Nat)
  BY <1>1 DEF OpToRel
<1>3. x \in T /\ \A y \in T : ~(y < x)
  BY <1>1, <1>2, Zenon
<1>4. \A y \in T : x <= y
  BY <1>3
<1> QED BY <1>3, <1>4, Zenon

\* A run begins with nobody visited.
LEMMA FanOutStartsKeeps ==
  ASSUME FanOutInv, FanOutStarts
  PROVE  FanOutInv'
<1> USE DEF FanOutInv, FanOutStarts, fanChoices, fanEnvironment
<1>1. FanOutTyped'
  BY DEF FanOutTyped, FanOutTypeOK
<1>2. LoopIsOfMode'
  BY DEF FanOutTyped, FanOutTypeOK, LoopIsOfMode
<1>3. VisitsAreInOrder'
  BY FanOutAssumption DEF FanOutTyped, FanOutTypeOK, LoopIsOfMode, VisitsAreInOrder, NoResults, Members
<1>4. VisitsKnow'
  BY DEF FanOutTyped, FanOutTypeOK, LoopIsOfMode, VisitsKnow, NoResults
<1>5. RecordsAreEarned'
  BY DEF RecordsAreEarned
<1>6. AggregateIsTrue'
  BY DEF LoopIsOfMode, AggregateIsTrue, Pending
<1> QED BY <1>1, <1>2, <1>3, <1>4, <1>5, <1>6

\* The head of the loop decides, and nothing else.
LEMMA LoopTopKeeps ==
  ASSUME FanOutInv, LoopTop
  PROVE  FanOutInv'
<1> USE DEF FanOutInv, LoopTop, fanChoices, fanEnvironment
<1>1. FanOutTyped'
  BY DEF FanOutTyped, FanOutTypeOK
<1>2. LoopIsOfMode'
  BY DEF FanOutTyped, LoopIsOfMode, Aborted
<1>3. loop' = "draining" /\ ~Aborted' => stopped' \/ \A m \in group : m <= at
  <2>1. Next1 = {} => \A m \in group : m <= at
    <3>1. ASSUME NEW k \in group, k > at PROVE Next1 # {}
      <4> DEFINE T == {x \in group : x > at}
      <4>1. T \subseteq Nat /\ T # {}
        <5>1. \A x \in Members : x \in Nat
          BY FanOutAssumption DEF Members
        <5> QED BY <3>1, <5>1 DEF FanOutTyped, FanOutTypeOK
      <4>2. PICK m \in T : \A x \in T : m <= x
        BY <4>1, LeastExists
      <4> QED BY <4>2 DEF Next1
    <3> QED BY <3>1 DEF FanOutTyped, FanOutTypeOK, Members
  <2> QED BY <2>1 DEF Aborted
<1>4. VisitsAreInOrder'
  BY <1>3 DEF LoopIsOfMode, VisitsAreInOrder, Aborted
<1>5. VisitsKnow'
  <2>1. inFlight = {} => Cardinality(inFlight) = 0
    BY FS_EmptySet
  <2>2. loop' \in {"interval", "visit"} => Cardinality(inFlight) < concurrency
    BY <2>1 DEF FanOutTyped
  <2>3. mode = "sequential" /\ loop' = "visit" => \A m \in inFlight : result[m] = Pending
    BY FanOutAssumption DEF VisitsAreInOrder, FanOutTyped, FanOutTypeOK, Members
  <2> QED BY <2>2, <2>3 DEF VisitsKnow
<1>6. RecordsAreEarned' /\ AggregateIsTrue' /\ (Cardinality(inFlight) <= concurrency)'
  BY DEF RecordsAreEarned, LoopIsOfMode, AggregateIsTrue
<1> QED BY <1>1, <1>2, <1>4, <1>5, <1>6

\* A place that is free, and an interval that is over, change the loop's place only.
LEMMA LoopWaitsKeep ==
  ASSUME FanOutInv, PlaceFree \/ IntervalElapses
  PROVE  FanOutInv'
<1> USE DEF FanOutInv, PlaceFree, IntervalElapses, fanChoices, fanEnvironment
<1>1. FanOutTyped'
  BY DEF FanOutTyped, FanOutTypeOK
<1>2. LoopIsOfMode'
  BY DEF FanOutTyped, LoopIsOfMode, Aborted
<1>3. VisitsAreInOrder'
  BY DEF LoopIsOfMode, VisitsAreInOrder, Aborted
<1>4. VisitsKnow'
  BY DEF VisitsKnow, Quiet, MicrotaskDue
<1>5. RecordsAreEarned' /\ AggregateIsTrue'
  BY DEF RecordsAreEarned, LoopIsOfMode, AggregateIsTrue
<1> QED BY <1>1, <1>2, <1>3, <1>4, <1>5

\* The next member is the first that was not visited.
LEMMA NextIsFirst ==
  ASSUME FanOutInv, NEW m \in Next1
  PROVE  /\ m \in group /\ m \in Members /\ m \in Nat /\ at \in Nat /\ m > at
         /\ \A k \in Members : k \in Nat /\ (k \in group /\ k > at => m <= k)
<1>1. \A k \in Members : k \in Nat
  BY FanOutAssumption DEF Members
<1>2. at \in Nat
  BY FanOutAssumption DEF FanOutInv, FanOutTyped, FanOutTypeOK
<1> QED BY <1>1, <1>2 DEF Next1, FanOutInv, FanOutTyped, FanOutTypeOK

\* A member that is visited takes a place, or is known to be gone.
LEMMA VisitKeeps ==
  ASSUME FanOutInv, Visit
  PROVE  FanOutInv'
<1> USE DEF FanOutInv, fanChoices, fanEnvironment
<1>1. CASE loop' = "draining"
  <2> USE <1>1 DEF Visit
  <2>1. FanOutTyped'
    BY DEF FanOutTyped, FanOutTypeOK
  <2>2. LoopIsOfMode'
    BY DEF FanOutTyped, LoopIsOfMode, Pending
  <2>3. VisitsAreInOrder'
    BY DEF LoopIsOfMode, VisitsAreInOrder, Aborted
  <2>4. VisitsKnow'
    BY DEF VisitsKnow
  <2>5. RecordsAreEarned' /\ AggregateIsTrue'
    BY DEF RecordsAreEarned, LoopIsOfMode, AggregateIsTrue
  <2> QED BY <2>1, <2>2, <2>3, <2>4, <2>5
<1>2. CASE loop' # "draining"
  <2>1. /\ loop = "visit" /\ loop' = "top" /\ ~Aborted /\ UNCHANGED stopped
        /\ UNCHANGED <<fanChoices, group, told, node, fanEnvironment>>
    BY <1>2 DEF Visit
  <2>2. PICK m \in Next1 :
          /\ at' = m
          /\ \/ /\ m \notin active /\ records' = [records EXCEPT ![m] = "failed"]
                /\ UNCHANGED <<inFlight, result, sent>>
             \/ m \in active /\ ExecuteMember(m)
    BY <1>2 DEF Visit
  <2>3. /\ m \in group /\ m \in Members /\ m \in Nat /\ at \in Nat /\ m > at
        /\ \A k \in Members : k \in Nat /\ (k \in group /\ k > at => m <= k)
    BY NextIsFirst
  <2>4. /\ mode = "sequential" /\ told = Pending /\ m \notin inFlight /\ group \subseteq Members
        /\ result[m] = Pending /\ records[m] = Pending /\ m \notin sent
    BY <2>1, <2>3 DEF LoopIsOfMode, VisitsAreInOrder, FanOutTyped, FanOutTypeOK
  <2>5. /\ inFlight' \in {inFlight, inFlight \cup {m}} /\ sent' \in {sent, sent \cup {m}}
        /\ \A k \in Members \ {m} : records'[k] = records[k] /\ result'[k] = result[k]
        /\ records' \in [Members -> Settlements \cup {"skipped"}] /\ result' \in [Members -> Settlements]
    BY <2>2, <2>3 DEF ExecuteMember, FanOutTyped, Settlements
  <2>6. \/ /\ records'[m] = "failed" /\ result'[m] = Pending
           /\ inFlight' = inFlight /\ sent' = sent
        \/ /\ records'[m] = Pending /\ inFlight' = inFlight \cup {m}
           /\ \/ result'[m] \in {"refused", "failed"} /\ sent' = sent
              \/ result'[m] \in {"sent", Pending} /\ sent' = sent \cup {m}
    BY <2>2, <2>3, <2>4 DEF ExecuteMember, FanOutTyped
  <2>7. FanOutTyped'
    BY <2>1, <2>2, <2>3, <2>4, <2>5 DEF FanOutTyped, FanOutTypeOK, Members
  <2>8. LoopIsOfMode'
    BY <2>1, <2>4 DEF LoopIsOfMode
  <2>9. VisitsAreInOrder'
    <3>0. at' = m /\ group' = group
      BY <2>1, <2>2
    <3>1. inFlight' \subseteq group' /\ sent' \subseteq group' /\ \A k \in inFlight' : k <= at'
      <4>1. \A k \in inFlight : k \in Nat /\ k <= at
        BY <2>3, <2>4 DEF VisitsAreInOrder
      <4>2. \A k \in inFlight' : k \in inFlight \/ k = m
        BY <2>5
      <4>3. \A k \in inFlight' : k <= m
        BY <2>3, <4>1, <4>2
      <4>4. inFlight' \subseteq group /\ sent' \subseteq group
        BY <2>3, <2>4, <2>5 DEF VisitsAreInOrder
      <4> QED BY <3>0, <4>3, <4>4
    <3>2. ASSUME NEW k \in Members, k > at' PROVE result'[k] = Pending /\ k \notin sent' /\ records'[k] = Pending
      BY <2>1, <2>2, <2>3, <2>4, <2>5, <3>2 DEF VisitsAreInOrder
    <3>3. ASSUME NEW k \in group' \ inFlight', k <= at' PROVE records'[k] # Pending
      <4>1. k \in group /\ k \in Members /\ k <= m
        BY <2>4, <3>0, <3>3
      <4>2. CASE k = m
        BY <2>6, <3>3, <4>2 DEF Pending
      <4>3. CASE k # m
        <5>1. k <= at /\ k \notin inFlight
          BY <2>3, <2>5, <3>3, <4>1, <4>3
        <5> QED BY <2>4, <2>5, <4>1, <4>3, <5>1 DEF VisitsAreInOrder
      <4> QED BY <4>2, <4>3
    <3> QED BY <2>1, <3>1, <3>2, <3>3 DEF VisitsAreInOrder
  <2>10. VisitsKnow'
    BY <2>1, <2>4, <2>5, <2>6 DEF VisitsKnow
  <2>11. RecordsAreEarned'
    BY <2>1, <2>4, <2>5, <2>6 DEF RecordsAreEarned, Pending
  <2>12. AggregateIsTrue'
    BY <2>1, <2>4 DEF AggregateIsTrue, Pending
  <2>13. Cardinality(inFlight') <= concurrency'
    <3>1. inFlight \in SUBSET Members /\ concurrency \in Nat /\ Cardinality(inFlight) < concurrency
      BY <2>1, <2>4 DEF VisitsKnow, FanOutTyped, FanOutTypeOK
    <3> QED BY <2>1, <2>3, <2>4, <2>5, <3>1, PlacesAreCounted
  <2> QED BY <2>7, <2>8, <2>9, <2>10, <2>11, <2>12, <2>13
<1>3. loop' \in {"draining", "top"}
  BY DEF Visit
<1> QED BY <1>1, <1>2

\* A promise settles as its vehicle answered, or with the budget of its wait.
LEMMA WaitEndsKeeps ==
  ASSUME FanOutInv, NEW m \in Members, WaitEnds(m)
  PROVE  FanOutInv'
<1> USE DEF FanOutInv, fanChoices, fanEnvironment
<1>1. /\ mode = "sequential" /\ m \in inFlight /\ result[m] = Pending /\ loop \notin {"top", "visit"}
      /\ UNCHANGED <<fanChoices, loop, group, at, inFlight, records, stopped, told, node, sent, fanEnvironment>>
  BY DEF WaitEnds, Synchronous
<1>2. PICK how \in {"accepted", "failed", "unconfirmed"} :
        (how = "accepted" => answers[m] = "accepted") /\ result' = [result EXCEPT ![m] = how]
  BY DEF WaitEnds
<1>3. /\ result' \in [Members -> Settlements] /\ result'[m] = how
      /\ \A k \in Members \ {m} : result'[k] = result[k]
  BY <1>2 DEF FanOutTyped, Settlements
<1>4. FanOutTyped'
  BY <1>1, <1>3 DEF FanOutTyped, FanOutTypeOK
<1>5. LoopIsOfMode'
  BY <1>1 DEF LoopIsOfMode
<1>6. VisitsAreInOrder'
  <2>1. m <= at /\ m \in Nat /\ at \in Nat
    BY <1>1, FanOutAssumption DEF VisitsAreInOrder, FanOutTyped, FanOutTypeOK, Members
  <2>2. \A k \in Members : k > at => result'[k] = result[k]
    BY <1>3, <2>1
  <2> QED BY <1>1, <2>2 DEF VisitsAreInOrder, Aborted
<1>7. VisitsKnow'
  BY <1>1, <1>3 DEF VisitsKnow
<1>8. RecordsAreEarned'
  BY <1>1, <1>2, <1>3 DEF RecordsAreEarned
<1>9. AggregateIsTrue'
  BY <1>1 DEF AggregateIsTrue
<1> QED BY <1>1, <1>4, <1>5, <1>6, <1>7, <1>8, <1>9

\* A promise that settled is recorded and gives its place back.
LEMMA RecordedKeeps ==
  ASSUME FanOutInv, NEW m \in Members, Recorded(m)
  PROVE  FanOutInv'
<1> USE DEF FanOutInv, fanChoices, fanEnvironment
<1>1. /\ m \in inFlight /\ result[m] # Pending /\ loop \notin {"top", "visit", "reported"} /\ mode = "sequential"
      /\ inFlight' = inFlight \ {m}
      /\ UNCHANGED <<fanChoices, loop, group, at, result, stopped, told, node, sent, fanEnvironment>>
  BY DEF Recorded, Synchronous, LoopIsOfMode, FanOutTyped
<1>2. /\ records' \in [Members -> Settlements \cup {"skipped"}] /\ records'[m] = result[m]
      /\ \A k \in Members \ {m} : records'[k] = records[k]
  BY DEF Recorded, FanOutTyped
<1>3. FanOutTyped'
  BY <1>1, <1>2 DEF FanOutTyped, FanOutTypeOK
<1>4. LoopIsOfMode'
  BY <1>1 DEF LoopIsOfMode
<1>5. VisitsAreInOrder'
  <2>1. m <= at /\ m \in Nat /\ at \in Nat /\ group \subseteq Members
    BY <1>1, FanOutAssumption DEF VisitsAreInOrder, FanOutTyped, FanOutTypeOK, Members
  <2> QED BY <1>1, <1>2, <2>1 DEF VisitsAreInOrder, Aborted
<1>6. Cardinality(inFlight') <= Cardinality(inFlight) /\ Cardinality(inFlight) \in Nat /\ Cardinality(inFlight') \in Nat
  <2>1. inFlight \in SUBSET Members /\ inFlight' \in SUBSET Members
    BY <1>1 DEF FanOutTyped, FanOutTypeOK
  <2> QED BY <1>1, <2>1, PlacesAreCounted
<1>7. VisitsKnow'
  BY <1>1, <1>2, <1>6 DEF VisitsKnow, FanOutTyped
<1>8. RecordsAreEarned'
  BY <1>1, <1>2 DEF RecordsAreEarned
<1>9. AggregateIsTrue'
  BY <1>1 DEF AggregateIsTrue, LoopIsOfMode, Pending
<1>10. Cardinality(inFlight') <= concurrency'
  BY <1>1, <1>6 DEF FanOutTyped
<1> QED BY <1>3, <1>4, <1>5, <1>7, <1>8, <1>9, <1>10

\* A broadcast goes out whole or not at all.
LEMMA BroadcastsKeeps ==
  ASSUME FanOutInv, Broadcasts
  PROVE  FanOutInv'
<1> USE DEF FanOutInv, fanChoices, fanEnvironment
<1>1. /\ loop = "broadcasts" /\ mode = "broadcast" /\ group = Members /\ inFlight = {} /\ at = 0 /\ told = Pending
      /\ result = NoResults /\ records = NoResults /\ sent = {}
      /\ UNCHANGED <<fanChoices, group, at, inFlight, result, stopped, node, fanEnvironment>>
  BY DEF Broadcasts, LoopIsOfMode, FanOutTyped
<1>2. \/ loop' = "reported" /\ told' = "refused" /\ records' = records /\ sent' = sent
      \/ loop' = "draining" /\ told' = told /\ records' = [m \in Members |-> "failed"] /\ sent' = sent
      \/ loop' = "draining" /\ told' = told /\ records' = [m \in Members |-> "sent"] /\ sent' = Members
      \/ loop' = "acks" /\ told' = told /\ records' = records /\ sent' = Members
  BY DEF Broadcasts
<1>3. FanOutTyped'
  <2>1. records' \in [Members -> Settlements \cup {"skipped"}]
    BY <1>2 DEF FanOutTyped, Settlements
  <2> QED BY <1>1, <1>2, <2>1 DEF FanOutTyped, FanOutTypeOK
<1>4. LoopIsOfMode'
  BY <1>1, <1>2 DEF LoopIsOfMode, Pending
<1>5. VisitsAreInOrder' /\ VisitsKnow'
  BY <1>1 DEF VisitsAreInOrder, VisitsKnow
<1>6. RecordsAreEarned'
  <2>1. \A m \in Members : result[m] = Pending /\ records[m] = Pending
    BY <1>1 DEF NoResults
  <2>2. ASSUME NEW m \in Members
        PROVE  records'[m] \in {Pending, "failed"} \/ (records'[m] = "sent" /\ m \in sent')
    BY <1>2, <2>1
  <2> QED BY <1>1, <2>1, <2>2 DEF RecordsAreEarned, Pending
<1>7. AggregateIsTrue'
  BY <1>1, <1>2 DEF AggregateIsTrue, Pending
<1> QED BY <1>1, <1>3, <1>4, <1>5, <1>6, <1>7

\* An acknowledgement of a broadcast is counted once, and the wait ends with the
\* last, at its end or with the node.
LEMMA BroadcastWaitKeeps ==
  ASSUME FanOutInv, loop = "acks",
         UNCHANGED <<fanChoices, group, at, inFlight, result, stopped, told, sent, fanEnvironment>>,
         node' = node \/ (node' = "closing" /\ loop' = "draining"),
         records' \in [Members -> Settlements \cup {"skipped"}],
         \A m \in Members : \/ records'[m] = records[m]
                            \/ records'[m] \in {"failed", "unconfirmed"}
                            \/ records'[m] = "accepted" /\ answers[m] = "accepted",
         \/ loop' = loop
         \/ loop' = "draining" /\ \A m \in Members : records'[m] # Pending
  PROVE  FanOutInv'
<1> USE DEF FanOutInv, fanChoices, fanEnvironment
<1>1. mode = "broadcast" /\ told = Pending /\ node # "closed"
  BY DEF LoopIsOfMode, FanOutTyped
<1>2. FanOutTyped'
  BY DEF FanOutTyped, FanOutTypeOK
<1>3. LoopIsOfMode'
  BY <1>1 DEF LoopIsOfMode
<1>4. VisitsAreInOrder' /\ VisitsKnow'
  BY <1>1 DEF VisitsAreInOrder, VisitsKnow
<1>5. RecordsAreEarned'
  BY DEF RecordsAreEarned
<1>6. AggregateIsTrue'
  BY <1>1 DEF AggregateIsTrue, Pending
<1> QED BY <1>2, <1>3, <1>4, <1>5, <1>6

\* What a broadcast waits for.
LEMMA BroadcastAnswersKeep ==
  ASSUME FanOutInv, BroadcastTimesOut \/ \E m \in Members : BroadcastAck(m)
  PROVE  FanOutInv'
<1> USE DEF FanOutInv, fanChoices, fanEnvironment
<1>1. CASE BroadcastTimesOut
  <2> USE <1>1 DEF BroadcastTimesOut, Unconfirmed
  <2>1. records' \in [Members -> Settlements \cup {"skipped"}] /\ \A m \in Members : records'[m] # Pending
    BY DEF FanOutTyped, Settlements, Pending
  <2>2. \A m \in Members : records'[m] = records[m] \/ records'[m] = "unconfirmed"
    OBVIOUS
  <2> HIDE DEF FanOutInv
  <2> QED BY <2>1, <2>2, BroadcastWaitKeeps
<1>2. ASSUME NEW m \in Members, BroadcastAck(m) PROVE FanOutInv'
  <2> DEFINE a == IF answers[m] = "accepted" THEN "accepted" ELSE "failed"
  <2>1. /\ loop = "acks" /\ records' = [records EXCEPT ![m] = a]
        /\ loop' = IF \A k \in group \ {m} : records[k] # Pending THEN "draining" ELSE loop
        /\ UNCHANGED <<fanChoices, group, at, inFlight, result, stopped, told, node, sent, fanEnvironment>>
    BY <1>2 DEF BroadcastAck
  <2>2. a \in {"accepted", "failed"} /\ (a = "accepted" => answers[m] = "accepted")
    OBVIOUS
  <2> HIDE DEF a
  <2>3. /\ records' \in [Members -> Settlements \cup {"skipped"}] /\ records'[m] = a
        /\ \A k \in Members \ {m} : records'[k] = records[k]
    BY <2>1, <2>2 DEF FanOutTyped, Settlements
  <2>4. group = Members
    BY <2>1 DEF LoopIsOfMode, FanOutTyped
  <2>5. loop' = "draining" => \A k \in Members : records'[k] # Pending
    BY <2>1, <2>2, <2>3, <2>4 DEF Pending
  <2> HIDE DEF FanOutInv
  <2> QED BY <2>1, <2>2, <2>3, <2>5, BroadcastWaitKeeps
<1> QED BY <1>1, <1>2

\* The aggregate names everybody: whom a stopped run skipped, and nobody else is left.
LEMMA ReportsKeeps ==
  ASSUME FanOutInv, FanOutReports
  PROVE  FanOutInv'
<1> USE DEF FanOutInv, fanChoices, fanEnvironment
<1> DEFINE skips(m) == stopped /\ m \in group /\ m > at
<1>1. /\ loop = "draining" /\ inFlight = {} /\ loop' = "reported" /\ told = Pending
      /\ UNCHANGED <<fanChoices, group, at, inFlight, result, stopped, node, sent, fanEnvironment>>
  BY DEF FanOutReports, LoopIsOfMode
<1>2. /\ records' = [m \in Members |-> IF skips(m) THEN "skipped" ELSE records[m]]
      /\ told' = IF Aborted THEN "cancelled"
                 ELSE IF \A m \in group : records'[m] \notin Failures \cup {Pending} THEN "succeeded" ELSE "failed"
  BY DEF FanOutReports
<1>3. \A m \in Members : records'[m] = IF skips(m) THEN "skipped" ELSE records[m]
  BY <1>2
<1>4. \A m \in Members : skips(m) => mode = "sequential" /\ m \notin sent
  BY <1>1 DEF LoopIsOfMode, VisitsAreInOrder, FanOutTyped
<1>5. records' \in [Members -> Settlements \cup {"skipped"}]
  BY <1>2 DEF FanOutTyped
<1>6. told' \in {"cancelled", "succeeded", "failed"}
  BY <1>2
<1>7. FanOutTyped'
  BY <1>1, <1>5, <1>6 DEF FanOutTyped, FanOutTypeOK
<1>8. LoopIsOfMode'
  BY <1>1 DEF LoopIsOfMode
<1>9. ASSUME ~Aborted, NEW m \in group PROVE m \in Members /\ records'[m] # Pending
  <2>1. m \in Members
    BY DEF FanOutTyped, FanOutTypeOK
  <2>2. CASE mode = "broadcast"
    BY <1>1, <1>3, <2>1, <2>2 DEF LoopIsOfMode, Pending
  <2>3. CASE mode = "sequential"
    <3>1. m \in Nat /\ at \in Nat
      BY <2>1, FanOutAssumption DEF FanOutTyped, FanOutTypeOK, Members
    <3>2. skips(m) \/ m <= at
      BY <1>1, <1>9, <2>3, <3>1 DEF VisitsAreInOrder
    <3>3. ~skips(m) => records[m] # Pending
      BY <1>1, <2>3, <3>2 DEF VisitsAreInOrder
    <3> QED BY <1>3, <2>1, <3>3 DEF Pending
  <2> QED BY <2>1, <2>2, <2>3 DEF FanOutTyped
<1> HIDE DEF skips
<1>10. VisitsAreInOrder'
  <2> SUFFICES ASSUME mode = "sequential" PROVE VisitsAreInOrder'
    BY <1>1 DEF VisitsAreInOrder
  <2>1. \A m \in group \ inFlight : m <= at => records'[m] # Pending
    BY <1>1, <1>3 DEF VisitsAreInOrder, FanOutTyped, FanOutTypeOK, Pending
  <2> QED BY <1>1, <2>1 DEF VisitsAreInOrder
<1>11. VisitsKnow'
  <2>1. ASSUME mode = "sequential", NEW m \in Members, result[m] # Pending PROVE ~skips(m)
    BY <2>1 DEF skips, VisitsAreInOrder
  <2> QED BY <1>1, <1>3, <2>1 DEF VisitsKnow
<1>12. RecordsAreEarned'
  <2>1. ASSUME NEW m \in Members
        PROVE  records'[m] = records[m] \/ (records'[m] = "skipped" /\ m \notin sent)
    BY <1>3, <1>4
  <2> QED BY <1>1, <2>1 DEF RecordsAreEarned
<1>13. AggregateIsTrue'
  <2>1. told' \in {"succeeded", "failed"} => ~Aborted
    BY <1>2
  <2>2. \A m \in group : records'[m] \notin Failures \cup {Pending} <=> records'[m] \in {"accepted", "sent"}
    <3>1. \A m \in group : records'[m] \in Settlements \cup {"skipped"}
      BY <1>5 DEF FanOutTyped, FanOutTypeOK
    <3> QED BY <3>1 DEF Settlements, Failures, Pending
  <2>3. told' \in {"succeeded", "failed"} => (told' = "succeeded" <=> \A m \in group : records'[m] \in {"accepted", "sent"})
    BY <1>2, <2>2
  <2>4. sent \subseteq group
    BY <1>1 DEF VisitsAreInOrder, LoopIsOfMode, FanOutTyped, FanOutTypeOK
  <2> QED BY <1>1, <1>6, <1>9, <2>1, <2>3, <2>4 DEF AggregateIsTrue
<1> QED BY <1>1, <1>7, <1>8, <1>10, <1>11, <1>12, <1>13

\* A close cancels what waits, and the run goes on to its end.
LEMMA FanOutClosesKeeps ==
  ASSUME FanOutInv, FanOutCloses
  PROVE  FanOutInv'
<1> USE DEF FanOutInv, fanChoices, fanEnvironment
<1>1. /\ node = "open" /\ Aborted' /\ node' = (IF loop \in {"idle", "reported"} THEN "closed" ELSE "closing")
      /\ loop \notin {"top", "visit", "broadcasts"}
      /\ result' = [m \in Members |-> IF m \in inFlight THEN "cancelled" ELSE result[m]]
      /\ UNCHANGED <<fanChoices, group, at, inFlight, stopped, told, sent, fanEnvironment>>
  BY DEF FanOutCloses, Quiet, Synchronous, Aborted
<1>2. CASE loop = "acks"
  <2>1. inFlight = {}
    BY <1>2 DEF LoopIsOfMode, FanOutTyped
  <2>2. result' = result /\ node' = "closing"
    BY <1>1, <1>2, <2>1 DEF FanOutTyped
  <2>3. records' = Unconfirmed /\ loop' = "draining"
    BY <1>2 DEF FanOutCloses
  <2>4. /\ records' \in [Members -> Settlements \cup {"skipped"}] /\ \A m \in Members : records'[m] # Pending
        /\ \A m \in Members : records'[m] = records[m] \/ records'[m] = "unconfirmed"
    BY <2>3 DEF Unconfirmed, FanOutTyped, Settlements, Pending
  <2> HIDE DEF FanOutInv
  <2> QED BY <1>1, <1>2, <2>2, <2>3, <2>4, BroadcastWaitKeeps
<1>3. CASE loop # "acks"
  <2>1. records' = records /\ loop' = IF loop = "interval" THEN "visit" ELSE loop
    BY <1>3 DEF FanOutCloses
  <2>2. result' \in [Members -> Settlements] /\ \A m \in Members : result'[m] = IF m \in inFlight THEN "cancelled" ELSE result[m]
    BY <1>1 DEF FanOutTyped, Settlements
  <2>3. FanOutTyped'
    BY <1>1, <2>1, <2>2 DEF FanOutTyped, FanOutTypeOK
  <2>4. LoopIsOfMode'
    <3>1. loop = "idle" => result' = result
      BY <1>1 DEF LoopIsOfMode, FanOutTyped
    <3> QED BY <1>1, <1>3, <2>1, <3>1 DEF LoopIsOfMode, FanOutTyped
  <2>5. VisitsAreInOrder'
    <3>1. ASSUME mode = "sequential", NEW m \in Members, m > at PROVE m \notin inFlight
      BY <3>1, FanOutAssumption DEF VisitsAreInOrder, FanOutTyped, FanOutTypeOK, Members
    <3> QED BY <1>1, <2>1, <2>2, <3>1 DEF VisitsAreInOrder
  <2>6. VisitsKnow'
    BY <1>1, <2>1, <2>2 DEF VisitsKnow
  <2>7. RecordsAreEarned'
    BY <1>1, <2>1, <2>2 DEF RecordsAreEarned
  <2>8. AggregateIsTrue'
    BY <1>1, <2>1 DEF AggregateIsTrue
  <2> QED BY <1>1, <2>3, <2>4, <2>5, <2>6, <2>7, <2>8
<1> QED BY <1>2, <1>3

\* The node's done, and what vehicles do.
LEMMA FanOutOutsideKeeps ==
  ASSUME FanOutInv, FanOutClosed \/ FleetChanges \/ UNCHANGED fanVars
  PROVE  FanOutInv'
<1> USE DEF FanOutInv, fanChoices, fanEnvironment
<1>1. CASE FanOutClosed \/ UNCHANGED fanVars
  <2>1. /\ node' = node \/ (node = "closing" /\ node' = "closed" /\ loop = "reported")
        /\ UNCHANGED <<fanChoices, loop, group, at, inFlight, result, records, stopped, told, sent, fanEnvironment>>
    BY <1>1 DEF FanOutClosed, fanVars
  <2> QED BY <2>1 DEF FanOutTyped, FanOutTypeOK, LoopIsOfMode, VisitsAreInOrder, VisitsKnow, RecordsAreEarned,
                      AggregateIsTrue, Aborted
<1>2. CASE FleetChanges
  <2>1. /\ told = Pending /\ active' \subseteq Members /\ streamed' \subseteq Members
        /\ answers' \in [Members -> {Pending, "accepted", "rejected"}]
        /\ \A m \in Members : answers[m] # Pending => answers'[m] = answers[m]
        /\ UNCHANGED <<fanChoices, loop, group, at, inFlight, result, records, stopped, told, node, sent>>
    BY <1>2 DEF FleetChanges, FanOutTyped, FanOutTypeOK, Pending
  <2>2. FanOutTyped' /\ LoopIsOfMode' /\ VisitsAreInOrder' /\ VisitsKnow' /\ AggregateIsTrue'
    BY <2>1 DEF FanOutTyped, FanOutTypeOK, LoopIsOfMode, VisitsAreInOrder, VisitsKnow, AggregateIsTrue, Aborted, Pending
  <2>3. RecordsAreEarned'
    BY <2>1 DEF RecordsAreEarned, Pending
  <2> QED BY <2>1, <2>2, <2>3
<1> QED BY <1>1, <1>2

\* Whatever comes next.
LEMMA FanOutGoes ==
  ASSUME FanOutInv, [FanOutNext]_fanVars
  PROVE  FanOutInv'
BY FanOutStartsKeeps, LoopTopKeeps, LoopWaitsKeep, VisitKeeps, WaitEndsKeeps, RecordedKeeps, BroadcastsKeeps,
   BroadcastAnswersKeep, ReportsKeeps, FanOutClosesKeeps, FanOutOutsideKeeps DEF FanOutNext, FanOutGoesOn

\* Before an input there is nothing to tell.
LEMMA FanOutBegins == ASSUME FanOutInit PROVE FanOutInv
<1> USE DEF FanOutInit, NoResults, Pending
<1>1. FanOutTyped
  <2>1. FanOutTypeOK
    <3>1. at \in 0..MemberCount
      BY FanOutAssumption
    <3>2. DOMAIN records = Members /\ DOMAIN result = Members /\ DOMAIN answers = Members
      OBVIOUS
    <3> QED BY <3>1, <3>2 DEF FanOutTypeOK
  <2>2. concurrency \in Nat \ {0}
    OBVIOUS
  <2> QED BY <2>1, <2>2 DEF FanOutTyped, Settlements
<1>2. LoopIsOfMode /\ VisitsAreInOrder /\ RecordsAreEarned /\ AggregateIsTrue
  BY DEF LoopIsOfMode, VisitsAreInOrder, RecordsAreEarned, AggregateIsTrue
<1>3. VisitsKnow /\ Cardinality(inFlight) <= concurrency
  BY FS_EmptySet DEF VisitsKnow
<1> QED BY <1>1, <1>2, <1>3 DEF FanOutInv

\* A vehicle is sent to by a visit or by a broadcast.
LEMMA SendsAreMeantNext ==
  ASSUME FanOutInv, [FanOutNext]_fanVars, NEW m \in sent' \ sent
  PROVE  /\ ~Aborted
         /\ mode = "sequential" =>
              /\ m \in active
              /\ stopOnError => \A k \in group : result[k] \notin Failures
         /\ streaming => m \notin streamed
<1> USE DEF FanOutInv
<1>1. Visit \/ Broadcasts
  BY DEF FanOutNext, FanOutGoesOn, FanOutStarts, LoopTop, PlaceFree, IntervalElapses, WaitEnds, Recorded, BroadcastAck,
         BroadcastTimesOut, FanOutReports, FanOutCloses, FanOutClosed, FleetChanges, fanVars
<1>2. CASE Visit
  <2>1. ~Aborted /\ ~ShouldStop /\ loop = "visit" /\ m \in active /\ (streaming => m \notin streamed)
    BY <1>2 DEF Visit, ExecuteMember
  <2>2. ASSUME mode = "sequential", stopOnError, NEW k \in group PROVE result[k] \notin Failures
    <3>1. k \in Members /\ records[k] \notin Failures
      BY <2>1, <2>2 DEF ShouldStop, FanOutTyped, FanOutTypeOK
    <3>2. result[k] = Pending \/ records[k] = result[k]
      BY <2>1, <2>2, <3>1 DEF VisitsKnow
    <3> QED BY <3>1, <3>2 DEF Failures, Pending
  <2> QED BY <2>1, <2>2
<1>3. CASE Broadcasts
  <2>1. loop = "broadcasts" /\ sent' = Members /\ ~(streaming /\ group \cap streamed # {})
    BY <1>3 DEF Broadcasts
  <2>2. mode = "broadcast" /\ group = Members /\ node = "open"
    BY <2>1 DEF LoopIsOfMode, FanOutTyped
  <2> QED BY <2>1, <2>2 DEF Aborted
<1> QED BY <1>1, <1>2, <1>3

-----------------------------------------------------------------------------
(* Operations: the invariant *)

\* A list of different sections.
Listed(p) ==
  /\ Len(p) \in Nat /\ DOMAIN p = 1..Len(p)
  /\ \A i, j \in 1..Len(p) : p[i] = p[j] => i = j
  /\ \A i \in 1..Len(p) : p[i] # Free

\* The sections before the n-th.
Passed(p, n) == {p[i] : i \in {j \in 1..Len(p) : j < n}}
Whole(p) == {p[i] : i \in DOMAIN p}

RunTyped(r) ==
  /\ kind[r] \in {"none", "bundle", "single", "mission"}
  /\ machine[r] \in Starting \cup {"none", "succeeded", "cancelled"}
  /\ outcome[r] \in {"none", "succeeded", "partial", "failed", "cancelled", "locked"}
  /\ Listed(plan[r]) /\ step[r] \in 0..(Len(plan[r]) + 1)

\* A run has its machine, and the lock of what that machine is about, until it ends.
RunIsWhole(r) ==
  /\ kind[r] = "none" => /\ machine[r] = "none" /\ outcome[r] = "none"
                         /\ succeeded[r] = {} /\ failed[r] = {} /\ moved[r] = {}
  /\ machine[r] = "none" => lock[r] = Free /\ (kind[r] # "none" => outcome[r] # "none")
  /\ machine[r] # "none" => outcome[r] = "none" /\ step[r] \in 1..Len(plan[r]) /\ lock[r] = Subject(r)
  /\ kind[r] \in {"single", "mission"} => Len(plan[r]) = 1 /\ succeeded[r] = {}
  /\ kind[r] = "mission" => machine[r] # "crater"

\* What was moved is in its account, but for the section that has just been, and
\* a bundle's account is of the sections it has passed.
AccountIsTrue(r) ==
  machine[r] # "none" =>
    /\ moved[r] = succeeded[r] \cup (IF machine[r] = "succeeded" THEN {Subject(r)} ELSE {})
    /\ kind[r] = "bundle" =>
         succeeded[r] \cup failed[r] = Passed(plan[r], step[r]) /\ succeeded[r] \cap failed[r] = {}

OutcomeIsTrue(r) ==
  /\ outcome[r] = "succeeded" => moved[r] = Whole(plan[r])
  /\ outcome[r] = "partial" => moved[r] # {} /\ moved[r] # Whole(plan[r])
  /\ outcome[r] \in {"failed", "locked"} => moved[r] = {}
  /\ outcome[r] \in {"succeeded", "partial", "failed"} /\ kind[r] = "bundle" =>
       succeeded[r] = moved[r] /\ failed[r] = Whole(plan[r]) \ moved[r]

RunInv(r) == RunTyped(r) /\ RunIsWhole(r) /\ AccountIsTrue(r) /\ OutcomeIsTrue(r)

\* A lock that is held is that of one run.
LocksAreOwn ==
  /\ \A l : l \in held <=> \E r \in Runs : machine[r] # "none" /\ lock[r] = l
  /\ \A r, s \in Runs : machine[r] # "none" /\ machine[s] # "none" /\ lock[r] = lock[s] => r = s

\* A node that closes has cancelled what it ran, and can cancel what it runs.
NodesOwnTheirRuns ==
  /\ deployed \in [{"system", "mission"} -> {"open", "closing", "closed"}]
  /\ deployed["system"] # "open" => \A r \in SystemRuns : machine[r] \in {"none", "cancelled"}
  /\ deployed["system"] = "closed" => \A r \in SystemRuns : machine[r] = "none"
  /\ activeByKey \subseteq Runs
  /\ \A r \in activeByKey : kind[r] = "mission" /\ machine[r] # "none"
  /\ \A r \in Runs : kind[r] = "mission" /\ machine[r] = "live" => r \in activeByKey
  /\ deployed["mission"] # "open" => activeByKey = {}

\* The variables of the runs are functions.
RunsAreFunctions ==
  /\ kind = [r \in Runs |-> kind[r]] /\ plan = [r \in Runs |-> plan[r]] /\ step = [r \in Runs |-> step[r]]
  /\ lock = [r \in Runs |-> lock[r]] /\ machine = [r \in Runs |-> machine[r]]
  /\ succeeded = [r \in Runs |-> succeeded[r]] /\ failed = [r \in Runs |-> failed[r]]
  /\ outcome = [r \in Runs |-> outcome[r]] /\ moved = [r \in Runs |-> moved[r]]

OperationsInv ==
  RunsAreFunctions /\ (\A r \in Runs : RunInv(r)) /\ LocksAreOwn /\ NodesOwnTheirRuns

-----------------------------------------------------------------------------
(* Operations: its steps *)

\* A run that a step leaves alone stays right.
LEMMA RunIsLeftAlone ==
  ASSUME NEW q \in Runs, RunInv(q),
         kind'[q] = kind[q], plan'[q] = plan[q], step'[q] = step[q], lock'[q] = lock[q], machine'[q] = machine[q],
         succeeded'[q] = succeeded[q], failed'[q] = failed[q], outcome'[q] = outcome[q], moved'[q] = moved[q]
  PROVE  RunInv(q)'
BY DEF RunInv, RunTyped, RunIsWhole, AccountIsTrue, OutcomeIsTrue, Subject

\* A run frees its lock, and may take one that nobody holds.
LEMMA LockMoves ==
  ASSUME LocksAreOwn, NEW r \in Runs, machine[r] = "none" => lock[r] \notin held,
         \A q \in Runs \ {r} : machine'[q] = machine[q] /\ lock'[q] = lock[q],
         \/ machine'[r] = "none" /\ held' = held \ {lock[r]}
         \/ /\ machine'[r] # "none" /\ lock'[r] \notin held \ {lock[r]}
            /\ held' = (held \ {lock[r]}) \cup {lock'[r]}
  PROVE  LocksAreOwn'
<1>1. \A l : l \in held \ {lock[r]} <=> \E q \in Runs \ {r} : machine[q] # "none" /\ lock[q] = l
  BY DEF LocksAreOwn
<1>2. \A l : l \in held \ {lock[r]} <=> \E q \in Runs \ {r} : machine'[q] # "none" /\ lock'[q] = l
  BY <1>1
<1>3. \A q, s \in Runs \ {r} : machine'[q] # "none" /\ machine'[s] # "none" /\ lock'[q] = lock'[s] => q = s
  BY DEF LocksAreOwn
<1>4. CASE machine'[r] = "none" /\ held' = held \ {lock[r]}
  BY <1>2, <1>3, <1>4 DEF LocksAreOwn
<1>5. CASE /\ machine'[r] # "none" /\ lock'[r] \notin held \ {lock[r]}
           /\ held' = (held \ {lock[r]}) \cup {lock'[r]}
  BY <1>2, <1>3, <1>5 DEF LocksAreOwn
<1> QED BY <1>4, <1>5

\* The sections before the n-th are told apart in s and f.
Divided(p, n, s, f) == n \in 1..(Len(p) + 1) /\ s \cup f = Passed(p, n) /\ s \cap f = {}

\* The loop of runBundle: what it passes over is refused, and where it stops is free.
LEMMA BundleAdvances ==
  ASSUME RunsAreFunctions, NEW r \in Runs, NEW p, Listed(p), NEW from, NEW h, NEW s, NEW f,
         Divided(p, from, s, f), moved[r] = s,
         outcome[r] = "none", kind'[r] = "bundle", plan'[r] = p, moved'[r] = moved[r], Advance(r, p, from, h, s, f)
  PROVE  /\ RunInv(r)'
         /\ \A q \in Runs \ {r} : /\ step'[q] = step[q] /\ lock'[q] = lock[q] /\ machine'[q] = machine[q]
                                  /\ succeeded'[q] = succeeded[q] /\ failed'[q] = failed[q] /\ outcome'[q] = outcome[q]
         /\ \/ machine'[r] = "none" /\ held' = h
            \/ machine'[r] \in Starting /\ lock'[r] \notin h /\ held' = h \cup {lock'[r]}
<1> DEFINE takes == {i \in from..Len(p) : p[i] \notin h}
           to == IF takes = {} THEN Len(p) + 1 ELSE Min(takes)
           refused == {p[i] : i \in from..(to - 1)}
<1>1. /\ succeeded' = [succeeded EXCEPT ![r] = s] /\ failed' = [failed EXCEPT ![r] = f \cup refused]
      /\ step' = [step EXCEPT ![r] = to]
      /\ \/ /\ takes = {} /\ held' = h /\ lock' = [lock EXCEPT ![r] = Free]
            /\ machine' = [machine EXCEPT ![r] = "none"]
            /\ outcome' = [outcome EXCEPT ![r] = BundleOutcome(s, f \cup refused)]
         \/ /\ takes # {} /\ held' = h \cup {p[to]} /\ lock' = [lock EXCEPT ![r] = p[to]]
            /\ \E how \in Starting : machine' = [machine EXCEPT ![r] = how]
            /\ UNCHANGED outcome
  BY DEF Advance
<1>2. Len(p) \in Nat /\ from \in Nat /\ 1 <= from /\ from <= Len(p) + 1
  BY DEF Listed, Divided
<1>3. takes # {} => to \in from..Len(p) /\ p[to] \notin h
  <2> SUFFICES ASSUME takes # {} PROVE to \in from..Len(p) /\ p[to] \notin h
    OBVIOUS
  <2>1. takes \subseteq Nat
    BY <1>2
  <2>2. \E x \in takes : \A y \in takes : x <= y
    <3> HIDE DEF takes
    <3> QED BY <2>1, LeastExists
  <2>3. Min(takes) \in takes
    <3> HIDE DEF takes
    <3> QED BY <2>2 DEF Min
  <2> QED BY <2>3
<1>4. to \in from..(Len(p) + 1)
  BY <1>2, <1>3
<1> HIDE DEF takes, to
<1>5. s \cup (f \cup refused) = Passed(p, to)
  <2>1. Passed(p, to) = Passed(p, from) \cup refused
    BY <1>2, <1>4 DEF Passed
  <2> QED BY <2>1 DEF Divided
<1>6. s \cap (f \cup refused) = {}
  <2>1. ASSUME NEW x \in s PROVE x \notin refused
    <3>1. PICK i \in 1..Len(p) : i < from /\ x = p[i]
      BY <2>1 DEF Passed, Divided
    <3>2. ASSUME NEW j \in from..(to - 1) PROVE p[j] # x
      <4>1. j \in 1..Len(p) /\ j # i
        BY <1>2, <1>4, <3>1
      <4> QED BY <3>1, <4>1 DEF Listed
    <3> QED BY <3>2
  <2> QED BY <2>1 DEF Divided
<1>7. to = Len(p) + 1 => Passed(p, to) = Whole(p)
  BY <1>2 DEF Passed, Whole, Listed
<1> DEFINE g == f \cup refused
<1> HIDE DEF refused
<1>8. /\ succeeded'[r] = s /\ failed'[r] = g /\ step'[r] = to
      /\ \A q \in Runs \ {r} : /\ step'[q] = step[q] /\ lock'[q] = lock[q] /\ machine'[q] = machine[q]
                               /\ succeeded'[q] = succeeded[q] /\ failed'[q] = failed[q] /\ outcome'[q] = outcome[q]
  BY <1>1 DEF RunsAreFunctions
<1> HIDE DEF g
<1>9. CASE takes = {}
  <2>1. /\ held' = h /\ lock'[r] = Free /\ machine'[r] = "none" /\ to = Len(p) + 1
        /\ outcome'[r] = BundleOutcome(s, g)
    BY <1>1, <1>9 DEF RunsAreFunctions, to, g
  <2>2. s \cup g = Whole(p) /\ s \cap g = {}
    BY <1>5, <1>6, <1>7, <2>1 DEF g
  <2>3. OutcomeIsTrue(r)'
    BY <1>8, <2>1, <2>2 DEF OutcomeIsTrue, BundleOutcome
  <2>4. RunTyped(r)'
    BY <1>2, <1>8, <2>1 DEF RunTyped, BundleOutcome
  <2>5. RunIsWhole(r)' /\ AccountIsTrue(r)'
    BY <2>1 DEF RunIsWhole, AccountIsTrue, BundleOutcome
  <2> QED BY <1>8, <2>1, <2>3, <2>4, <2>5 DEF RunInv
<1>10. CASE takes # {}
  <2>1. /\ held' = h \cup {p[to]} /\ lock'[r] = p[to] /\ machine'[r] \in Starting /\ outcome'[r] = "none"
        /\ to \in 1..Len(p) /\ p[to] \notin h
    BY <1>1, <1>2, <1>3, <1>10 DEF RunsAreFunctions
  <2>2. RunTyped(r)'
    BY <1>2, <1>8, <2>1 DEF RunTyped
  <2>3. RunIsWhole(r)' /\ OutcomeIsTrue(r)'
    BY <1>8, <2>1 DEF RunIsWhole, OutcomeIsTrue, Subject, Starting
  <2>4. AccountIsTrue(r)'
    BY <1>5, <1>6, <1>8, <2>1 DEF AccountIsTrue, Starting, g
  <2> QED BY <1>8, <2>1, <2>2, <2>3, <2>4 DEF RunInv
<1> QED BY <1>9, <1>10
\* A free run holds no lock that is held.
LEMMA FreeIsNotHeld ==
  ASSUME OperationsInv, NEW r \in Runs, machine[r] = "none"
  PROVE  lock[r] \notin held
<1>1. ASSUME NEW q \in Runs, machine[q] # "none" PROVE lock[q] # Free
  BY <1>1 DEF OperationsInv, RunInv, RunTyped, RunIsWhole, Listed, Subject
<1>2. lock[r] = Free
  BY DEF OperationsInv, RunInv, RunIsWhole
<1> QED BY <1>1, <1>2 DEF OperationsInv, LocksAreOwn

\* What holds of one run holds of the others, when they are left alone.
LEMMA OthersAreLeftAlone ==
  ASSUME OperationsInv, NEW r \in Runs, RunInv(r)', RunsAreFunctions',
         \A q \in Runs \ {r} :
           /\ kind'[q] = kind[q] /\ plan'[q] = plan[q] /\ step'[q] = step[q] /\ lock'[q] = lock[q]
           /\ machine'[q] = machine[q] /\ succeeded'[q] = succeeded[q] /\ failed'[q] = failed[q]
           /\ outcome'[q] = outcome[q] /\ moved'[q] = moved[q],
         \/ machine'[r] = "none" /\ held' = held \ {lock[r]}
         \/ /\ machine'[r] # "none" /\ lock'[r] \notin held \ {lock[r]}
            /\ held' = (held \ {lock[r]}) \cup {lock'[r]}
  PROVE  RunsAreFunctions' /\ (\A q \in Runs : RunInv(q)') /\ LocksAreOwn'
<1>1. \A q \in Runs : RunInv(q)'
  <2> SUFFICES ASSUME NEW q \in Runs PROVE RunInv(q)'
    OBVIOUS
  <2>1. CASE q = r
    BY <2>1
  <2>2. CASE q # r
    <3>1. RunInv(q)
      BY DEF OperationsInv
    <3> QED BY <2>2, <3>1, RunIsLeftAlone
  <2> QED BY <2>1, <2>2
<1>2. LocksAreOwn'
  BY LockMoves, FreeIsNotHeld DEF OperationsInv
<1> QED BY <1>1, <1>2

\* A step of a run of the System node.
LEMMA SystemRunMoves ==
  ASSUME OperationsInv, NEW r \in Runs, RunInv(r)', RunsAreFunctions',
         \A q \in Runs \ {r} :
           /\ kind'[q] = kind[q] /\ plan'[q] = plan[q] /\ step'[q] = step[q] /\ lock'[q] = lock[q]
           /\ machine'[q] = machine[q] /\ succeeded'[q] = succeeded[q] /\ failed'[q] = failed[q]
           /\ outcome'[q] = outcome[q] /\ moved'[q] = moved[q],
         \/ machine'[r] = "none" /\ held' = held \ {lock[r]}
         \/ /\ machine'[r] # "none" /\ lock'[r] \notin held \ {lock[r]}
            /\ held' = (held \ {lock[r]}) \cup {lock'[r]},
         kind[r] # "mission", kind'[r] \in {"bundle", "single"}, UNCHANGED <<activeByKey, deployed>>,
         deployed["system"] # "open" => machine'[r] = "none"
  PROVE  OperationsInv'
<1>1. NodesOwnTheirRuns
  BY DEF OperationsInv
<1>2. r \notin activeByKey
  BY <1>1 DEF NodesOwnTheirRuns
<1>3. NodesOwnTheirRuns'
  BY <1>1, <1>2 DEF NodesOwnTheirRuns, SystemRuns
<1> QED BY <1>3, OthersAreLeftAlone DEF OperationsInv

\* A step of a run of a Mission node.
LEMMA MissionRunMoves ==
  ASSUME OperationsInv, NEW r \in Runs, RunInv(r)', RunsAreFunctions',
         \A q \in Runs \ {r} :
           /\ kind'[q] = kind[q] /\ plan'[q] = plan[q] /\ step'[q] = step[q] /\ lock'[q] = lock[q]
           /\ machine'[q] = machine[q] /\ succeeded'[q] = succeeded[q] /\ failed'[q] = failed[q]
           /\ outcome'[q] = outcome[q] /\ moved'[q] = moved[q],
         \/ machine'[r] = "none" /\ held' = held \ {lock[r]}
         \/ /\ machine'[r] # "none" /\ lock'[r] \notin held \ {lock[r]}
            /\ held' = (held \ {lock[r]}) \cup {lock'[r]},
         kind[r] \in {"none", "mission"}, kind'[r] = "mission", UNCHANGED deployed,
         activeByKey' = (IF machine'[r] = "none" THEN activeByKey \ {r} ELSE activeByKey \cup {r}),
         deployed["mission"] # "open" => machine'[r] = "none"
  PROVE  OperationsInv'
<1>1. NodesOwnTheirRuns
  BY DEF OperationsInv
<1>2. NodesOwnTheirRuns'
  <2>1. \A q \in activeByKey' : q \in Runs /\ kind'[q] = "mission" /\ machine'[q] # "none"
    BY <1>1 DEF NodesOwnTheirRuns
  <2>2. \A q \in Runs : kind'[q] = "mission" /\ machine'[q] = "live" => q \in activeByKey'
    BY <1>1 DEF NodesOwnTheirRuns
  <2>3. SystemRuns' \subseteq SystemRuns /\ \A q \in SystemRuns' : machine'[q] = machine[q]
    BY DEF SystemRuns
  <2> QED BY <1>1, <2>1, <2>2, <2>3 DEF NodesOwnTheirRuns
<1> QED BY <1>2, OthersAreLeftAlone DEF OperationsInv

\* The loop of runBundle updates the run's own place.
LEMMA AdvancedAreFunctions ==
  ASSUME RunsAreFunctions, NEW r \in Runs, NEW p, NEW from, NEW h, NEW s, NEW f, Advance(r, p, from, h, s, f),
         UNCHANGED kind \/ (\E x : kind' = [kind EXCEPT ![r] = x]),
         UNCHANGED plan \/ (\E x : plan' = [plan EXCEPT ![r] = x]), UNCHANGED moved
  PROVE  RunsAreFunctions'
<1>1. kind' = [q \in Runs |-> kind'[q]] /\ plan' = [q \in Runs |-> plan'[q]] /\ moved' = [q \in Runs |-> moved'[q]]
  BY DEF RunsAreFunctions
<1>2. \E x, y, z : succeeded' = [succeeded EXCEPT ![r] = x] /\ failed' = [failed EXCEPT ![r] = y] /\ step' = [step EXCEPT ![r] = z]
  BY DEF Advance
<1>3. succeeded' = [q \in Runs |-> succeeded'[q]] /\ failed' = [q \in Runs |-> failed'[q]] /\ step' = [q \in Runs |-> step'[q]]
  BY <1>2 DEF RunsAreFunctions
<1>4. (\E x, y : lock' = [lock EXCEPT ![r] = x] /\ machine' = [machine EXCEPT ![r] = y])
      /\ (UNCHANGED outcome \/ \E x : outcome' = [outcome EXCEPT ![r] = x])
  BY DEF Advance
<1>5. lock' = [q \in Runs |-> lock'[q]] /\ machine' = [q \in Runs |-> machine'[q]] /\ outcome' = [q \in Runs |-> outcome'[q]]
  BY <1>4 DEF RunsAreFunctions
<1> QED BY <1>1, <1>3, <1>5 DEF RunsAreFunctions

\* The constants' plans and services are lists.
LEMMA PlansAreListed ==
  ASSUME OperationsAssumption
  PROVE  /\ \A p \in BundlePlans : Listed(p)
         /\ \A k \in SingleKeys \cup MissionTypes \cup {"mission"} : Listed(<<k>>) /\ Len(<<k>>) = 1 /\ <<k>>[1] = k
<1>1. \A p \in BundlePlans : Listed(p)
  <2> SUFFICES ASSUME NEW p \in BundlePlans PROVE Listed(p)
    OBVIOUS
  <2> DEFINE S == {p[i] : i \in DOMAIN p}
  <2>1. /\ p \in Seq(S)
        /\ \A i, j \in DOMAIN p : p[i] = p[j] => i = j
        /\ \A i \in DOMAIN p : p[i] # "none"
    BY DEF OperationsAssumption
  <2> HIDE DEF S
  <2>2. Len(p) \in Nat /\ DOMAIN p = 1..Len(p)
    BY <2>1
  <2> QED BY <2>1, <2>2 DEF Listed, Free
<1>2. \A k \in SingleKeys \cup MissionTypes \cup {"mission"} : k # "none"
  BY DEF OperationsAssumption
<1> QED BY <1>1, <1>2 DEF Listed, Free

\* A bundle starts with nothing passed.
LEMMA BundleStartsKeeps ==
  ASSUME OperationsAssumption, OperationsInv, NEW r \in Runs, BundleStarts(r)
  PROVE  OperationsInv'
<1>1. /\ kind[r] = "none" /\ deployed["system"] = "open"
      /\ kind' = [kind EXCEPT ![r] = "bundle"] /\ UNCHANGED <<activeByKey, deployed, moved>>
  BY DEF BundleStarts, Arrives
<1>2. PICK p \in BundlePlans : plan' = [plan EXCEPT ![r] = p] /\ Advance(r, p, 1, held, {}, {})
  BY DEF BundleStarts
<1>3. RunsAreFunctions /\ RunInv(r)
  BY DEF OperationsInv
<1>4. machine[r] = "none" /\ outcome[r] = "none" /\ moved[r] = {}
  BY <1>1, <1>3 DEF RunInv, RunIsWhole
<1>5. Listed(p)
  BY PlansAreListed
<1>6. kind'[r] = "bundle" /\ plan'[r] = p /\ moved'[r] = moved[r]
  BY <1>1, <1>2, <1>3 DEF RunsAreFunctions
<1>7. \A q \in Runs \ {r} : kind'[q] = kind[q] /\ plan'[q] = plan[q] /\ moved'[q] = moved[q]
  BY <1>1, <1>2, <1>3 DEF RunsAreFunctions
<1>8. 1 \in 1..(Len(p) + 1) /\ {} = Passed(p, 1)
  BY <1>5 DEF Listed, Passed
<1>9. /\ RunInv(r)'
      /\ \A q \in Runs \ {r} : /\ step'[q] = step[q] /\ lock'[q] = lock[q] /\ machine'[q] = machine[q]
                               /\ succeeded'[q] = succeeded[q] /\ failed'[q] = failed[q] /\ outcome'[q] = outcome[q]
      /\ \/ machine'[r] = "none" /\ held' = held
         \/ machine'[r] \in Starting /\ lock'[r] \notin held /\ held' = held \cup {lock'[r]}
  <2>1. Divided(p, 1, {}, {})
    BY <1>8 DEF Divided
  <2> QED BY <1>2, <1>3, <1>4, <1>5, <1>6, <2>1, BundleAdvances
<1>10. held \ {lock[r]} = held
  BY <1>4, FreeIsNotHeld
<1>11. RunsAreFunctions'
  BY <1>1, <1>2, <1>3, AdvancedAreFunctions
<1> QED BY <1>1, <1>6, <1>7, <1>9, <1>10, <1>11, SystemRunMoves DEF Starting

\* A run that ends frees its lock; the others are left alone.
LEMMA EndsMoves ==
  ASSUME RunsAreFunctions, NEW r \in Runs, NEW res, Ends(r, res), UNCHANGED <<kind, plan, moved>>
  PROVE  /\ RunsAreFunctions'
         /\ lock'[r] = Free /\ machine'[r] = "none" /\ outcome'[r] = res /\ held' = held \ {lock[r]}
         /\ \A q \in Runs \ {r} :
              /\ kind'[q] = kind[q] /\ plan'[q] = plan[q] /\ step'[q] = step[q] /\ lock'[q] = lock[q]
              /\ machine'[q] = machine[q] /\ succeeded'[q] = succeeded[q] /\ failed'[q] = failed[q]
              /\ outcome'[q] = outcome[q] /\ moved'[q] = moved[q]
<1>1. /\ held' = held \ {lock[r]} /\ lock' = [lock EXCEPT ![r] = Free] /\ machine' = [machine EXCEPT ![r] = "none"]
      /\ outcome' = [outcome EXCEPT ![r] = res] /\ UNCHANGED <<kind, plan, step, succeeded, failed, moved>>
  BY DEF Ends
<1>2. lock'[r] = Free /\ machine'[r] = "none" /\ outcome'[r] = res
  BY <1>1 DEF RunsAreFunctions
<1>3. \A q \in Runs \ {r} : lock'[q] = lock[q] /\ machine'[q] = machine[q] /\ outcome'[q] = outcome[q]
  BY <1>1 DEF RunsAreFunctions
<1>4. lock' = [q \in Runs |-> lock'[q]] /\ machine' = [q \in Runs |-> machine'[q]] /\ outcome' = [q \in Runs |-> outcome'[q]]
  BY <1>1 DEF RunsAreFunctions
<1>5. RunsAreFunctions'
  BY <1>1, <1>4 DEF RunsAreFunctions
<1> QED BY <1>1, <1>2, <1>3, <1>5

\* The only section of a run of one transfer is the whole of it.
LEMMA OneIsWhole ==
  ASSUME NEW r \in Runs, RunInv(r), kind[r] \in {"single", "mission"}, machine[r] # "none"
  PROVE  Whole(plan[r]) = {Subject(r)}
<1>1. step[r] = 1 /\ Len(plan[r]) = 1 /\ DOMAIN plan[r] = {1}
  <2>1. Len(plan[r]) = 1 /\ step[r] \in 1..Len(plan[r]) /\ DOMAIN plan[r] = 1..Len(plan[r])
    BY DEF RunInv, RunIsWhole, RunTyped, Listed
  <2> QED BY <2>1
<1> QED BY <1>1 DEF Whole, Subject

\* A run of one transfer ends with what was moved.
LEMMA OneEnds ==
  ASSUME OperationsInv, NEW r \in Runs, kind[r] \in {"single", "mission"}, Settled(r),
         Ends(r, IF machine[r] = "crater" THEN "failed" ELSE machine[r]), UNCHANGED <<kind, plan, moved>>
  PROVE  RunInv(r)'
<1>1. RunsAreFunctions /\ RunInv(r) /\ machine[r] # "none" /\ machine[r] # "live"
  BY DEF OperationsInv, Settled
<1>2. Whole(plan[r]) = {Subject(r)}
  BY <1>1, OneIsWhole
<1>3. PICK res : res = IF machine[r] = "crater" THEN "failed" ELSE machine[r]
  OBVIOUS
<1>4. Ends(r, res)
  BY <1>3
<1>5. lock'[r] = Free /\ machine'[r] = "none" /\ outcome'[r] = res
  BY <1>1, <1>4, EndsMoves
<1>6. UNCHANGED <<kind, plan, step, succeeded, failed, moved>>
  BY <1>4 DEF Ends
<1>7. machine[r] \in {"succeeded", "failed", "cancelled", "crater"}
  BY <1>1 DEF RunInv, RunTyped, Starting
<1>8. RunTyped(r)'
  BY <1>1, <1>3, <1>5, <1>6, <1>7 DEF RunInv, RunTyped
<1>9. RunIsWhole(r)' /\ AccountIsTrue(r)'
  BY <1>1, <1>3, <1>5, <1>6, <1>7 DEF RunInv, RunIsWhole, AccountIsTrue
<1>10. moved[r] = IF machine[r] = "succeeded" THEN {Subject(r)} ELSE {}
  BY <1>1 DEF RunInv, RunIsWhole, AccountIsTrue
<1>11. OutcomeIsTrue(r)'
  BY <1>1, <1>2, <1>3, <1>5, <1>6, <1>7, <1>10 DEF OutcomeIsTrue
<1> QED BY <1>8, <1>9, <1>11 DEF RunInv

\* Its finally.
LEMMA SingleGoesOnKeeps ==
  ASSUME OperationsInv, NEW r \in Runs, SingleGoesOn(r)
  PROVE  OperationsInv'
<1>1. /\ kind[r] = "single" /\ Settled(r) /\ UNCHANGED <<kind, plan, activeByKey, deployed, moved>>
      /\ Ends(r, IF machine[r] = "crater" THEN "failed" ELSE machine[r])
  BY DEF SingleGoesOn
<1>2. RunInv(r)'
  BY <1>1, OneEnds
<1>3. RunsAreFunctions
  BY DEF OperationsInv
<1> QED BY <1>1, <1>2, <1>3, EndsMoves, SystemRunMoves

\* Its then.
LEMMA MissionGoesOnKeeps ==
  ASSUME OperationsInv, NEW r \in Runs, MissionGoesOn(r)
  PROVE  OperationsInv'
<1>1. /\ kind[r] = "mission" /\ Settled(r) /\ UNCHANGED <<kind, plan, deployed, moved>>
      /\ Ends(r, machine[r]) /\ activeByKey' = activeByKey \ {r}
  BY DEF MissionGoesOn
<1>2. RunsAreFunctions /\ RunInv(r)
  BY DEF OperationsInv
<1>3. machine[r] # "crater"
  BY <1>1, <1>2 DEF RunInv, RunIsWhole
<1>4. Ends(r, IF machine[r] = "crater" THEN "failed" ELSE machine[r])
  BY <1>1, <1>3
<1>5. RunInv(r)'
  BY <1>1, <1>4, OneEnds
<1> QED BY <1>1, <1>2, <1>5, EndsMoves, MissionRunMoves

\* A section is over: what was moved goes to its account, and the next is taken.
LEMMA BundleGoesOnKeeps ==
  ASSUME OperationsInv, NEW r \in Runs, BundleGoesOn(r)
  PROVE  OperationsInv'
<1> DEFINE k == plan[r][step[r]]
           s == IF machine[r] = "succeeded" THEN succeeded[r] \cup {k} ELSE succeeded[r]
           f == IF machine[r] = "succeeded" THEN failed[r] ELSE failed[r] \cup {k}
           over == deployed["system"] # "open" \/ machine[r] = "cancelled"
           h == held \ {lock[r]}
<1>1. /\ kind[r] = "bundle" /\ Settled(r) /\ UNCHANGED <<kind, plan, activeByKey, deployed, moved>>
      /\ \/ over /\ Ends(r, machine[r])
         \/ ~over /\ Advance(r, plan[r], step[r] + 1, h, s, f)
  BY DEF BundleGoesOn
<1>2. RunsAreFunctions /\ RunInv(r) /\ NodesOwnTheirRuns /\ machine[r] # "none" /\ machine[r] # "live"
  BY <1>1 DEF OperationsInv, Settled
<1>3. /\ Listed(plan[r]) /\ step[r] \in 1..Len(plan[r]) /\ outcome[r] = "none" /\ lock[r] = k
      /\ machine[r] \in {"succeeded", "failed", "cancelled", "crater"}
  BY <1>2 DEF RunInv, RunTyped, RunIsWhole, Subject, Starting
<1>4. CASE over /\ Ends(r, machine[r])
  <2>1. machine[r] = "cancelled"
    BY <1>1, <1>2, <1>4 DEF NodesOwnTheirRuns, SystemRuns
  <2>2. lock'[r] = Free /\ machine'[r] = "none" /\ outcome'[r] = "cancelled" /\ held' = held \ {lock[r]}
    BY <1>1, <1>2, <1>4, <2>1, EndsMoves
  <2>3. UNCHANGED <<kind, plan, step, succeeded, failed, moved>>
    BY <1>1, <1>4 DEF Ends
  <2>4. RunInv(r)'
    BY <1>1, <1>2, <2>2, <2>3 DEF RunInv, RunTyped, RunIsWhole, AccountIsTrue, OutcomeIsTrue
  <2> QED BY <1>1, <1>2, <1>4, <2>4, EndsMoves, SystemRunMoves
<1>5. CASE ~over /\ Advance(r, plan[r], step[r] + 1, h, s, f)
  <2>1. machine[r] # "cancelled" /\ deployed["system"] = "open"
    BY <1>5
  <2>2. moved[r] = s
    BY <1>2, <1>3 DEF RunInv, AccountIsTrue, Subject
  <2>3. Divided(plan[r], step[r] + 1, s, f)
    <3>1. succeeded[r] \cup failed[r] = Passed(plan[r], step[r]) /\ succeeded[r] \cap failed[r] = {}
      BY <1>1, <1>2 DEF RunInv, AccountIsTrue
    <3>2. Len(plan[r]) \in Nat /\ step[r] \in Nat /\ 1 <= step[r] /\ step[r] <= Len(plan[r])
      BY <1>3 DEF Listed
    <3>3. Passed(plan[r], step[r] + 1) = Passed(plan[r], step[r]) \cup {k}
      BY <3>2 DEF Passed
    <3>4. k \notin Passed(plan[r], step[r])
      BY <1>3, <3>2 DEF Passed, Listed
    <3>5. s \cup f = (succeeded[r] \cup failed[r]) \cup {k}
      OBVIOUS
    <3>6. s \cap f = {}
      BY <3>1, <3>4
    <3>7. step[r] + 1 \in 1..(Len(plan[r]) + 1)
      BY <3>2
    <3> HIDE DEF k, s, f
    <3> QED BY <3>1, <3>3, <3>5, <3>6, <3>7 DEF Divided
  <2>4. kind'[r] = "bundle" /\ plan'[r] = plan[r] /\ moved'[r] = moved[r]
    BY <1>1
  <2>5. /\ RunInv(r)'
        /\ \A q \in Runs \ {r} : /\ step'[q] = step[q] /\ lock'[q] = lock[q] /\ machine'[q] = machine[q]
                                 /\ succeeded'[q] = succeeded[q] /\ failed'[q] = failed[q] /\ outcome'[q] = outcome[q]
        /\ \/ machine'[r] = "none" /\ held' = h
           \/ machine'[r] \in Starting /\ lock'[r] \notin h /\ held' = h \cup {lock'[r]}
    <3> HIDE DEF k, s, f, h, over
    <3> QED BY <1>2, <1>3, <1>5, <2>2, <2>3, <2>4, BundleAdvances
  <2>6. RunsAreFunctions'
    <3> HIDE DEF k, s, f, h, over
    <3> QED BY <1>1, <1>2, <1>5, AdvancedAreFunctions
  <2>7. \/ machine'[r] = "none" /\ held' = h
        \/ machine'[r] # "none" /\ lock'[r] \notin h /\ held' = h \cup {lock'[r]}
    BY <2>5 DEF Starting
  <2> HIDE DEF k, s, f, over
  <2> QED BY <1>1, <2>1, <2>4, <2>5, <2>6, <2>7, SystemRunMoves
<1> HIDE DEF s, f, h, over
<1> QED BY <1>1, <1>4, <1>5

\* A run of one transfer begins under a free lock, or is refused.
LEMMA OneBegins ==
  ASSUME OperationsInv, NEW r \in Runs, NEW k, Listed(<<k>>), Len(<<k>>) = 1, <<k>>[1] = k,
         kind[r] = "none", NEW x \in {"single", "mission"}, kind' = [kind EXCEPT ![r] = x],
         Begins(r, k, k), x = "mission" => machine'[r] # "crater"
  PROVE  /\ RunInv(r)' /\ RunsAreFunctions' /\ kind'[r] = x
         /\ \A q \in Runs \ {r} :
              /\ kind'[q] = kind[q] /\ plan'[q] = plan[q] /\ step'[q] = step[q] /\ lock'[q] = lock[q]
              /\ machine'[q] = machine[q] /\ succeeded'[q] = succeeded[q] /\ failed'[q] = failed[q]
              /\ outcome'[q] = outcome[q] /\ moved'[q] = moved[q]
         /\ \/ machine'[r] = "none" /\ held' = held \ {lock[r]}
            \/ /\ machine'[r] # "none" /\ lock'[r] \notin held \ {lock[r]}
               /\ held' = (held \ {lock[r]}) \cup {lock'[r]}
<1>1. RunsAreFunctions /\ RunInv(r)
  BY DEF OperationsInv
<1>2. /\ machine[r] = "none" /\ outcome[r] = "none" /\ lock[r] = Free
      /\ succeeded[r] = {} /\ failed[r] = {} /\ moved[r] = {}
  BY <1>1 DEF RunInv, RunIsWhole
<1>3. held \ {lock[r]} = held
  BY <1>2, FreeIsNotHeld
<1>4. plan' = [plan EXCEPT ![r] = <<k>>] /\ step' = [step EXCEPT ![r] = 1] /\ UNCHANGED <<succeeded, failed, deployed, moved>>
  BY DEF Begins
<1>5. kind'[r] = x /\ plan'[r] = <<k>> /\ step'[r] = 1 /\ succeeded'[r] = {} /\ failed'[r] = {} /\ moved'[r] = {}
  BY <1>1, <1>2, <1>4 DEF RunsAreFunctions
<1>6. \A q \in Runs \ {r} : /\ kind'[q] = kind[q] /\ plan'[q] = plan[q] /\ step'[q] = step[q]
                            /\ succeeded'[q] = succeeded[q] /\ failed'[q] = failed[q] /\ moved'[q] = moved[q]
  BY <1>1, <1>4 DEF RunsAreFunctions
<1>7. /\ kind' = [q \in Runs |-> kind'[q]] /\ plan' = [q \in Runs |-> plan'[q]] /\ step' = [q \in Runs |-> step'[q]]
      /\ succeeded' = [q \in Runs |-> succeeded'[q]] /\ failed' = [q \in Runs |-> failed'[q]]
      /\ moved' = [q \in Runs |-> moved'[q]]
  BY <1>1, <1>4 DEF RunsAreFunctions
<1>8. CASE k \in held /\ outcome' = [outcome EXCEPT ![r] = "locked"] /\ UNCHANGED <<lock, machine, held>>
  <2>1. outcome'[r] = "locked" /\ machine'[r] = "none" /\ lock'[r] = Free /\ held' = held
    BY <1>1, <1>2, <1>8 DEF RunsAreFunctions
  <2>2. \A q \in Runs \ {r} : lock'[q] = lock[q] /\ machine'[q] = machine[q] /\ outcome'[q] = outcome[q]
    BY <1>1, <1>8 DEF RunsAreFunctions
  <2>3. lock' = [q \in Runs |-> lock'[q]] /\ machine' = [q \in Runs |-> machine'[q]] /\ outcome' = [q \in Runs |-> outcome'[q]]
    BY <1>1, <1>8 DEF RunsAreFunctions
  <2>4. RunTyped(r)'
    BY <1>5, <2>1 DEF RunTyped
  <2>5. RunIsWhole(r)' /\ AccountIsTrue(r)' /\ OutcomeIsTrue(r)'
    BY <1>5, <2>1 DEF RunIsWhole, AccountIsTrue, OutcomeIsTrue
  <2> QED BY <1>3, <1>5, <1>6, <1>7, <2>1, <2>2, <2>3, <2>4, <2>5 DEF RunInv, RunsAreFunctions
<1>9. CASE /\ k \notin held /\ held' = held \cup {k} /\ lock' = [lock EXCEPT ![r] = k]
           /\ (\E how \in Starting : machine' = [machine EXCEPT ![r] = how]) /\ UNCHANGED outcome
  <2>1. outcome'[r] = "none" /\ machine'[r] \in Starting /\ lock'[r] = k
    BY <1>1, <1>2, <1>9 DEF RunsAreFunctions
  <2>2. \A q \in Runs \ {r} : lock'[q] = lock[q] /\ machine'[q] = machine[q] /\ outcome'[q] = outcome[q]
    BY <1>1, <1>9 DEF RunsAreFunctions
  <2>3. lock' = [q \in Runs |-> lock'[q]] /\ machine' = [q \in Runs |-> machine'[q]] /\ outcome' = [q \in Runs |-> outcome'[q]]
    BY <1>1, <1>9 DEF RunsAreFunctions
  <2>4. RunTyped(r)'
    BY <1>5, <2>1 DEF RunTyped
  <2>5. RunIsWhole(r)'
    BY <1>5, <2>1 DEF RunIsWhole, Subject, Starting
  <2>6. AccountIsTrue(r)' /\ OutcomeIsTrue(r)'
    BY <1>5, <2>1 DEF AccountIsTrue, OutcomeIsTrue, Starting
  <2> QED BY <1>3, <1>5, <1>6, <1>7, <1>9, <2>1, <2>2, <2>3, <2>4, <2>5, <2>6 DEF RunInv, RunsAreFunctions, Starting
<1> QED BY <1>8, <1>9 DEF Begins

\* runSingle.
LEMMA SingleStartsKeeps ==
  ASSUME OperationsAssumption, OperationsInv, NEW r \in Runs, SingleStarts(r)
  PROVE  OperationsInv'
<1>1. /\ kind[r] = "none" /\ deployed["system"] = "open"
      /\ kind' = [kind EXCEPT ![r] = "single"] /\ UNCHANGED activeByKey
  BY DEF SingleStarts, Arrives
<1>2. PICK k \in SingleKeys : Begins(r, k, k)
  BY DEF SingleStarts
<1>3. Listed(<<k>>) /\ Len(<<k>>) = 1 /\ <<k>>[1] = k
  BY PlansAreListed
<1>4. UNCHANGED deployed
  BY <1>2 DEF Begins
<1>5. PICK x \in {"single", "mission"} : x = "single"
  OBVIOUS
<1>6. /\ RunInv(r)' /\ RunsAreFunctions' /\ kind'[r] = x
      /\ \A q \in Runs \ {r} :
           /\ kind'[q] = kind[q] /\ plan'[q] = plan[q] /\ step'[q] = step[q] /\ lock'[q] = lock[q]
           /\ machine'[q] = machine[q] /\ succeeded'[q] = succeeded[q] /\ failed'[q] = failed[q]
           /\ outcome'[q] = outcome[q] /\ moved'[q] = moved[q]
      /\ \/ machine'[r] = "none" /\ held' = held \ {lock[r]}
         \/ /\ machine'[r] # "none" /\ lock'[r] \notin held \ {lock[r]}
            /\ held' = (held \ {lock[r]}) \cup {lock'[r]}
  BY <1>1, <1>2, <1>3, <1>5, OneBegins
<1> QED BY <1>1, <1>4, <1>5, <1>6, SystemRunMoves

\* confirmTier: refused, started, or thrown out with nothing stored.
LEMMA MissionStartsKeeps ==
  ASSUME OperationsAssumption, OperationsInv, NEW r \in Runs, MissionStarts(r)
  PROVE  OperationsInv'
<1>1. kind[r] = "none" /\ deployed["mission"] = "open" /\ kind' = [kind EXCEPT ![r] = "mission"]
  BY DEF MissionStarts, Arrives
<1>2. PICK k \in MissionTypes \cup {"mission"} :
        \/ /\ Begins(r, k, k) /\ machine'[r] # "crater"
           /\ activeByKey' = (IF machine'[r] = "none" THEN activeByKey ELSE activeByKey \cup {r})
        \/ /\ k \notin held /\ plan' = [plan EXCEPT ![r] = <<k>>] /\ step' = [step EXCEPT ![r] = 1]
           /\ outcome' = [outcome EXCEPT ![r] = "failed"]
           /\ UNCHANGED <<lock, machine, held, succeeded, failed, activeByKey, deployed, moved>>
  <2>1. PICK operation \in {"transfer", "set-current"}, type \in MissionTypes :
          LET wire == IF operation = "set-current" THEN "mission" ELSE type
              l == LockScope(operation, type)
          IN \/ /\ Begins(r, wire, l) /\ machine'[r] # "crater"
                /\ activeByKey' = (IF machine'[r] = "none" THEN activeByKey ELSE activeByKey \cup {r})
             \/ /\ l \notin held
                /\ plan' = [plan EXCEPT ![r] = <<wire>>]
                /\ step' = [step EXCEPT ![r] = 1]
                /\ outcome' = [outcome EXCEPT ![r] = "failed"]
                /\ UNCHANGED <<lock, machine, held, succeeded, failed, activeByKey, deployed, moved>>
    BY DEF MissionStarts
  <2> DEFINE k == IF operation = "set-current" THEN "mission" ELSE type
  <2>2. k \in MissionTypes \cup {"mission"} /\ LockScope(operation, type) = k
    BY DEF LockScope
  <2>3. \/ /\ Begins(r, k, k) /\ machine'[r] # "crater"
           /\ activeByKey' = (IF machine'[r] = "none" THEN activeByKey ELSE activeByKey \cup {r})
        \/ /\ k \notin held /\ plan' = [plan EXCEPT ![r] = <<k>>] /\ step' = [step EXCEPT ![r] = 1]
           /\ outcome' = [outcome EXCEPT ![r] = "failed"]
           /\ UNCHANGED <<lock, machine, held, succeeded, failed, activeByKey, deployed, moved>>
    BY <2>1, <2>2
  <2> HIDE DEF k
  <2> QED BY <2>2, <2>3
<1>3. Listed(<<k>>) /\ Len(<<k>>) = 1 /\ <<k>>[1] = k
  BY PlansAreListed
<1>4. RunsAreFunctions /\ RunInv(r) /\ NodesOwnTheirRuns
  BY DEF OperationsInv
<1>5. r \notin activeByKey
  BY <1>1, <1>4 DEF NodesOwnTheirRuns
<1>6. CASE /\ Begins(r, k, k) /\ machine'[r] # "crater"
           /\ activeByKey' = (IF machine'[r] = "none" THEN activeByKey ELSE activeByKey \cup {r})
  <2>1. PICK x \in {"single", "mission"} : x = "mission"
    OBVIOUS
  <2>2. /\ RunInv(r)' /\ RunsAreFunctions' /\ kind'[r] = x
        /\ \A q \in Runs \ {r} :
             /\ kind'[q] = kind[q] /\ plan'[q] = plan[q] /\ step'[q] = step[q] /\ lock'[q] = lock[q]
             /\ machine'[q] = machine[q] /\ succeeded'[q] = succeeded[q] /\ failed'[q] = failed[q]
             /\ outcome'[q] = outcome[q] /\ moved'[q] = moved[q]
        /\ \/ machine'[r] = "none" /\ held' = held \ {lock[r]}
           \/ /\ machine'[r] # "none" /\ lock'[r] \notin held \ {lock[r]}
              /\ held' = (held \ {lock[r]}) \cup {lock'[r]}
    BY <1>1, <1>3, <1>6, <2>1, OneBegins
  <2>3. UNCHANGED deployed
    BY <1>6 DEF Begins
  <2>4. activeByKey' = IF machine'[r] = "none" THEN activeByKey \ {r} ELSE activeByKey \cup {r}
    BY <1>5, <1>6
  <2> QED BY <1>1, <2>1, <2>2, <2>3, <2>4, MissionRunMoves
<1>7. CASE /\ k \notin held /\ plan' = [plan EXCEPT ![r] = <<k>>] /\ step' = [step EXCEPT ![r] = 1]
           /\ outcome' = [outcome EXCEPT ![r] = "failed"]
           /\ UNCHANGED <<lock, machine, held, succeeded, failed, activeByKey, deployed, moved>>
  <2>1. /\ machine[r] = "none" /\ lock[r] = Free /\ moved[r] = {} /\ succeeded[r] = {}
    BY <1>1, <1>4 DEF RunInv, RunIsWhole
  <2>2. kind'[r] = "mission" /\ plan'[r] = <<k>> /\ step'[r] = 1 /\ outcome'[r] = "failed"
    BY <1>1, <1>4, <1>7 DEF RunsAreFunctions
  <2>3. \A q \in Runs \ {r} : kind'[q] = kind[q] /\ plan'[q] = plan[q] /\ step'[q] = step[q] /\ outcome'[q] = outcome[q]
    BY <1>1, <1>4, <1>7 DEF RunsAreFunctions
  <2>4. /\ kind' = [q \in Runs |-> kind'[q]] /\ plan' = [q \in Runs |-> plan'[q]] /\ step' = [q \in Runs |-> step'[q]]
        /\ outcome' = [q \in Runs |-> outcome'[q]]
    BY <1>1, <1>4, <1>7 DEF RunsAreFunctions
  <2>5. RunsAreFunctions'
    BY <1>4, <1>7, <2>4 DEF RunsAreFunctions
  <2>6. RunTyped(r)'
    BY <1>3, <1>7, <2>1, <2>2 DEF RunTyped
  <2>7. RunIsWhole(r)' /\ AccountIsTrue(r)' /\ OutcomeIsTrue(r)'
    BY <1>3, <1>7, <2>1, <2>2 DEF RunIsWhole, AccountIsTrue, OutcomeIsTrue
  <2>8. machine'[r] = "none" /\ held' = held \ {lock[r]}
    BY <1>7, <2>1, FreeIsNotHeld
  <2>9. activeByKey' = IF machine'[r] = "none" THEN activeByKey \ {r} ELSE activeByKey \cup {r}
    BY <1>5, <1>7, <2>8
  <2> QED BY <1>1, <1>7, <2>2, <2>3, <2>5, <2>6, <2>7, <2>8, <2>9, MissionRunMoves DEF RunInv
<1> QED BY <1>2, <1>6, <1>7

\* Machines may settle, or be cancelled, where they stand: a change of machine
\* and of nothing else that keeps locks where they are.
LEMMA LocksStay ==
  ASSUME LocksAreOwn, UNCHANGED <<lock, held>>, \A q \in Runs : machine'[q] = "none" <=> machine[q] = "none"
  PROVE  LocksAreOwn'
BY DEF LocksAreOwn

\* A machine settles of itself: what it has carried out has moved.
LEMMA MachineSettlesKeeps ==
  ASSUME OperationsInv, NEW r \in Runs, MachineSettles(r)
  PROVE  OperationsInv'
<1>1. /\ machine[r] = "live"
      /\ UNCHANGED <<kind, plan, step, lock, succeeded, failed, outcome, held, activeByKey, deployed>>
      /\ \/ /\ machine' = [machine EXCEPT ![r] = "succeeded"]
            /\ moved' = [moved EXCEPT ![r] = @ \cup {plan[r][step[r]]}]
         \/ machine' = [machine EXCEPT ![r] = "failed"] /\ UNCHANGED moved
  BY DEF MachineSettles
<1>2. RunsAreFunctions /\ RunInv(r) /\ NodesOwnTheirRuns /\ LocksAreOwn
  BY DEF OperationsInv
<1>3. \A q \in Runs \ {r} : machine'[q] = machine[q] /\ moved'[q] = moved[q]
  BY <1>1, <1>2 DEF RunsAreFunctions
<1>4. \/ machine'[r] = "succeeded" /\ moved'[r] = moved[r] \cup {Subject(r)}
      \/ machine'[r] = "failed" /\ moved'[r] = moved[r]
  BY <1>1, <1>2 DEF RunsAreFunctions, Subject
<1>5. RunsAreFunctions'
  BY <1>1, <1>2 DEF RunsAreFunctions
<1>6. RunInv(r)'
  <2>1. RunTyped(r)'
    BY <1>1, <1>2, <1>4 DEF RunInv, RunTyped, Starting
  <2>2. RunIsWhole(r)'
    BY <1>1, <1>2, <1>4 DEF RunInv, RunIsWhole, Subject
  <2>3. AccountIsTrue(r)' /\ OutcomeIsTrue(r)'
    <3>1. outcome[r] = "none"
      BY <1>1, <1>2 DEF RunInv, RunIsWhole
    <3> QED BY <1>1, <1>2, <1>4, <3>1 DEF RunInv, AccountIsTrue, OutcomeIsTrue, Subject
  <2> QED BY <2>1, <2>2, <2>3 DEF RunInv
<1>7. \A q \in Runs : RunInv(q)'
  <2> SUFFICES ASSUME NEW q \in Runs, q # r PROVE RunInv(q)'
    BY <1>6
  <2>1. RunInv(q)
    BY DEF OperationsInv
  <2> QED BY <1>1, <1>3, <2>1, RunIsLeftAlone
<1>8. \A q \in Runs : machine'[q] = "none" <=> machine[q] = "none"
  BY <1>1, <1>3, <1>4
<1>9. LocksAreOwn'
  BY <1>1, <1>2, <1>8, LocksStay
<1>10. NodesOwnTheirRuns'
  <2>1. kind[r] = "mission" \/ deployed["system"] = "open" \/ kind[r] = "none"
    BY <1>1, <1>2 DEF NodesOwnTheirRuns, SystemRuns, RunInv, RunTyped
  <2>2. kind[r] # "none"
    BY <1>1, <1>2 DEF RunInv, RunIsWhole
  <2> QED BY <1>1, <1>2, <1>3, <1>4, <2>1, <2>2 DEF NodesOwnTheirRuns, SystemRuns
<1> QED BY <1>5, <1>7, <1>9, <1>10 DEF OperationsInv

\* cancel() leaves runs, locks and accounts as they are.
LEMMA CancellingKeeps ==
  ASSUME OperationsInv, NEW cs, Cancelling(cs),
         UNCHANGED <<kind, plan, step, lock, succeeded, failed, outcome, held, moved>>
  PROVE  /\ RunsAreFunctions' /\ (\A q \in Runs : RunInv(q)') /\ LocksAreOwn'
         /\ \A q \in Runs : machine'[q] = IF q \in cs /\ machine[q] = "live" THEN "cancelled" ELSE machine[q]
<1>1. \A q \in Runs : machine'[q] = IF q \in cs /\ machine[q] = "live" THEN "cancelled" ELSE machine[q]
  BY DEF Cancelling
<1>2. RunsAreFunctions'
  BY DEF OperationsInv, RunsAreFunctions, Cancelling
<1>3. \A q \in Runs : RunInv(q)'
  <2> SUFFICES ASSUME NEW q \in Runs PROVE RunInv(q)'
    OBVIOUS
  <2>1. RunInv(q)
    BY DEF OperationsInv
  <2>2. CASE machine'[q] = machine[q]
    BY <2>1, <2>2, RunIsLeftAlone
  <2>3. CASE machine[q] = "live" /\ machine'[q] = "cancelled"
    BY <2>1, <2>3 DEF RunInv, RunTyped, RunIsWhole, AccountIsTrue, OutcomeIsTrue, Subject
  <2> QED BY <1>1, <2>2, <2>3
<1>4. LocksAreOwn'
  BY <1>1, LocksStay DEF OperationsInv
<1> QED BY <1>1, <1>2, <1>3, <1>4

\* The System node closes: what it runs is cancelled.
LEMMA SystemClosesKeeps ==
  ASSUME OperationsInv, SystemCloses
  PROVE  OperationsInv'
<1> DEFINE running == {r \in SystemRuns : Open(r)}
<1>1. /\ NothingDue /\ Cancelling(running)
      /\ deployed' = [deployed EXCEPT !["system"] = IF running = {} THEN "closed" ELSE "closing"]
      /\ UNCHANGED <<kind, plan, step, lock, succeeded, failed, outcome, held, activeByKey, moved>>
  BY DEF SystemCloses
<1>2. NodesOwnTheirRuns /\ \A r \in Runs : RunInv(r)
  BY DEF OperationsInv
<1>3. /\ RunsAreFunctions' /\ (\A q \in Runs : RunInv(q)') /\ LocksAreOwn'
      /\ \A q \in Runs : machine'[q] = IF q \in running /\ machine[q] = "live" THEN "cancelled" ELSE machine[q]
  <2> HIDE DEF running
  <2> QED BY <1>1, CancellingKeeps
<1>4. ASSUME NEW r \in SystemRuns PROVE machine[r] = "none" \/ (machine[r] = "live" /\ r \in running)
  <2>1. r \in Runs /\ kind[r] # "none"
    BY DEF SystemRuns
  <2>2. machine[r] \in {"none", "live"}
    BY <1>1, <2>1 DEF NothingDue, Settled
  <2> QED BY <1>2, <2>1, <2>2 DEF RunInv, RunIsWhole, Open
<1>5. \A r \in SystemRuns : machine'[r] \in {"none", "cancelled"} /\ (running = {} => machine'[r] = "none")
  BY <1>3, <1>4 DEF SystemRuns
<1>6. SystemRuns' = SystemRuns /\ running \subseteq SystemRuns
  BY <1>1 DEF SystemRuns
<1>7. \A q \in Runs : kind[q] = "mission" => machine'[q] = machine[q]
  BY <1>3, <1>6 DEF SystemRuns
<1>8. /\ deployed' \in [{"system", "mission"} -> {"open", "closing", "closed"}]
      /\ deployed'["system"] = "closed" => running = {}
      /\ deployed'["mission"] = deployed["mission"]
  BY <1>1, <1>2 DEF NodesOwnTheirRuns
<1> HIDE DEF running
<1>9. NodesOwnTheirRuns'
  BY <1>1, <1>2, <1>5, <1>6, <1>7, <1>8 DEF NodesOwnTheirRuns
<1> QED BY <1>3, <1>9 DEF OperationsInv

\* Its last run has ended.
LEMMA SystemClosedKeeps ==
  ASSUME OperationsInv, SystemClosed
  PROVE  OperationsInv'
<1>1. /\ \A r \in SystemRuns : ~Open(r)
      /\ deployed' = [deployed EXCEPT !["system"] = "closed"] /\ UNCHANGED <<runVars, held, activeByKey>>
  BY DEF SystemClosed
<1>2. UNCHANGED <<kind, plan, step, lock, machine, succeeded, failed, outcome, moved>>
  BY <1>1 DEF runVars
<1>3. \A r \in SystemRuns : machine[r] = "none"
  BY <1>1 DEF OperationsInv, RunInv, RunIsWhole, Open, SystemRuns
<1>4. NodesOwnTheirRuns'
  BY <1>1, <1>2, <1>3 DEF OperationsInv, NodesOwnTheirRuns, SystemRuns
<1>5. RunsAreFunctions' /\ LocksAreOwn'
  BY <1>1, <1>2 DEF OperationsInv, RunsAreFunctions, LocksAreOwn
<1>6. \A r \in Runs : RunInv(r)'
  BY <1>2, RunIsLeftAlone DEF OperationsInv
<1> QED BY <1>4, <1>5, <1>6 DEF OperationsInv

\* A Mission node closes: every machine it knows is cancelled.
LEMMA MissionClosesKeeps ==
  ASSUME OperationsInv, MissionCloses
  PROVE  OperationsInv'
<1>1. /\ Cancelling(activeByKey) /\ activeByKey' = {}
      /\ deployed' = [deployed EXCEPT !["mission"] = "closed"]
      /\ UNCHANGED <<kind, plan, step, lock, succeeded, failed, outcome, held, moved>>
  BY DEF MissionCloses
<1>2. NodesOwnTheirRuns
  BY DEF OperationsInv
<1>3. /\ RunsAreFunctions' /\ (\A q \in Runs : RunInv(q)') /\ LocksAreOwn'
      /\ \A q \in Runs : machine'[q] = IF q \in activeByKey /\ machine[q] = "live" THEN "cancelled" ELSE machine[q]
  BY <1>1, CancellingKeeps
<1>4. SystemRuns' = SystemRuns /\ \A q \in SystemRuns : machine'[q] = machine[q]
  BY <1>1, <1>2, <1>3 DEF SystemRuns, NodesOwnTheirRuns
<1>5. \A q \in Runs : ~(kind[q] = "mission" /\ machine'[q] = "live")
  BY <1>2, <1>3 DEF NodesOwnTheirRuns
<1>6. deployed' \in [{"system", "mission"} -> {"open", "closing", "closed"}] /\ deployed'["system"] = deployed["system"]
  BY <1>1, <1>2 DEF NodesOwnTheirRuns
<1>7. NodesOwnTheirRuns'
  BY <1>1, <1>2, <1>4, <1>5, <1>6 DEF NodesOwnTheirRuns
<1> QED BY <1>3, <1>7 DEF OperationsInv

\* A closed node is deployed again, with nothing of before.
LEMMA RedeployedKeeps ==
  ASSUME OperationsInv, NEW n \in {"system", "mission"}, Redeployed(n)
  PROVE  OperationsInv'
<1>1. deployed' = [deployed EXCEPT ![n] = "open"] /\ UNCHANGED <<runVars, held, activeByKey>>
  BY DEF Redeployed
<1>2. UNCHANGED <<kind, plan, step, lock, machine, succeeded, failed, outcome, moved>>
  BY <1>1 DEF runVars
<1>3. NodesOwnTheirRuns'
  BY <1>1, <1>2 DEF OperationsInv, NodesOwnTheirRuns, SystemRuns
<1>4. RunsAreFunctions' /\ LocksAreOwn'
  BY <1>1, <1>2 DEF OperationsInv, RunsAreFunctions, LocksAreOwn
<1>5. \A r \in Runs : RunInv(r)'
  BY <1>2, RunIsLeftAlone DEF OperationsInv
<1> QED BY <1>3, <1>4, <1>5 DEF OperationsInv

\* Every step of the System and the Mission node keeps the invariant.
LEMMA OperationsGo ==
  ASSUME OperationsInv, [OperationsNext]_operationVars
  PROVE  OperationsInv'
<1> USE OperationsAssumption
<1>1. ASSUME UNCHANGED operationVars PROVE OperationsInv'
  <2>1. /\ UNCHANGED <<kind, plan, step, lock, machine, succeeded, failed, outcome, moved>>
        /\ UNCHANGED <<held, activeByKey, deployed>>
    BY <1>1 DEF operationVars, runVars
  <2>2. RunsAreFunctions' /\ LocksAreOwn' /\ NodesOwnTheirRuns'
    BY <2>1 DEF OperationsInv, RunsAreFunctions, LocksAreOwn, NodesOwnTheirRuns, SystemRuns
  <2>3. \A r \in Runs : RunInv(r)'
    BY <2>1, RunIsLeftAlone DEF OperationsInv
  <2> QED BY <2>2, <2>3 DEF OperationsInv
<1>2. ASSUME NEW r \in Runs, RunGoesOn(r) PROVE OperationsInv'
  BY <1>2, BundleGoesOnKeeps, SingleGoesOnKeeps, MissionGoesOnKeeps, MachineSettlesKeeps DEF RunGoesOn
<1>3. ASSUME NEW r \in Runs, BundleStarts(r) \/ SingleStarts(r) \/ MissionStarts(r) PROVE OperationsInv'
  BY <1>3, BundleStartsKeeps, SingleStartsKeeps, MissionStartsKeeps
<1>4. ASSUME SystemClosed \/ SystemCloses \/ MissionCloses PROVE OperationsInv'
  BY <1>4, SystemClosedKeeps, SystemClosesKeeps, MissionClosesKeeps
<1>5. ASSUME NEW n \in {"system", "mission"}, Redeployed(n) PROVE OperationsInv'
  BY <1>5, RedeployedKeeps
<1> QED BY <1>1, <1>2, <1>3, <1>4, <1>5 DEF OperationsNext, OperationsGoOn

\* It holds before the first input.
LEMMA OperationsBegin == ASSUME OperationsInit PROVE OperationsInv
<1>1. RunsAreFunctions
  BY DEF OperationsInit, RunsAreFunctions
<1>2. \A r \in Runs : RunInv(r)
  <2> SUFFICES ASSUME NEW r \in Runs PROVE RunInv(r)
    OBVIOUS
  <2>1. /\ kind[r] = "none" /\ plan[r] = << >> /\ step[r] = 0 /\ lock[r] = Free /\ machine[r] = "none"
        /\ outcome[r] = "none" /\ succeeded[r] = {} /\ failed[r] = {} /\ moved[r] = {}
    BY DEF OperationsInit
  <2>2. Listed(<< >>) /\ Len(<< >>) = 0
    BY DEF Listed
  <2>3. RunTyped(r)
    BY <2>1, <2>2 DEF RunTyped
  <2> QED BY <2>1, <2>3 DEF RunInv, RunIsWhole, AccountIsTrue, OutcomeIsTrue
<1>3. LocksAreOwn /\ NodesOwnTheirRuns
  BY DEF OperationsInit, LocksAreOwn, NodesOwnTheirRuns, SystemRuns
<1> QED BY <1>1, <1>2, <1>3 DEF OperationsInv

\* What the invariant says of owners and outcomes.
LEMMA OperationsAreSound == ASSUME OperationsInv PROVE OperationsAreTrue
<1>1. ASSUME NEW r \in Runs PROVE RunInv(r)
  BY DEF OperationsInv
<1>2. OperationsTypeOK
  BY <1>1 DEF OperationsInv, OperationsTypeOK, RunInv, RunTyped, NodesOwnTheirRuns
<1>3. ASSUME NEW r \in Runs, machine[r] # "none" PROVE lock[r] = Subject(r) /\ Open(r)
  BY <1>1, <1>3 DEF RunInv, RunIsWhole, Open
<1>4. ASSUME NEW r \in Runs, NEW s \in Runs, machine[r] = "live", machine[s] = "live", Subject(r) = Subject(s)
      PROVE  r = s
  BY <1>3, <1>4 DEF OperationsInv, LocksAreOwn
<1>5. ASSUME NothingDue
      PROVE  /\ held = {lock[r] : r \in {x \in Runs : machine[x] = "live"}}
             /\ \A r \in Runs : Open(r) <=> machine[r] = "live"
  <2>1. \A r \in Runs : machine[r] # "none" <=> machine[r] = "live"
    BY <1>5 DEF NothingDue, Settled
  <2>2. \A r \in Runs : Open(r) => machine[r] # "none"
    BY <1>1 DEF RunInv, RunIsWhole, Open
  <2>3. \A l : l \in held <=> \E r \in Runs : machine[r] = "live" /\ lock[r] = l
    BY <2>1 DEF OperationsInv, LocksAreOwn
  <2> QED BY <1>3, <2>1, <2>2, <2>3
<1>6. ConversationsAreOwned
  BY <1>2, <1>4, <1>5 DEF ConversationsAreOwned
<1>7. ASSUME NEW r \in Runs
      PROVE  /\ outcome[r] = "succeeded" => moved[r] = {plan[r][i] : i \in DOMAIN plan[r]}
             /\ outcome[r] = "partial" => moved[r] # {} /\ moved[r] # {plan[r][i] : i \in DOMAIN plan[r]}
             /\ outcome[r] \in {"failed", "locked"} => moved[r] = {}
             /\ outcome[r] \in {"succeeded", "partial", "failed"} /\ kind[r] = "bundle" =>
                  succeeded[r] = moved[r] /\ failed[r] = {plan[r][i] : i \in DOMAIN plan[r]} \ moved[r]
  BY <1>1 DEF RunInv, OutcomeIsTrue, Whole
<1>8. ASSUME NEW r \in Runs, machine[r] = "live"
      PROVE  deployed[IF kind[r] = "mission" THEN "mission" ELSE "system"] = "open"
  <2>1. kind[r] \in {"bundle", "single", "mission"}
    BY <1>1, <1>8 DEF RunInv, RunTyped, RunIsWhole
  <2> QED BY <1>8, <2>1 DEF OperationsInv, NodesOwnTheirRuns, SystemRuns
<1>9. OutcomesAreTrue
  BY <1>7, <1>8 DEF OutcomesAreTrue
<1> QED BY <1>6, <1>9 DEF OperationsAreTrue

-----------------------------------------------------------------------------
(* Formation: slots, leaders and runs *)

\* What is assumed of vehicles and lists.
LEMMA FormationIs ==
  /\ Vehicles \subseteq Nat \ {0} /\ Headless \subseteq Vehicles /\ MaxInputs \in Nat
  /\ Lists \subseteq Seq(Nat \ {0})
BY FormationAssumption DEF F!FormationBounds

Shapes == {"line", "column", "wedge", "circle", "sphere", "grid"}

\* A grid has a column.
LEMMA ColumnsAre ==
  ASSUME NEW n \in Nat \ {0}
  PROVE  F!Columns(n) \in Nat \ {0}
<1> DEFINE wide == {c \in 0..n : c * c >= n}
<1>1. n \in wide
  <2>1. n * n >= n
    BY SMT
  <2> QED BY <2>1
<1>2. wide \subseteq Nat
  OBVIOUS
<1>3. PICK least \in wide : \A d \in wide : least <= d
  BY <1>1, <1>2, LeastExists
<1>4. \E c \in 0..n : c * c >= n /\ \A d \in 0..n : d * d >= n => c <= d
  BY <1>3
<1>5. F!Columns(n) \in 0..n /\ F!Columns(n) * F!Columns(n) >= n
  BY <1>4 DEF F!Columns
<1>6. F!Columns(n) # 0
  BY <1>5
<1> QED BY <1>5, <1>6

\* Two places of a grid differ in their row or in their column.
LEMMA PlacesDiffer ==
  ASSUME NEW c \in Nat \ {0}, NEW i \in Nat, NEW j \in Nat, i \div c = j \div c, i % c = j % c
  PROVE  i = j
<1>1. i = c * (i \div c) + (i % c) /\ j = c * (j \div c) + (j % c)
  OBVIOUS
<1> QED BY <1>1

\* Two sides, and one rank for both.
LEMMA SidesDiffer ==
  ASSUME NEW i \in Nat, NEW j \in Nat, F!Side(i) * F!Rank(i) = F!Side(j) * F!Rank(j)
  PROVE  i = j
BY DEF F!Side, F!Rank

\* No two slots of a shape are one place.
LEMMA OffsetsDiffer ==
  ASSUME NEW form \in Shapes, NEW count \in Nat, NEW i \in 0..(count - 1), NEW j \in 0..(count - 1), i # j
  PROVE  F!Offset(form, count, i) # F!Offset(form, count, j)
<1> DEFINE columns == F!Columns(count - 1)
<1>1. columns \in Nat \ {0}
  BY ColumnsAre
<1> HIDE DEF columns
<1>2. \A k \in 0..(count - 1) : k # 0 => F!Offset(form, count, k) # <<0, 0, 0>>
  <2> SUFFICES ASSUME NEW k \in 1..(count - 1)
               PROVE  F!Offset(form, count, k) # <<0, 0, 0>>
    OBVIOUS
  <2>1. CASE form = "line"
    <3>1. F!Side(k) * F!Rank(k) * 2 # 0
      BY DEF F!Side, F!Rank
    <3> QED BY <2>1, <3>1 DEF F!Offset
  <2>2. CASE form = "column"
    BY <2>2 DEF F!Offset
  <2>3. CASE form = "wedge"
    <3>1. -F!Rank(k) * 2 # 0
      BY DEF F!Rank
    <3> QED BY <2>3, <3>1 DEF F!Offset
  <2>4. CASE form \in {"circle", "sphere"}
    BY <2>4 DEF F!Offset
  <2>5. CASE form = "grid"
    <3>1. (k - 1) \div columns >= 0
      BY <1>1
    <3>2. -((k - 1) \div columns + 1) * 2 # 0
      BY <1>1, <3>1
    <3> QED BY <2>5, <3>2 DEF F!Offset, columns
  <2> QED BY <2>1, <2>2, <2>3, <2>4, <2>5 DEF Shapes
<1>3. CASE i = 0 \/ j = 0
  BY <1>2, <1>3 DEF F!Offset, F!Origin
<1>4. CASE i # 0 /\ j # 0
  <2>1. CASE form \in {"line", "wedge"}
    <3>1. F!Side(i) * F!Rank(i) # F!Side(j) * F!Rank(j)
      BY SidesDiffer
    <3>2. \A k \in {i, j} : F!Side(k) * F!Rank(k) \in Int
      BY DEF F!Side, F!Rank
    <3>3. F!Side(i) * F!Rank(i) * 2 # F!Side(j) * F!Rank(j) * 2
      BY <3>1, <3>2
    <3> QED BY <1>4, <2>1, <3>3 DEF F!Offset
  <2>2. CASE form = "column"
    BY <1>4, <2>2 DEF F!Offset
  <2>3. CASE form \in {"circle", "sphere"}
    BY <1>4, <2>3 DEF F!Offset
  <2>4. CASE form = "grid"
    <3> DEFINE row(k) == (k - 1) \div columns
               place(k) == (k - 1) % columns
    <3>1. \A k \in {i, j} : k - 1 \in Nat /\ row(k) \in Int /\ place(k) \in Int
      BY <1>1, <1>4
    <3>2. row(i) # row(j) \/ place(i) # place(j)
      <4>1. \A a, b \in Nat : a \div columns = b \div columns /\ a % columns = b % columns => a = b
        BY <1>1, PlacesDiffer
      <4>2. (i - 1) \in Nat /\ (j - 1) \in Nat /\ i - 1 # j - 1
        BY <1>4
      <4> QED BY <4>1, <4>2, Zenon
    <3>3. \A k \in {i, j} : F!Offset(form, count, k) = <<-(row(k) + 1) * 2, 2 * place(k) - (columns - 1), 0>>
      BY <1>4, <2>4 DEF F!Offset, columns
    <3> HIDE DEF row, place
    <3>4. -(row(i) + 1) * 2 # -(row(j) + 1) * 2 \/ 2 * place(i) - (columns - 1) # 2 * place(j) - (columns - 1)
      BY <1>1, <3>1, <3>2
    <3> QED BY <3>3, <3>4
  <2> QED BY <2>1, <2>2, <2>3, <2>4 DEF Shapes
<1> QED BY <1>3, <1>4

\* Formation counts as everybody does.
LEMMA CardinalityOfFormations == \A S : F!Cardinality(S) = Cardinality(S)
BY DEF F!Cardinality, Cardinality

\* The smaller ones come first.
Ascends(s, ids) ==
  /\ s \in [1..Cardinality(ids) -> ids]
  /\ \A i, j \in 1..Cardinality(ids) : i < j => s[i] < s[j]

\* One more, smaller than all, comes before them.
LEMMA OneMoreAscends ==
  ASSUME NEW ids \in SUBSET Nat, IsFiniteSet(ids), NEW least \in ids, \A x \in ids : least <= x,
         NEW s, Ascends(s, ids \ {least})
  PROVE  \E e : Ascends(e, ids)
<1> DEFINE n == Cardinality(ids)
           e == [i \in 1..n |-> IF i = 1 THEN least ELSE s[i - 1]]
<1>1. n \in Nat /\ n # 0 /\ Cardinality(ids \ {least}) = n - 1
  BY FS_CardinalityType, FS_EmptySet, FS_RemoveElement
<1> HIDE DEF n
<1>2. /\ s \in [1..(n - 1) -> ids \ {least}]
      /\ \A i, j \in 1..(n - 1) : i < j => s[i] < s[j]
  BY <1>1 DEF Ascends
<1>3. \A i \in 1..n : i = 1 \/ i - 1 \in 1..(n - 1)
  BY <1>1
<1>4. \A i \in 1..n : e[i] \in ids /\ (i # 1 => e[i] \in ids \ {least} /\ e[i] = s[i - 1])
  BY <1>2, <1>3
<1>5. ASSUME NEW i \in 1..n, NEW j \in 1..n, i < j
      PROVE  e[i] < e[j]
  <2>1. j # 1 /\ j - 1 \in 1..(n - 1)
    BY <1>3, <1>5
  <2>2. CASE i = 1
    <3>1. e[i] = least /\ e[j] \in ids \ {least}
      BY <1>4, <2>1, <2>2
    <3>2. least <= e[j] /\ e[j] \in Nat /\ least \in Nat /\ e[j] # least
      BY <3>1
    <3> QED BY <3>1, <3>2
  <2>3. CASE i # 1
    <3>1. i - 1 \in 1..(n - 1) /\ i - 1 < j - 1
      BY <1>3, <1>5, <2>3
    <3>2. s[i - 1] < s[j - 1]
      BY <1>2, <2>1, <3>1
    <3> QED BY <1>4, <2>1, <2>3, <3>2
  <2> QED BY <2>2, <2>3
<1>6. e \in [1..n -> ids]
  BY <1>4
<1> HIDE DEF e
<1>7. Ascends(e, ids)
  BY <1>5, <1>6 DEF Ascends, n
<1> QED BY <1>7

\* Numbers can be sorted: fewest first, a set that cannot would have a smaller one.
LEMMA AscendingExists ==
  ASSUME NEW ids \in SUBSET Nat, IsFiniteSet(ids)
  PROVE  \E s : Ascends(s, ids)
<1> DEFINE Unsorted(T) == ~\E s : Ascends(s, T)
           bad == {n \in Nat : \E T \in SUBSET ids : Cardinality(T) = n /\ Unsorted(T)}
<1>1. \A T \in SUBSET ids : IsFiniteSet(T) /\ Cardinality(T) \in Nat
  BY FS_Subset, FS_CardinalityType
<1>2. ASSUME bad # {}
      PROVE  FALSE
  <2>1. PICK n \in bad : \A m \in bad : n <= m
    BY <1>2, LeastExists
  <2>2. PICK T \in SUBSET ids : Cardinality(T) = n /\ Unsorted(T)
    BY <2>1
  <2>3. IsFiniteSet(T) /\ T \in SUBSET Nat /\ n \in Nat
    BY <1>1, <2>1, <2>2
  <2>4. T # {}
    <3> SUFFICES ASSUME T = {} PROVE FALSE
      OBVIOUS
    <3>1. Cardinality(T) = 0
      BY FS_EmptySet
    <3>2. Ascends([i \in 1..0 |-> i], T)
      BY <3>1 DEF Ascends
    <3> QED BY <2>2, <3>2
  <2>5. PICK least \in T : \A x \in T : least <= x
    BY <2>3, <2>4, LeastExists
  <2>6. Cardinality(T \ {least}) = n - 1 /\ T \ {least} \in SUBSET ids
    BY <2>2, <2>3, FS_RemoveElement
  <2>7. n - 1 \in Nat
    BY <1>1, <2>6
  <2>8. n - 1 \notin bad
    BY <2>1, <2>3
  <2>9. ~Unsorted(T \ {least})
    BY <2>6, <2>7, <2>8
  <2>10. PICK s : Ascends(s, T \ {least})
    BY <2>9
  <2> QED BY <2>2, <2>3, <2>5, <2>10, OneMoreAscends
<1>3. Cardinality(ids) \notin bad
  BY <1>2
<1> QED BY <1>1, <1>3

\* What is sorted holds every number, each at the place that its rank gives it.
LEMMA AscendingRanks ==
  ASSUME NEW ids \in SUBSET Nat, IsFiniteSet(ids), NEW s, Ascends(s, ids)
  PROVE  /\ \A x \in ids : \E i \in 1..Cardinality(ids) : s[i] = x
         /\ \A k \in 1..Cardinality(ids) : Cardinality({x \in ids : x < s[k]}) = k - 1
<1> DEFINE n == Cardinality(ids)
<1>1. n \in Nat
  BY FS_CardinalityType
<1>2. IsFiniteSet(1..n) /\ Cardinality(1..n) = n
  BY <1>1, FS_Interval
<1> HIDE DEF n
<1>3. s \in [1..n -> ids] /\ \A i, j \in 1..n : i < j => s[i] < s[j]
  BY DEF Ascends, n
<1>4. \A i \in 1..n : s[i] \in ids /\ s[i] \in Nat
  BY <1>3
<1>5. \A i, j \in 1..n : s[i] < s[j] => i < j
  <2> SUFFICES ASSUME NEW i \in 1..n, NEW j \in 1..n, s[i] < s[j], ~(i < j)
               PROVE  FALSE
    OBVIOUS
  <2>1. i = j \/ j < i
    BY <1>1
  <2>2. j < i => s[j] < s[i]
    BY <1>3
  <2> QED BY <1>4, <2>1, <2>2
<1>6. \A i, j \in 1..n : s[i] = s[j] => i = j
  <2> SUFFICES ASSUME NEW i \in 1..n, NEW j \in 1..n, s[i] = s[j], i # j
               PROVE  FALSE
    OBVIOUS
  <2>1. i < j \/ j < i
    BY <1>1
  <2>2. s[i] < s[j] \/ s[j] < s[i]
    BY <1>3, <2>1
  <2> QED BY <1>4, <2>2
<1>7. s \in Injection(1..n, ids)
  BY <1>3, <1>6 DEF Injection, IsInjective
<1>8. s \in Surjection(1..n, ids)
  BY <1>2, <1>7, FS_Injection DEF n
<1>9. \A x \in ids : \E i \in 1..n : s[i] = x
  BY <1>8 DEF Surjection
<1>10. ASSUME NEW k \in 1..n
       PROVE  Cardinality({x \in ids : x < s[k]}) = k - 1
  <2> DEFINE below == {x \in ids : x < s[k]}
             first == [i \in 1..(k - 1) |-> s[i]]
  <2>1. \A i \in 1..(k - 1) : i \in 1..n /\ i < k
    BY <1>1
  <2>2. \A i \in 1..(k - 1) : s[i] \in below
    BY <1>3, <1>4, <2>1
  <2>3. first \in [1..(k - 1) -> below]
    BY <2>2
  <2>4. first \in Injection(1..(k - 1), below)
    BY <1>6, <2>1, <2>3 DEF Injection, IsInjective
  <2>5. ASSUME NEW x \in below
        PROVE  \E i \in 1..(k - 1) : first[i] = x
    <3>1. PICK i \in 1..n : s[i] = x
      BY <1>9
    <3>2. i < k
      BY <1>5, <3>1
    <3>3. i \in 1..(k - 1)
      BY <1>1, <3>2
    <3> QED BY <3>1, <3>3
  <2>6. first \in Surjection(1..(k - 1), below)
    BY <2>3, <2>5 DEF Surjection
  <2>7. ExistsBijection(1..(k - 1), below)
    BY <2>4, <2>6 DEF ExistsBijection, Bijection
  <2>8. IsFiniteSet(1..(k - 1)) /\ Cardinality(1..(k - 1)) = k - 1
    BY <1>1, FS_Interval
  <2> QED BY <2>7, <2>8, FS_Bijection
<1> QED BY <1>9, <1>10 DEF n

\* The order of the followers.
LEMMA AscendingIs ==
  ASSUME NEW ids \in SUBSET Nat, IsFiniteSet(ids)
  PROVE  Ascends(F!Ascending(ids), ids)
<1> DEFINE all == [1..Cardinality(ids) -> ids]
           Sorted(s) == \A i, j \in 1..Cardinality(ids) : i < j => s[i] < s[j]
<1>1. \E s \in all : Sorted(s)
  BY AscendingExists DEF Ascends
<1>2. F!Ascending(ids) = CHOOSE s \in all : Sorted(s)
  <2>1. F!Cardinality(ids) = Cardinality(ids)
    BY CardinalityOfFormations
  <2> QED BY <2>1 DEF F!Ascending
<1>3. F!Ascending(ids) \in all /\ Sorted(F!Ascending(ids))
  <2> HIDE DEF all, Sorted
  <2> QED BY <1>1, <1>2
<1> QED BY <1>3 DEF Ascends

\* One in front of the others.
LEMMA OneInFront ==
  ASSUME NEW S, NEW x \in S, NEW s \in Seq(S)
  PROVE  /\ <<x>> \o s \in Seq(S) /\ Len(<<x>> \o s) = Len(s) + 1 /\ (<<x>> \o s)[1] = x
         /\ \A k \in 1..Len(s) : (<<x>> \o s)[k + 1] = s[k]
<1>1. <<x>> \o s \in Seq(S) /\ Len(<<x>> \o s) = Len(s) + 1
  OBVIOUS
<1>2. (<<x>> \o s)[1] = x
  OBVIOUS
<1>3. \A k \in 1..Len(s) : (<<x>> \o s)[k + 1] = s[k]
  OBVIOUS
<1> QED BY <1>1, <1>2, <1>3

\* Some ids with a leader in front, or none.
LEMMA LedIs ==
  ASSUME NEW leader \in Nat, NEW others, NEW n \in Nat, NEW s \in [1..n -> others], NEW first,
         first = IF leader = 0 THEN 0 ELSE 1, NEW ids, ids = IF leader = 0 THEN s ELSE <<leader>> \o s
  PROVE  /\ Len(ids) = n + first /\ DOMAIN ids = 1..(n + first)
         /\ \A k \in 1..n : ids[k + first] = s[k]
         /\ leader # 0 => ids[1] = leader
<1>1. s \in Seq(others) /\ Len(s) = n
  OBVIOUS
<1>2. CASE leader = 0
  BY <1>1, <1>2
<1>3. CASE leader # 0
  <2> DEFINE all == others \cup {leader}
  <2>1. ids = <<leader>> \o s /\ first = 1
    BY <1>3
  <2>2. leader \in all /\ s \in Seq(all)
    BY <1>1
  <2> HIDE DEF all
  <2>3. /\ ids \in Seq(all) /\ Len(ids) = Len(s) + 1 /\ ids[1] = leader
        /\ \A k \in 1..Len(s) : ids[k + 1] = s[k]
    BY <2>1, <2>2, OneInFront
  <2> QED BY <1>1, <2>1, <2>3
<1> QED BY <1>2, <1>3

\* Whom a list names but the leader, and the slots that are not the leader's.
Followers(list, leader) == {id \in F!Range(list) : id # leader}
Followed(ids, leader) == {t \in F!formationTargets(ids) : t.sysid # leader}

\* A leader leads, the followers are in their order, and each has a slot.
First(leader) == IF leader = 0 THEN 0 ELSE 1
InOrder(others, leader) == IF leader = 0 THEN F!Ascending(others) ELSE <<leader>> \o F!Ascending(others)
SlotOf(others, leader, k) ==
  [sysid |-> F!Ascending(others)[k],
   at |-> F!Offset(shape, Cardinality(others) + First(leader), k + First(leader) - 1)]

\* The slots of a run: one for each follower, by its rank.
LEMMA TargetsAre ==
  ASSUME NEW leader \in Nat, NEW others \in SUBSET Nat, IsFiniteSet(others), leader \notin others, 0 \notin others
  PROVE  /\ \A k \in 1..Cardinality(others) : SlotOf(others, leader, k) \in Followed(InOrder(others, leader), leader)
         /\ \A t \in Followed(InOrder(others, leader), leader) :
              \E k \in 1..Cardinality(others) : t = SlotOf(others, leader, k)
<1> DEFINE n == Cardinality(others)
           first == First(leader)
           s == F!Ascending(others)
           ids == InOrder(others, leader)
           Slot(i) == [sysid |-> ids[i], at |-> F!Offset(shape, Len(ids), i - 1)]
<1>0. first = (IF leader = 0 THEN 0 ELSE 1) /\ ids = IF leader = 0 THEN s ELSE <<leader>> \o s
  BY DEF First, InOrder
<1>1. n \in Nat
  BY FS_CardinalityType
<1>2. s \in [1..n -> others]
  BY AscendingIs DEF Ascends, s
<1> HIDE DEF n, first, s, ids
<1>3. /\ Len(ids) = n + first /\ DOMAIN ids = 1..(n + first)
      /\ \A k \in 1..n : ids[k + first] = s[k]
      /\ leader # 0 => ids[1] = leader
  BY <1>0, <1>1, <1>2, LedIs
<1>4. F!formationTargets(ids) = {Slot(i) : i \in 1..(n + first)}
  <2>1. F!formationTargets(ids) = {Slot(i) : i \in DOMAIN ids}
    BY DEF F!formationTargets
  <2> QED BY <1>3, <2>1
<1>5. \A k \in 1..n : s[k] # leader /\ k + first \in 1..(n + first)
  BY <1>0, <1>1, <1>2
<1>6. ASSUME NEW k \in 1..n
      PROVE  Slot(k + first) \in Followed(ids, leader)
  BY <1>3, <1>4, <1>5 DEF Followed
<1>7. \A k \in 1..n : Slot(k + first) = [sysid |-> s[k], at |-> F!Offset(shape, n + first, k + first - 1)]
  <2> SUFFICES ASSUME NEW k \in 1..n
               PROVE  Slot(k + first) = [sysid |-> s[k], at |-> F!Offset(shape, n + first, k + first - 1)]
    OBVIOUS
  <2>1. ids[k + first] = s[k]
    BY <1>3
  <2>2. (k + first) - 1 = k + first - 1
    BY <1>1, <1>0
  <2>3. Len(ids) = n + first
    BY <1>3
  <2> QED BY <2>1, <2>2, <2>3
<1>8. ASSUME NEW t \in Followed(ids, leader)
      PROVE  \E k \in 1..n : t = Slot(k + first)
  <2>1. PICK i \in 1..(n + first) : t = Slot(i)
    BY <1>4 DEF Followed
  <2>2. ids[i] # leader
    BY <2>1 DEF Followed
  <2>3. i - first \in 1..n /\ i = (i - first) + first
    BY <1>0, <1>1, <1>3, <2>2
  <2> QED BY <2>1, <2>3
<1> HIDE DEF Slot
<1>9. /\ \A k \in 1..n : [sysid |-> s[k], at |-> F!Offset(shape, n + first, k + first - 1)]
                           \in Followed(ids, leader)
      /\ \A t \in Followed(ids, leader) :
           \E k \in 1..n : t = [sysid |-> s[k], at |-> F!Offset(shape, n + first, k + first - 1)]
  BY <1>6, <1>7, <1>8
<1> QED BY <1>9 DEF n, first, s, ids, SlotOf

\* A list names finitely many, and nobody is not among them.
LEMMA FollowersAre ==
  ASSUME NEW list \in Seq(Nat \ {0}), NEW leader
  PROVE  /\ Followers(list, leader) \in SUBSET Nat /\ IsFiniteSet(Followers(list, leader))
         /\ leader \notin Followers(list, leader) /\ 0 \notin Followers(list, leader)
<1>1. F!Range(list) \subseteq Nat \ {0} /\ list \in [1..Len(list) -> F!Range(list)] /\ Len(list) \in Nat
  BY DEF F!Range
<1>2. list \in Surjection(1..Len(list), F!Range(list))
  BY <1>1 DEF Surjection, F!Range
<1>3. IsFiniteSet(F!Range(list))
  BY <1>1, <1>2, FS_Interval, FS_Surjection
<1>4. Followers(list, leader) \subseteq F!Range(list) /\ leader \notin Followers(list, leader)
  BY DEF Followers
<1> QED BY <1>1, <1>3, <1>4, FS_Subset

\* What is begun for an input: everybody but the leader has the slot of its rank.
LEMMA RunIsRight ==
  ASSUME NEW leader \in Nat, NEW heading \in BOOLEAN, NEW list \in Seq(Nat \ {0}), shape \in Shapes,
         NEW r, r = F!Run(leader, heading, list)
  PROVE  /\ F!RunIsTrue(r) /\ r.left \subseteq r.targets
         /\ r.leader = leader /\ r.phase \in {"empty", "runs"}
<1> DEFINE others == Followers(list, leader)
           first == First(leader)
           s == F!Ascending(others)
           ids == InOrder(others, leader)
           targets == Followed(ids, leader)
           members == {t \in targets : t.sysid \in Vehicles /\ fleet[t.sysid].state = "active"}
           n == Cardinality(others)
           Slot(k) == [sysid |-> s[k], at |-> F!Offset(shape, n + first, k + first - 1)]
<1>1. r = [leader |-> leader, heading |-> heading, list |-> list, targets |-> targets,
           left |-> members, sent |-> {}, phase |-> IF members = {} THEN "empty" ELSE "runs"]
  BY DEF F!Run, Followers, Followed, InOrder
<1>2. /\ r.leader = leader /\ r.heading = heading /\ r.list = list /\ r.targets = targets
      /\ r.left = members /\ r.sent = {} /\ r.phase \in {"empty", "runs"}
  <2> HIDE DEF targets, members
  <2> QED BY <1>1
<1>3. members \subseteq targets
  OBVIOUS
<1>5. others \in SUBSET Nat /\ IsFiniteSet(others) /\ leader \notin others /\ 0 \notin others
  BY FollowersAre
<1> HIDE DEF others, members
<1>6. n \in Nat /\ Ascends(s, others)
  BY <1>5, FS_CardinalityType, AscendingIs
<1>7. /\ \A k \in 1..n : Slot(k) \in targets
      /\ \A t \in targets : \E k \in 1..n : t = Slot(k)
  BY <1>5, TargetsAre DEF SlotOf
<1>8. /\ \A x \in others : \E k \in 1..n : s[k] = x
      /\ \A k \in 1..n : Cardinality({x \in others : x < s[k]}) = k - 1
  BY <1>5, <1>6, AscendingRanks
<1> HIDE DEF targets, ids
<1>9. /\ s \in [1..n -> others]
      /\ \A i, j \in 1..n : i < j => s[i] < s[j]
  BY <1>6 DEF Ascends
<1>10. first \in {0, 1} /\ (leader # 0 => first = 1)
  BY DEF First
<1> HIDE DEF s, n, first
<1>11. \A k \in 1..n : s[k] \in others /\ s[k] \in Nat
  BY <1>5, <1>9
<1>12. {t.sysid : t \in targets} = others
  <2>1. \A t \in targets : t.sysid \in others
    BY <1>7, <1>11
  <2>2. \A x \in others : \E t \in targets : t.sysid = x
    BY <1>7, <1>8
  <2> QED BY <2>1, <2>2
<1>13. ASSUME NEW k \in 1..n
       PROVE  k + first - 1 \in 0..((n + first) - 1)
  BY <1>6, <1>10
<1>18. \A i, j \in 0..((n + first) - 1) : i # j => F!Offset(shape, n + first, i) # F!Offset(shape, n + first, j)
  <2> DEFINE count == n + first
  <2>1. count \in Nat
    BY <1>6, <1>10
  <2> HIDE DEF count
  <2>2. \A i, j \in 0..(count - 1) : i # j => F!Offset(shape, count, i) # F!Offset(shape, count, j)
    BY <2>1, OffsetsDiffer
  <2> QED BY <2>2 DEF count
<1>14. ASSUME NEW a \in targets, NEW b \in targets, a # b
       PROVE  a.at # b.at /\ a.sysid # b.sysid
  <2>1. PICK i \in 1..n, j \in 1..n : a = Slot(i) /\ b = Slot(j)
    BY <1>7
  <2>2. i # j
    BY <1>14, <2>1
  <2>3. s[i] # s[j]
    <3>1. i < j \/ j < i
      BY <1>6, <2>2
    <3>2. s[i] < s[j] \/ s[j] < s[i]
      BY <1>9, <3>1
    <3> QED BY <1>11, <3>2
  <2>4. F!Offset(shape, n + first, i + first - 1) # F!Offset(shape, n + first, j + first - 1)
    <3>1. i + first - 1 # j + first - 1
      BY <1>6, <1>10, <2>2
    <3> QED BY <1>13, <1>18, <3>1, Zenon
  <2> QED BY <2>1, <2>3, <2>4
<1>15. ASSUME NEW t \in targets, leader # 0
       PROVE  t.at # F!Origin
  <2>1. PICK k \in 1..n : t = Slot(k)
    BY <1>7
  <2>2. k + first - 1 # 0 /\ 0 \in 0..((n + first) - 1)
    BY <1>6, <1>10, <1>15
  <2>3. F!Offset(shape, n + first, k + first - 1) # F!Offset(shape, n + first, 0)
    BY <1>13, <1>18, <2>2, Zenon
  <2>4. F!Offset(shape, n + first, 0) = F!Origin
    BY DEF F!Offset
  <2> QED BY <2>1, <2>3, <2>4
<1>16. ASSUME NEW t \in targets
       PROVE  t.at = F!Offset(shape, n + first, first + Cardinality({id \in others : id < t.sysid}))
  <2>1. PICK k \in 1..n : t = Slot(k)
    BY <1>7
  <2>2. Cardinality({id \in others : id < t.sysid}) = k - 1
    BY <1>8, <2>1
  <2>3. first + (k - 1) = k + first - 1
    BY <1>6, <1>10
  <2> QED BY <2>1, <2>2, <2>3
<1>17. F!RunIsTrue(r)
  <2>1. \A T : F!Cardinality(T) = Cardinality(T)
    BY CardinalityOfFormations
  <2>2. F!RunIsTrue(r) <=>
          /\ r.phase # "failed" => {t.sysid : t \in targets} = others
          /\ \A a, b \in targets : a # b => a.at # b.at /\ a.sysid # b.sysid
          /\ \A t \in targets :
               /\ leader # 0 => t.at # F!Origin
               /\ t.at = F!Offset(shape, F!Cardinality(others) + first, first + F!Cardinality({id \in others : id < t.sysid}))
          /\ r.sent \subseteq targets
          /\ ~heading => r.sent = {}
    BY <1>2 DEF F!RunIsTrue, others, first, First, Followers
  <2> QED BY <1>2, <1>12, <1>14, <1>15, <1>16, <2>1, <2>2 DEF n
<1> QED BY <1>2, <1>3, <1>17

\* The least of some numbers.
LEMMA LeastIs ==
  ASSUME NEW S \in SUBSET Nat, S # {}
  PROVE  F!Min(S) \in S /\ \A y \in S : F!Min(S) <= y
<1>1. \E x \in S : \A y \in S : x <= y
  BY LeastExists
<1> QED BY <1>1 DEF F!Min

\* Who leads: a vehicle, and it is fit to.
LEMMA LeaderIsResolved ==
  ASSUME configuredLeader \in Vehicles, promoteLeader \in BOOLEAN,
         NEW r, r.leader = F!resolveLeader
  PROVE  r.leader \in Vehicles /\ F!LeaderIsFit(r)
<1> DEFINE live == {v \in Vehicles : F!CanAnchor(v)}
           above == {v \in live : v > configuredLeader}
           leader == r.leader
<1>1. Vehicles \subseteq Nat \ {0}
  BY FormationIs
<1>2. leader = IF ~promoteLeader \/ configuredLeader \in live \/ live = {} THEN configuredLeader
               ELSE F!Min(IF above # {} THEN above ELSE live)
  BY DEF F!resolveLeader
<1>3. \A v : F!CanAnchor(v) <=> fleet[v].state = "active" /\ fleet[v].fix
  BY DEF F!CanAnchor
<1>4. F!LeaderIsFit(r) <=>
        (leader # 0 =>
           /\ leader # configuredLeader => promoteLeader /\ ~F!CanAnchor(configuredLeader) /\ F!CanAnchor(leader)
           /\ promoteLeader /\ (\E v \in Vehicles : F!CanAnchor(v)) => F!CanAnchor(leader)
           /\ leader > configuredLeader => \A v \in configuredLeader..(leader - 1) : v \in Vehicles => ~F!CanAnchor(v)
           /\ leader < configuredLeader => \A v \in Vehicles : F!CanAnchor(v) => v >= leader /\ v < configuredLeader)
  BY <1>3, Zenon DEF F!LeaderIsFit
<1>5. CASE ~promoteLeader \/ configuredLeader \in live \/ live = {}
  BY <1>1, <1>2, <1>4, <1>5
<1>6. CASE promoteLeader /\ configuredLeader \notin live /\ live # {} /\ above # {}
  <2>1. above \in SUBSET Nat /\ leader = F!Min(above)
    BY <1>1, <1>2, <1>6
  <2>2. leader \in above /\ \A y \in above : leader <= y
    BY <1>6, <2>1, LeastIs
  <2>3. configuredLeader \in Nat /\ leader \in Vehicles /\ leader \in Nat
    BY <1>1, <2>2
  <2>4. ~F!CanAnchor(configuredLeader) /\ F!CanAnchor(leader) /\ leader > configuredLeader
    BY <1>6, <2>2
  <2>5. ASSUME NEW v \in configuredLeader..(leader - 1), v \in Vehicles, F!CanAnchor(v)
        PROVE  FALSE
    <3>1. v # configuredLeader /\ v \in Int /\ v >= configuredLeader /\ v < leader
      BY <2>3, <2>4, <2>5
    <3>2. v \in above
      BY <2>3, <2>5, <3>1
    <3> QED BY <2>2, <2>3, <3>1, <3>2
  <2> HIDE DEF live, above
  <2>6. ~(leader < configuredLeader)
    BY <2>3, <2>4
  <2> QED BY <1>4, <1>6, <2>3, <2>4, <2>5, <2>6
<1>7. CASE promoteLeader /\ configuredLeader \notin live /\ live # {} /\ above = {}
  <2>1. live \in SUBSET Nat /\ leader = F!Min(live)
    BY <1>1, <1>2, <1>7
  <2>2. leader \in live /\ \A y \in live : leader <= y
    BY <1>7, <2>1, LeastIs
  <2>3. \A v \in live : v < configuredLeader
    BY <1>1, <1>7
  <2> QED BY <1>1, <1>4, <1>7, <2>2, <2>3
<1> QED BY <1>5, <1>6, <1>7

-----------------------------------------------------------------------------
(* Formation: its invariant *)

\* A run: its record, and what holds of it.
RunIsSound(r) ==
  /\ r = [leader |-> r.leader, heading |-> r.heading, list |-> r.list, targets |-> r.targets,
          left |-> r.left, sent |-> r.sent, phase |-> r.phase]
  /\ r.left \subseteq r.targets /\ F!RunIsTrue(r)

FormationInv ==
  /\ shape \in Shapes /\ configuredLeader \in Vehicles /\ promoteLeader \in BOOLEAN
  /\ \E S : runs \in Seq(S)
  /\ \A k \in DOMAIN runs : RunIsSound(runs[k])
  /\ ~open => \A k \in DOMAIN runs : runs[k].phase # "runs"

\* A run of an input is sound.
LEMMA RunBegins ==
  ASSUME NEW leader \in Nat, NEW heading \in BOOLEAN, NEW list \in Seq(Nat \ {0}), shape \in Shapes
  PROVE  RunIsSound(F!Run(leader, heading, list)) /\ F!Run(leader, heading, list).leader = leader
<1> DEFINE r == F!Run(leader, heading, list)
<1>1. F!RunIsTrue(r) /\ r.left \subseteq r.targets /\ r.leader = leader
  BY RunIsRight
<1>2. \E l, h, i, t, m, s, p :
        r = [leader |-> l, heading |-> h, list |-> i, targets |-> t, left |-> m, sent |-> s, phase |-> p]
  BY DEF F!Run
<1> HIDE DEF r
<1>3. r = [leader |-> r.leader, heading |-> r.heading, list |-> r.list, targets |-> r.targets,
           left |-> r.left, sent |-> r.sent, phase |-> r.phase]
  BY <1>2
<1> QED BY <1>1, <1>3 DEF RunIsSound, r

\* An input that fails has no slots.
LEMMA CrateredIsSound ==
  ASSUME NEW list
  PROVE  RunIsSound(F!Cratered(list)) /\ F!Cratered(list).leader = 0
<1> DEFINE r == F!Cratered(list)
<1>1. r = [leader |-> 0, heading |-> FALSE, list |-> list, targets |-> {},
           left |-> {}, sent |-> {}, phase |-> "failed"]
  BY DEF F!Cratered
<1> HIDE DEF r
<1>2. /\ r.leader = 0 /\ r.heading = FALSE /\ r.list = list /\ r.targets = {}
      /\ r.left = {} /\ r.sent = {} /\ r.phase = "failed"
  BY <1>1
<1>3. F!RunIsTrue(r)
  BY <1>2 DEF F!RunIsTrue
<1> QED BY <1>1, <1>2, <1>3 DEF RunIsSound, r

\* A run that goes on: less is left, and what is sent are slots of a heading that is known.
LEMMA SoundRunGoesOn ==
  ASSUME NEW r, RunIsSound(r), NEW left, left \subseteq r.left, NEW flown, NEW phase,
         flown \subseteq r.targets, ~r.heading => flown = r.sent,
         phase \in {"reported", "cancelled", r.phase}, r.phase # "failed",
         NEW q, q = [leader |-> r.leader, heading |-> r.heading, list |-> r.list, targets |-> r.targets,
                     left |-> left, sent |-> flown, phase |-> phase]
  PROVE  RunIsSound(q)
<1>1. /\ q.leader = r.leader /\ q.heading = r.heading /\ q.list = r.list /\ q.targets = r.targets
      /\ q.left = left /\ q.sent = flown /\ q.phase = phase
  OBVIOUS
<1>2. F!RunIsTrue(r) /\ r.left \subseteq r.targets
  BY DEF RunIsSound
<1>3. F!RunIsTrue(q)
  <2>1. ~q.heading => q.sent = {}
    BY <1>1, <1>2 DEF F!RunIsTrue
  <2>2. q.phase # "failed" /\ q.sent \subseteq q.targets
    BY <1>1
  <2> QED BY <1>1, <1>2, <2>1, <2>2 DEF F!RunIsTrue
<1>4. q.left \subseteq q.targets
  BY <1>1, <1>2
<1>5. q = [leader |-> q.leader, heading |-> q.heading, list |-> q.list, targets |-> q.targets,
           left |-> q.left, sent |-> q.sent, phase |-> q.phase]
  BY <1>1
<1> QED BY <1>3, <1>4, <1>5 DEF RunIsSound

\* One more run.
LEMMA OneMoreRun ==
  ASSUME NEW S, NEW s \in Seq(S), NEW r
  PROVE  /\ Append(s, r) \in Seq(S \cup {r}) /\ Len(Append(s, r)) = Len(s) + 1
         /\ DOMAIN Append(s, r) = 1..(Len(s) + 1) /\ DOMAIN s = 1..Len(s) /\ Len(s) \in Nat
         /\ Append(s, r)[Len(s) + 1] = r /\ \A k \in DOMAIN s : Append(s, r)[k] = s[k]
<1>1. s \in Seq(S \cup {r})
  OBVIOUS
<1> QED BY <1>1

\* What the property says of a step.
FormationStep ==
  /\ \A k \in DOMAIN runs' : F!RunIsTrue(runs'[k])
  /\ Len(runs') > Len(runs) => F!LeaderIsFit(runs'[Len(runs')])
  /\ \A k \in DOMAIN runs : runs'[k].sent # runs[k].sent => open

\* Where the configuration stays, what holds of the runs holds of the next state.
LEMMA SoundnessStays ==
  ASSUME UNCHANGED shape, NEW r, RunIsSound(r)
  PROVE  RunIsSound(r)'
BY DEF RunIsSound, F!RunIsTrue

\* Input.
LEMMA InputKeeps ==
  ASSUME FormationInv, NEW list \in Lists, NEW given \in BOOLEAN, NEW facing \in BOOLEAN,
         F!Input(list, given, facing)
  PROVE  FormationInv' /\ FormationStep
<1>1. PICK S : runs \in Seq(S)
  BY DEF FormationInv
<1>2. /\ \A k \in DOMAIN runs : RunIsSound(runs[k])
      /\ shape \in Shapes /\ configuredLeader \in Vehicles /\ promoteLeader \in BOOLEAN
  BY DEF FormationInv
<1>3. list \in Seq(Nat \ {0}) /\ Vehicles \subseteq Nat
  BY FormationIs
<1>4. /\ open /\ UNCHANGED open
      /\ UNCHANGED <<shape, configuredLeader, promoteLeader>>
      /\ \E r : /\ runs' = Append(runs, r)
                /\ \/ r = F!Run(0, facing, list)
                   \/ r = F!Cratered(list)
                   \/ r = F!Run(F!resolveLeader, facing \/ F!resolveLeader \notin Headless, list)
  BY DEF F!Input, F!formationConfig
<1>5. PICK r : /\ runs' = Append(runs, r)
               /\ \/ r = F!Run(0, facing, list)
                  \/ r = F!Cratered(list)
                  \/ r = F!Run(F!resolveLeader, facing \/ F!resolveLeader \notin Headless, list)
  BY <1>4
<1>6. RunIsSound(r) /\ F!LeaderIsFit(r)
  <2>1. CASE r = F!Run(0, facing, list)
    <3>1. RunIsSound(r) /\ r.leader = 0
      BY <1>2, <1>3, <2>1, RunBegins
    <3> QED BY <3>1 DEF F!LeaderIsFit
  <2>2. CASE r = F!Cratered(list)
    <3>1. RunIsSound(r) /\ r.leader = 0
      BY <2>2, CrateredIsSound
    <3> QED BY <3>1 DEF F!LeaderIsFit
  <2>3. CASE r = F!Run(F!resolveLeader, facing \/ F!resolveLeader \notin Headless, list)
    <3> DEFINE leader == F!resolveLeader
               heading == facing \/ leader \notin Headless
    <3>1. leader \in Nat
      <4>1. [leader |-> leader].leader = leader
        OBVIOUS
      <4>2. leader \in Vehicles
        BY <1>2, <4>1, LeaderIsResolved
      <4> QED BY <1>3, <4>2
    <3>2. heading \in BOOLEAN
      OBVIOUS
    <3>3. r = F!Run(leader, heading, list)
      BY <2>3
    <3> HIDE DEF leader, heading
    <3>4. RunIsSound(r) /\ r.leader = leader
      BY <1>2, <1>3, <3>1, <3>2, <3>3, RunBegins
    <3>5. r.leader = F!resolveLeader
      BY <3>4 DEF leader
    <3> QED BY <1>2, <3>4, <3>5, LeaderIsResolved
  <2> QED BY <1>5, <2>1, <2>2, <2>3
<1>7. /\ runs' \in Seq(S \cup {r}) /\ Len(runs') = Len(runs) + 1
      /\ DOMAIN runs' = 1..(Len(runs) + 1) /\ DOMAIN runs = 1..Len(runs) /\ Len(runs) \in Nat
      /\ runs'[Len(runs) + 1] = r /\ \A k \in DOMAIN runs : runs'[k] = runs[k]
  BY <1>1, <1>5, OneMoreRun
<1>8. \A k \in DOMAIN runs' : RunIsSound(runs'[k])
  BY <1>2, <1>6, <1>7
<1>9. FormationStep
  <2>1. \A k \in DOMAIN runs' : F!RunIsTrue(runs'[k])
    BY <1>8 DEF RunIsSound
  <2>2. runs'[Len(runs')] = r
    BY <1>7
  <2> QED BY <1>4, <1>6, <2>1, <2>2 DEF FormationStep
<1>10. FormationInv'
  <2>1. \A k \in DOMAIN runs' : RunIsSound(runs[k])'
    BY <1>4, <1>8, SoundnessStays
  <2> QED BY <1>2, <1>4, <1>7, <2>1 DEF FormationInv
<1> QED BY <1>9, <1>10

\* Commands: one slot less is left, and it is sent only where the heading is known.
LEMMA CommandsKeeps ==
  ASSUME FormationInv, NEW k \in DOMAIN runs, F!Commands(k)
  PROVE  FormationInv' /\ FormationStep
<1>1. PICK S : runs \in Seq(S)
  BY DEF FormationInv
<1>2. /\ \A i \in DOMAIN runs : RunIsSound(runs[i])
      /\ shape \in Shapes /\ configuredLeader \in Vehicles /\ promoteLeader \in BOOLEAN
  BY DEF FormationInv
<1> DEFINE r == runs[k]
           Done(next) == [r EXCEPT !.left = @ \ {next},
                                   !.sent = IF fleet[next.sysid].state = "active" /\ r.heading THEN @ \cup {next} ELSE @,
                                   !.phase = IF r.left = {next} THEN "reported" ELSE @]
<1>3. /\ UNCHANGED <<shape, configuredLeader, promoteLeader, open>> /\ r.phase = "runs"
      /\ \E next \in r.left : runs' = [runs EXCEPT ![k] = Done(next)]
  BY DEF F!Commands, F!formationConfig
<1>4. PICK next \in r.left : runs' = [runs EXCEPT ![k] = Done(next)]
  BY <1>3
<1>5. open
  BY <1>3 DEF FormationInv
<1>6. RunIsSound(r)
  BY <1>2
<1> DEFINE left == r.left \ {next}
           flown == IF fleet[next.sysid].state = "active" /\ r.heading THEN r.sent \cup {next} ELSE r.sent
           phase == IF r.left = {next} THEN "reported" ELSE r.phase
           q == Done(next)
<1>7. q = [leader |-> r.leader, heading |-> r.heading, list |-> r.list, targets |-> r.targets,
           left |-> left, sent |-> flown, phase |-> phase]
  <2>1. r = [leader |-> r.leader, heading |-> r.heading, list |-> r.list, targets |-> r.targets,
             left |-> r.left, sent |-> r.sent, phase |-> r.phase]
    BY <1>6 DEF RunIsSound
  <2>2. q = [r EXCEPT !.left = left, !.sent = flown, !.phase = phase]
    OBVIOUS
  <2> HIDE DEF r, left, flown, phase, q
  <2> QED BY <2>1, <2>2
<1>8. /\ left \subseteq r.left /\ flown \subseteq r.targets /\ (~r.heading => flown = r.sent)
      /\ phase \in {"reported", "cancelled", r.phase} /\ r.phase # "failed"
  <2>1. r.left \subseteq r.targets /\ r.sent \subseteq r.targets
    BY <1>6 DEF RunIsSound, F!RunIsTrue
  <2> HIDE DEF r
  <2> QED BY <1>3, <2>1
<1>9. /\ runs' = [runs EXCEPT ![k] = q] /\ k \in DOMAIN runs
  BY <1>4
<1> HIDE DEF r, left, flown, phase, q, Done
<1>10. RunIsSound(q)
  BY <1>6, <1>7, <1>8, SoundRunGoesOn
<1>11. /\ DOMAIN runs' = DOMAIN runs /\ Len(runs') = Len(runs) /\ Len(runs) \in Nat
       /\ \A i \in DOMAIN runs : runs'[i] = IF i = k THEN q ELSE runs[i]
       /\ runs' \in Seq(S \cup {q})
  BY <1>1, <1>9
<1>12. \A i \in DOMAIN runs' : RunIsSound(runs'[i])
  BY <1>2, <1>10, <1>11
<1>13. FormationStep
  <2>1. \A i \in DOMAIN runs' : F!RunIsTrue(runs'[i])
    BY <1>12 DEF RunIsSound
  <2> QED BY <1>5, <1>11, <2>1 DEF FormationStep
<1>14. FormationInv'
  <2>1. \A i \in DOMAIN runs' : RunIsSound(runs[i])'
    BY <1>3, <1>12, SoundnessStays
  <2> QED BY <1>2, <1>3, <1>5, <1>11, <2>1 DEF FormationInv
<1> QED BY <1>13, <1>14

\* FormationCloses: what is not over is cancelled.
LEMMA FormationClosesKeeps ==
  ASSUME FormationInv, F!FormationCloses
  PROVE  FormationInv' /\ FormationStep
<1> DEFINE Closed(r) == IF r.phase = "runs" THEN [r EXCEPT !.phase = "cancelled"] ELSE r
<1>1. PICK S : runs \in Seq(S)
  BY DEF FormationInv
<1>2. /\ \A i \in DOMAIN runs : RunIsSound(runs[i])
      /\ shape \in Shapes /\ configuredLeader \in Vehicles /\ promoteLeader \in BOOLEAN
  BY DEF FormationInv
<1>3. /\ UNCHANGED <<shape, configuredLeader, promoteLeader>> /\ open
      /\ runs' = [k \in DOMAIN runs |-> Closed(runs[k])]
  BY DEF F!FormationCloses, F!formationConfig
<1>4. ASSUME NEW r, RunIsSound(r)
      PROVE  RunIsSound(Closed(r)) /\ Closed(r).sent = r.sent /\ Closed(r).phase # "runs"
  <2>1. r = [leader |-> r.leader, heading |-> r.heading, list |-> r.list, targets |-> r.targets,
             left |-> r.left, sent |-> r.sent, phase |-> r.phase]
    BY <1>4 DEF RunIsSound
  <2>2. CASE r.phase = "runs"
    <3> DEFINE q == [r EXCEPT !.phase = "cancelled"]
    <3>1. q = [leader |-> r.leader, heading |-> r.heading, list |-> r.list, targets |-> r.targets,
               left |-> r.left, sent |-> r.sent, phase |-> "cancelled"]
      BY <2>1
    <3> HIDE DEF q
    <3>2. r.sent \subseteq r.targets
      BY <1>4 DEF RunIsSound, F!RunIsTrue
    <3>3. RunIsSound(q)
      BY <1>4, <2>2, <3>1, <3>2, SoundRunGoesOn
    <3>4. q.sent = r.sent /\ q.phase # "runs"
      BY <3>1
    <3>5. Closed(r) = q
      BY <2>2 DEF q
    <3> QED BY <3>3, <3>4, <3>5
  <2>3. CASE r.phase # "runs"
    BY <1>4, <2>3
  <2> QED BY <2>2, <2>3
<1> HIDE DEF Closed
<1>5. /\ DOMAIN runs' = DOMAIN runs /\ DOMAIN runs = 1..Len(runs) /\ Len(runs) \in Nat
      /\ \A i \in DOMAIN runs : runs'[i] = Closed(runs[i])
  BY <1>1, <1>3
<1>6. \A i \in DOMAIN runs : RunIsSound(runs'[i]) /\ runs'[i].sent = runs[i].sent /\ runs'[i].phase # "runs"
  BY <1>2, <1>4, <1>5
<1>7. runs' \in Seq({Closed(runs[i]) : i \in DOMAIN runs}) /\ Len(runs') = Len(runs)
  <2> DEFINE T == {Closed(runs[i]) : i \in DOMAIN runs}
  <2>1. \A i \in 1..Len(runs) : Closed(runs[i]) \in T
    BY <1>5
  <2>2. runs' = [k \in 1..Len(runs) |-> Closed(runs[k])]
    BY <1>3, <1>5
  <2> HIDE DEF T
  <2>3. runs' \in Seq(T) /\ Len(runs') = Len(runs)
    BY <1>5, <2>1, <2>2
  <2> QED BY <2>3 DEF T
<1>8. FormationStep
  <2>1. \A i \in DOMAIN runs' : F!RunIsTrue(runs'[i])
    BY <1>5, <1>6 DEF RunIsSound
  <2> QED BY <1>3, <1>5, <1>7, <2>1 DEF FormationStep
<1>9. FormationInv'
  <2>1. \A i \in DOMAIN runs' : RunIsSound(runs[i])'
    BY <1>3, <1>5, <1>6, SoundnessStays
  <2>2. \E T : runs' \in Seq(T)
    BY <1>7
  <2>3. \A i \in DOMAIN runs' : runs'[i].phase # "runs"
    BY <1>5, <1>6
  <2> QED BY <1>2, <1>3, <2>1, <2>2, <2>3 DEF FormationInv
<1> QED BY <1>8, <1>9

\* Vehicles come and go, and everything else is left alone.
LEMMA FormationIsLeftAlone ==
  ASSUME FormationInv, UNCHANGED <<shape, configuredLeader, promoteLeader, runs, open>>
  PROVE  FormationInv' /\ FormationStep
<1>1. /\ \A i \in DOMAIN runs : RunIsSound(runs[i])
      /\ shape \in Shapes /\ configuredLeader \in Vehicles /\ promoteLeader \in BOOLEAN
      /\ \E S : runs \in Seq(S)
      /\ ~open => \A k \in DOMAIN runs : runs[k].phase # "runs"
  BY DEF FormationInv
<1>2. \A i \in DOMAIN runs' : RunIsSound(runs'[i])
  BY <1>1
<1>3. \A i \in DOMAIN runs' : RunIsSound(runs[i])'
  BY <1>2, SoundnessStays
<1>4. \A i \in DOMAIN runs' : F!RunIsTrue(runs'[i])
  BY <1>2 DEF RunIsSound
<1>5. Len(runs') = Len(runs) /\ Len(runs) \in Nat
  BY <1>1
<1> QED BY <1>1, <1>3, <1>4, <1>5 DEF FormationInv, FormationStep

\* Every step of a formation.
LEMMA FormationGoes ==
  ASSUME FormationInv, [F!FormationNext]_flyVars
  PROVE  FormationInv' /\ FormationStep
<1>1. ASSUME NEW list \in Lists, NEW given \in BOOLEAN, NEW facing \in BOOLEAN, F!Input(list, given, facing)
      PROVE  FormationInv' /\ FormationStep
  BY <1>1, InputKeeps
<1>2. ASSUME NEW r \in DOMAIN runs, F!Commands(r)
      PROVE  FormationInv' /\ FormationStep
  BY <1>2, CommandsKeeps
<1>3. CASE F!FormationCloses
  BY <1>3, FormationClosesKeeps
<1>4. CASE F!FleetReports
  BY <1>4, FormationIsLeftAlone DEF F!FleetReports, F!formationConfig
<1>5. CASE UNCHANGED flyVars
  BY <1>5, FormationIsLeftAlone DEF flyVars
<1> QED BY <1>1, <1>2, <1>3, <1>4, <1>5 DEF F!FormationNext

\* A formation begins with no runs.
LEMMA FormationBegins == ASSUME F!FormationInit PROVE FormationInv
<1>1. runs = << >> /\ open
  BY DEF F!FormationInit
<1>2. << >> \in Seq({}) /\ DOMAIN runs = {}
  BY <1>1
<1>3. shape \in Shapes /\ configuredLeader \in Vehicles /\ promoteLeader \in BOOLEAN
  BY DEF F!FormationInit, Shapes
<1> QED BY <1>1, <1>2, <1>3 DEF FormationInv

-----------------------------------------------------------------------------
(* The nodes *)

\* Parts do not touch each other's state: the invariant of each holds in all.
LEMMA NodesKeep ==
  /\ Init => FanOutInv /\ OperationsInv
  /\ FanOutInv /\ OperationsInv /\ [Next]_vars => FanOutInv' /\ OperationsInv'
<1>1. Init => FanOutInv /\ OperationsInv
  BY FanOutBegins, OperationsBegin DEF Init
<1>2. [Next]_vars => [FanOutNext]_fanVars /\ [OperationsNext]_operationVars
  BY DEF Next, vars
<1> QED BY <1>1, <1>2, FanOutGoes, OperationsGo

\* The aggregate of a run over a group is the truth about every member, in both modes,
\* whatever is answered, times out, fails, is gone or is closed
\* (fanout/index.js:193-310, 592-690).
THEOREM FanOutTellsTheTruth == Spec => []FanOutIsTrue
<1> DEFINE Inv == FanOutInv /\ OperationsInv
<1>1. Init => Inv
  BY NodesKeep
<1>2. Inv /\ [Next]_vars => Inv'
  BY NodesKeep
<1>3. Inv => FanOutIsTrue
  BY DEF FanOutInv, FanOutTyped, LoopIsOfMode, RecordsAreEarned, AggregateIsTrue, FanOutIsTrue, FanOutTypeOK
<1> QED BY <1>1, <1>2, <1>3, PTL DEF Spec

\* A vehicle is sent to only while that is still wanted (fanout/index.js:205-247, 433-442).
THEOREM SendsStayMeant == Spec => SendsAreMeant
<1> DEFINE Inv == FanOutInv /\ OperationsInv
           Meant == \A m \in sent' \ sent :
                      /\ ~Aborted
                      /\ mode = "sequential" =>
                           /\ m \in active
                           /\ stopOnError => \A k \in group : result[k] \notin Failures
                      /\ streaming => m \notin streamed
<1>1. Init => Inv
  BY NodesKeep
<1>2. Inv /\ [Next]_vars => Inv'
  BY NodesKeep
<1>3. Inv /\ [Next]_vars => [Meant]_fanVars
  <2>1. [Next]_vars => [FanOutNext]_fanVars
    BY DEF Next, vars
  <2> QED BY <2>1, SendsAreMeantNext
<1> QED BY <1>1, <1>2, <1>3, PTL DEF Spec, SendsAreMeant

\* A plan, the parameters or the files of a vehicle are one transfer's at a time, its lock
\* lives as long as it does, and what is reported of a run is what was moved, through
\* refusals, throws, cancellations, closes and redeploys (lock.js:43-62,
\* mavlink-system.js:138-226, mavlink-mission.js:100-110, 207-262).
THEOREM OperationsStayTrue == Spec => []OperationsAreTrue
<1> DEFINE Inv == FanOutInv /\ OperationsInv
<1>1. Init => Inv
  BY NodesKeep
<1>2. Inv /\ [Next]_vars => Inv'
  BY NodesKeep
<1>3. Inv => OperationsAreTrue
  BY OperationsAreSound
<1> QED BY <1>1, <1>2, <1>3, PTL DEF Spec

\* In a formation nobody shares a slot and each has that of its rank, the leader is fit to
\* lead and never commanded, and a pattern that faces nowhere or is closed moves nobody,
\* for any vehicles and any lists (mavlink-formation.js:66-80, 221-247, formation/index.js:195-212).
THEOREM SlotsStayByRank == Spec => FormationsHold
<1> DEFINE Inv == part = "formation" => FormationInv
<1>1. Init => Inv
  BY FormationBegins DEF Init, Formations
<1>2. [Next]_vars => UNCHANGED part
  BY DEF Next, vars
<1>3. [Next]_vars => (part = "formation" => [F!FormationNext]_flyVars)
  BY DEF Next, vars
<1>4. Inv /\ [Next]_vars => Inv' /\ (part = "formation" => F!FormationsHold)
  <2> SUFFICES ASSUME Inv, [Next]_vars
               PROVE  Inv' /\ (part = "formation" => F!FormationsHold)
    OBVIOUS
  <2>1. CASE part = "formation"
    <3>1. FormationInv' /\ FormationStep
      BY <1>3, <2>1, FormationGoes
    <3> QED BY <3>1 DEF FormationStep, F!FormationsHold
  <2>2. CASE part # "formation"
    BY <1>2, <2>2
  <2> QED BY <2>1, <2>2
<1>5. Inv /\ [Next]_vars => [part = "formation" => F!FormationsHold]_vars
  BY <1>4
<1>6. Inv /\ [Next]_vars => Inv'
  BY <1>4
<1> QED BY <1>1, <1>5, <1>6, PTL DEF Spec, FormationsHold

===============================================================================
