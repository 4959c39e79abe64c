------------------------- MODULE OutboundQueueProofs -------------------------
(***************************************************************************)
(* Proofs about OutboundQueue, for every set of requests, every capacity   *)
(* table, every ageing step and every bound.                               *)
(*                                                                         *)
(* The inductive invariant IInv is a conjunction over bands, so the proofs *)
(* work with BandInv, the same facts about ONE band's storage, and with    *)
(* one lemma per operation the code applies to a band: append, delete from *)
(* a Map, overwrite a value, advance the cursor, compact.                  *)
(***************************************************************************)
EXTENDS OutboundQueue, SequenceTheorems, FiniteSetTheorems, TLAPS

BandInv(b, s, c, k, ns, t) ==
  /\ s \in Seq(Item) /\ c \in Nat /\ k \in Nat
  /\ \A i \in 1..Len(s) : s[i].band = b
  /\ k = Len(s) - c
  /\ b # LIVENESS => k <= Capacity[b]
  /\ c = 0 \/ 2 * c < Len(s)
  /\ b \in MapBands => c = 0 /\ \A i, j \in 1..Len(s) : SameSlot(s[i], s[j]) => i = j
  /\ \A i, j \in 1..Len(s) : i < j =>
       s[i].seq < s[j].seq /\ (ClockMayStepBack \/ s[i].enqueuedAt <= s[j].enqueuedAt)
  /\ \A i \in 1..Len(s) :
       s[i].seq < ns /\ (ClockMayStepBack \/ s[i].enqueuedAt <= t)

\* Every element of u is an element of s other than the i-th.
DrawnFrom(u, s, i) ==
  \A j \in 1..Len(u) : \E m \in 1..Len(s) : m # i /\ u[j] = s[m]

\* IInv says of every band what BandInv says of one.
LEMMA InvIsBandwise ==
  IInv <=> /\ store \in [Bands -> Seq(Item)]
           /\ cursor \in [Bands -> Nat]
           /\ counts \in [Bands -> Nat]
           /\ nextSeq \in Nat /\ now \in Nat
           /\ \A b \in Bands : BandInv(b, store[b], cursor[b], counts[b], nextSeq, now)
<1> USE DEF IInv, TypeOK, CountsAreExact, WithinCapacity, DeadPrefixBounded,
            OneSlotPerKey, SlotsInOrder, BandInv
<1>1. \A b : b \in CappedBands <=> b \in Bands /\ b # LIVENESS
  BY DEF CappedBands
<1>2. \A b \in MapBands : b \in Bands
  BY DEF MapBands, Bands, LIVENESS, STREAMING
<1>3. QED  BY <1>1, <1>2

\* What the proofs read off an item, and off the items of a sequence.
LEMMA ItemFields ==
  ASSUME NEW s \in Seq(Item)
  PROVE  /\ Len(s) \in Nat
         /\ \A i \in 1..Len(s) : s[i] \in Item /\ s[i].seq \in Nat /\ s[i].enqueuedAt \in Nat
<1>1. \A x \in Item : x.seq \in Nat /\ x.enqueuedAt \in Nat
  BY DEF Item
<1>2. Len(s) \in Nat
  BY LenProperties
<1>3. \A i \in 1..Len(s) : s[i] \in Item
  BY ElementOfSeq
<1>4. QED  BY <1>1, <1>2, <1>3

\* A band survives the counter advancing and the clock going forward.
LEMMA BandLater ==
  ASSUME NEW b, NEW s, NEW c, NEW k, NEW ns \in Nat, NEW t \in Nat,
         NEW ns2 \in Nat, NEW t2 \in Nat,
         BandInv(b, s, c, k, ns, t), ns <= ns2, ClockMayStepBack \/ t <= t2
  PROVE  BandInv(b, s, c, k, ns2, t2)
<1>1. \A i \in 1..Len(s) : s[i].seq \in Nat /\ s[i].enqueuedAt \in Nat
  BY ItemFields DEF BandInv
<1>2. QED  BY <1>1 DEF BandInv

\* A new item at the tail.
LEMMA BandAppend ==
  ASSUME NEW b \in Bands, NEW s, NEW c, NEW k, NEW ns \in Nat, NEW t \in Nat,
         NEW x \in Item, x.band = b, x.seq = ns, x.enqueuedAt = t,
         BandInv(b, s, c, k, ns, t),
         b # LIVENESS => k < Capacity[b],
         b \in MapBands => \A i \in 1..Len(s) : ~SameSlot(s[i], x)
  PROVE  BandInv(b, Append(s, x), c, k + 1, ns + 1, t)
<1> DEFINE u == Append(s, x)
<1>1. /\ u \in Seq(Item)
      /\ Len(u) = Len(s) + 1
      /\ \A i \in 1..Len(s) : u[i] = s[i]
      /\ u[Len(s) + 1] = x
      /\ Len(s) \in Nat
  BY AppendProperties, LenProperties DEF BandInv
<1>2. \A i \in 1..Len(s) : s[i] \in Item /\ s[i].seq \in Nat /\ s[i].enqueuedAt \in Nat
  BY ItemFields DEF BandInv
<1>3. \A i \in 1..Len(u) : i \in 1..Len(s) \/ i = Len(s) + 1
  BY <1>1
<1>4. \A i \in 1..Len(u) : u[i].band = b
  BY <1>1, <1>3 DEF BandInv
<1>5. k + 1 \in Nat /\ k + 1 = Len(u) - c /\ (b # LIVENESS => k + 1 <= Capacity[b])
  BY <1>1, CapacityAssumption DEF BandInv, CappedBands
<1>6. c = 0 \/ 2 * c < Len(u)
  BY <1>1 DEF BandInv
<1>7. ASSUME b \in MapBands
      PROVE  c = 0 /\ \A i, j \in 1..Len(u) : SameSlot(u[i], u[j]) => i = j
  <2>1. \A i \in 1..Len(s) : ~SameSlot(s[i], x) /\ ~SameSlot(x, s[i])
    BY <1>7 DEF SameSlot, BandInv
  <2>2. QED  BY <1>1, <1>3, <1>7, <2>1 DEF BandInv
<1>8. \A i, j \in 1..Len(u) : i < j =>
        u[i].seq < u[j].seq /\ (ClockMayStepBack \/ u[i].enqueuedAt <= u[j].enqueuedAt)
  BY <1>1, <1>2, <1>3 DEF BandInv
<1>9. \A i \in 1..Len(u) :
        u[i].seq < ns + 1 /\ (ClockMayStepBack \/ u[i].enqueuedAt <= t)
  BY <1>1, <1>2, <1>3 DEF BandInv
<1>10. QED  BY <1>1, <1>4, <1>5, <1>6, <1>7, <1>8, <1>9 DEF BandInv

\* What is left of a sequence when position i is deleted.
LEMMA RemovalShifts ==
  ASSUME NEW s \in Seq(Item), NEW i \in 1..Len(s), NEW u, u = RemoveAt(s, i)
  PROVE  /\ u \in Seq(Item) /\ Len(u) = Len(s) - 1
         /\ \A j \in 1..Len(s) - 1 : u[j] = s[IF j < i THEN j ELSE j + 1]
<1> DEFINE left == SubSeq(s, 1, i - 1)
           right == SubSeq(s, i + 1, Len(s))
           old(j) == IF j < i THEN j ELSE j + 1
<1>1. s \in Seq(Item) /\ Len(s) \in Nat /\ i \in Nat /\ 1 <= i /\ i <= Len(s)
  BY ItemFields
<1>2. \A j \in 1..Len(s) : s[j] \in Item
  BY ItemFields, <1>1
<1>3. /\ left \in Seq(Item) /\ Len(left) = i - 1
      /\ \A j \in 1..i-1 : left[j] = s[j]
  BY <1>1, <1>2, SubSeqProperties
<1>4. /\ right \in Seq(Item) /\ Len(right) = Len(s) - i
      /\ \A j \in 1..Len(s)-i : right[j] = s[i + j]
  <2>1. \A j \in i+1..Len(s) : s[j] \in Item
    BY <1>1, <1>2
  <2>2. /\ right \in Seq(Item)
        /\ Len(right) = IF i+1 <= Len(s) THEN Len(s) - (i+1) + 1 ELSE 0
        /\ \A j \in 1..Len(s) - (i+1) + 1 : right[j] = s[(i+1) + j - 1]
    BY <1>1, <2>1, SubSeqProperties
  <2>3. QED  BY <1>1, <2>2
<1>5. /\ u \in Seq(Item)
      /\ Len(u) = Len(s) - 1
      /\ \A j \in 1..Len(s)-1 : u[j] = IF j <= i - 1 THEN left[j] ELSE right[j - (i - 1)]
  <2>1. u = left \o right
    BY DEF RemoveAt
  <2>2. /\ left \o right \in Seq(Item)
        /\ Len(left \o right) = Len(left) + Len(right)
        /\ \A j \in 1..Len(left) + Len(right) :
             (left \o right)[j] = IF j <= Len(left) THEN left[j] ELSE right[j - Len(left)]
    <3> HIDE DEF left, right
    <3>1. QED  BY <1>3, <1>4, ConcatProperties
  <2> HIDE DEF left, right
  <2>3. Len(left) + Len(right) = Len(s) - 1
    BY <1>1, <1>3, <1>4
  <2>4. QED  BY <1>1, <1>3, <2>1, <2>2, <2>3
<1>6. \A j \in 1..Len(u) : /\ old(j) \in 1..Len(s) /\ old(j) # i
                           /\ u[j] = s[old(j)]
  <2>1. \A j \in 1..Len(s)-1 : j < i => u[j] = s[j]
    BY <1>1, <1>3, <1>5
  <2>2. \A j \in 1..Len(s)-1 : ~(j < i) => u[j] = s[j + 1]
    <3> SUFFICES ASSUME NEW j \in 1..Len(s)-1, ~(j < i)  PROVE u[j] = s[j + 1]
      OBVIOUS
    <3>1. j - (i - 1) \in 1..Len(s)-i /\ i + (j - (i - 1)) = j + 1
      BY <1>1
    <3>2. right[j - (i - 1)] = s[i + (j - (i - 1))]
      BY <1>4, <3>1
    <3>3. u[j] = right[j - (i - 1)]
      <4> HIDE DEF left, right
      <4>1. ~(j <= i - 1)
        BY <1>1
      <4>2. QED  BY <1>5, <4>1
    <3>4. QED  BY <3>1, <3>2, <3>3
  <2>3. QED  BY <1>1, <1>5, <2>1, <2>2
<1>7. QED  BY <1>5, <1>6

\* Map.delete of the key at position i.
LEMMA BandDelete ==
  ASSUME NEW b \in MapBands, NEW s, NEW k, NEW ns \in Nat, NEW t \in Nat,
         NEW i \in 1..Len(s), BandInv(b, s, 0, k, ns, t)
  PROVE  /\ BandInv(b, RemoveAt(s, i), 0, k - 1, ns, t)
         /\ DrawnFrom(RemoveAt(s, i), s, i)
<1> DEFINE u == RemoveAt(s, i)
           old(j) == IF j < i THEN j ELSE j + 1
<1>1. s \in Seq(Item) /\ Len(s) \in Nat /\ i \in Nat /\ 1 <= i /\ i <= Len(s)
  BY ItemFields DEF BandInv
<1>2. u \in Seq(Item) /\ Len(u) = Len(s) - 1 /\ \A j \in 1..Len(s) - 1 : u[j] = s[old(j)]
  BY <1>1, RemovalShifts
<1>3. \A j \in 1..Len(u) : /\ old(j) \in 1..Len(s) /\ old(j) # i
                           /\ u[j] = s[old(j)]
  BY <1>1, <1>2
<1>4. \A j, m \in 1..Len(u) : (j < m => old(j) < old(m)) /\ (old(j) = old(m) => j = m)
  BY <1>1, <1>2
<1>5. BandInv(b, u, 0, k - 1, ns, t)
  <2>1. k = Len(s) /\ k - 1 \in Nat /\ k - 1 = Len(u) - 0
    BY <1>1, <1>2 DEF BandInv
  <2>2. b # LIVENESS => k - 1 <= Capacity[b]
    BY <2>1, CapacityAssumption DEF BandInv, CappedBands, Bands, MapBands, LIVENESS, STREAMING
  <2>3. \A j, m \in 1..Len(u) : SameSlot(u[j], u[m]) => j = m
    BY <1>3, <1>4 DEF BandInv
  <2>4. \A j, m \in 1..Len(u) : j < m =>
          u[j].seq < u[m].seq /\ (ClockMayStepBack \/ u[j].enqueuedAt <= u[m].enqueuedAt)
    BY <1>3, <1>4 DEF BandInv
  <2>5. \A j \in 1..Len(u) : u[j].band = b
    BY <1>3 DEF BandInv
  <2>6. \A j \in 1..Len(u) : u[j].seq < ns /\ (ClockMayStepBack \/ u[j].enqueuedAt <= t)
    BY <1>3 DEF BandInv
  <2>7. QED  BY <1>2, <2>1, <2>2, <2>3, <2>4, <2>5, <2>6 DEF BandInv
<1>6. DrawnFrom(u, s, i)
  BY <1>3 DEF DrawnFrom
<1>7. QED  BY <1>5, <1>6

\* Deleting the first entry of a Map.
LEMMA BandTail ==
  ASSUME NEW b \in MapBands, NEW s, NEW k, NEW ns \in Nat, NEW t \in Nat,
         BandInv(b, s, 0, k, ns, t), Len(s) > 0
  PROVE  /\ BandInv(b, Tail(s), 0, k - 1, ns, t)
         /\ DrawnFrom(Tail(s), s, 1)
<1> DEFINE u == Tail(s)
<1>1. s \in Seq(Item) /\ Len(s) \in Nat /\ s # << >>
  BY ItemFields, EmptySeq DEF BandInv
<1>2. /\ u \in Seq(Item)
      /\ Len(u) = Len(s) - 1
      /\ \A i \in 1..Len(u) : u[i] = s[i + 1]
  BY <1>1, HeadTailProperties
<1>3. \A i \in 1..Len(u) : i + 1 \in 1..Len(s) /\ i + 1 # 1
  BY <1>1, <1>2
<1> HIDE DEF u
<1>4. k = Len(s) /\ k - 1 \in Nat /\ k - 1 = Len(u) - 0
  BY <1>1, <1>2 DEF BandInv
<1>5. b # LIVENESS => k - 1 <= Capacity[b]
  BY <1>4, CapacityAssumption DEF BandInv, CappedBands, Bands, MapBands, LIVENESS, STREAMING
<1>6. \A i, j \in 1..Len(u) : SameSlot(u[i], u[j]) => i = j
  BY <1>2, <1>3 DEF BandInv
<1>7. \A i, j \in 1..Len(u) : i < j =>
        u[i].seq < u[j].seq /\ (ClockMayStepBack \/ u[i].enqueuedAt <= u[j].enqueuedAt)
  BY <1>2, <1>3 DEF BandInv
<1>8. \A i \in 1..Len(u) : /\ u[i].band = b
                           /\ u[i].seq < ns /\ (ClockMayStepBack \/ u[i].enqueuedAt <= t)
  BY <1>2, <1>3 DEF BandInv
<1>9. BandInv(b, u, 0, k - 1, ns, t)
  BY <1>2, <1>4, <1>5, <1>6, <1>7, <1>8 DEF BandInv
<1>10. DrawnFrom(u, s, 1)
  BY <1>2, <1>3 DEF DrawnFrom
<1>11. QED  BY <1>9, <1>10 DEF u

\* Overwriting the value of the slot at position i.
LEMMA BandOverwrite ==
  ASSUME NEW b \in MapBands, NEW s, NEW k, NEW ns \in Nat, NEW t \in Nat,
         BandInv(b, s, 0, k, ns, t), NEW i \in 1..Len(s), NEW r \in Requests
  PROVE  BandInv(b, [s EXCEPT ![i].value = r.value], 0, k, ns, t)
<1> DEFINE e == [s[i] EXCEPT !.value = r.value]
           u == [s EXCEPT ![i] = e]
<1>1. s \in Seq(Item) /\ Len(s) \in Nat
  BY ItemFields DEF BandInv
<1>2. s[i] \in Item
  BY <1>1, ItemFields
<1>3. /\ e \in Item
      /\ e.band = s[i].band /\ e.seq = s[i].seq /\ e.enqueuedAt = s[i].enqueuedAt
      /\ e.identityId = s[i].identityId /\ e.name = s[i].name /\ e.target = s[i].target
  BY <1>2 DEF Item
<1>4. u = [s EXCEPT ![i].value = r.value]
  OBVIOUS
<1>5. /\ u \in Seq(Item) /\ Len(u) = Len(s)
      /\ \A j \in 1..Len(s) : u[j] = IF j = i THEN e ELSE s[j]
  <2> HIDE DEF e
  <2>1. QED  BY <1>1, <1>3, ExceptSeq
<1>6. \A j \in 1..Len(s) :
        /\ u[j].band = s[j].band /\ u[j].seq = s[j].seq
        /\ u[j].enqueuedAt = s[j].enqueuedAt /\ u[j].identityId = s[j].identityId
        /\ u[j].name = s[j].name /\ u[j].target = s[j].target
  <2> HIDE DEF e, u
  <2>1. QED  BY <1>3, <1>5
<1> HIDE DEF e, u
<1>7. \A j, m \in 1..Len(s) : SameSlot(u[j], u[m]) => SameSlot(s[j], s[m])
  BY <1>6 DEF SameSlot
<1>8. BandInv(b, u, 0, k, ns, t)
  BY <1>5, <1>6, <1>7 DEF BandInv
<1>9. QED  BY <1>4, <1>8

\* The cursor moves past the head and the array is left alone.
LEMMA BandAdvance ==
  ASSUME NEW b \in ArrayBands, NEW s, NEW c, NEW k, NEW ns \in Nat, NEW t \in Nat,
         BandInv(b, s, c, k, ns, t), c < Len(s), ~(2 * (c + 1) >= Len(s))
  PROVE  BandInv(b, s, c + 1, k - 1, ns, t)
<1>1. s \in Seq(Item) /\ Len(s) \in Nat /\ c \in Nat /\ k = Len(s) - c
  BY ItemFields DEF BandInv
<1>2. b \in CappedBands /\ b \notin MapBands
  BY DEF CappedBands, Bands, ArrayBands, MapBands, EMERGENCY, LIVENESS, CONTROL, STREAMING, BULK
<1>3. k - 1 <= Capacity[b]
  BY <1>1, <1>2, CapacityAssumption DEF BandInv, CappedBands
<1>4. QED  BY <1>1, <1>2, <1>3 DEF BandInv

\* The cursor moves past the head and the dead prefix is given back.
LEMMA BandCompact ==
  ASSUME NEW b \in ArrayBands, NEW s, NEW c, NEW k, NEW ns \in Nat, NEW t \in Nat,
         BandInv(b, s, c, k, ns, t), c < Len(s)
  PROVE  /\ BandInv(b, SubSeq(s, c + 2, Len(s)), 0, k - 1, ns, t)
         /\ Len(SubSeq(s, c + 2, Len(s))) = Len(s) - (c + 1)
         /\ \A i \in 1..Len(s) - (c + 1) : SubSeq(s, c + 2, Len(s))[i] = s[i + (c + 1)]
<1> DEFINE u == SubSeq(s, c + 2, Len(s))
<1>1. s \in Seq(Item) /\ Len(s) \in Nat /\ c \in Nat /\ k = Len(s) - c
  BY ItemFields DEF BandInv
<1>2. \A i \in c + 2..Len(s) : s[i] \in Item
  BY <1>1, ItemFields
<1>3. /\ u \in Seq(Item)
      /\ Len(u) = IF c + 2 <= Len(s) THEN Len(s) - (c + 2) + 1 ELSE 0
      /\ \A i \in 1..Len(s) - (c + 2) + 1 : u[i] = s[(c + 2) + i - 1]
  BY <1>1, <1>2, SubSeqProperties
<1> HIDE DEF u
<1>4. /\ Len(u) = Len(s) - (c + 1)
      /\ \A i \in 1..Len(s) - (c + 1) : u[i] = s[i + (c + 1)] /\ i + (c + 1) \in 1..Len(s)
  BY <1>1, <1>3
<1>5. b \in CappedBands /\ b \notin MapBands
  BY DEF CappedBands, Bands, ArrayBands, MapBands, EMERGENCY, LIVENESS, CONTROL, STREAMING, BULK
<1>6. k - 1 = Len(u) - 0 /\ k - 1 \in Nat /\ k - 1 <= Capacity[b]
  BY <1>1, <1>4, <1>5, CapacityAssumption DEF BandInv, CappedBands
<1>7. \A i, j \in 1..Len(u) : i < j =>
        u[i].seq < u[j].seq /\ (ClockMayStepBack \/ u[i].enqueuedAt <= u[j].enqueuedAt)
  BY <1>1, <1>4 DEF BandInv
<1>8. \A i \in 1..Len(u) : /\ u[i].band = b
                           /\ u[i].seq < ns /\ (ClockMayStepBack \/ u[i].enqueuedAt <= t)
  BY <1>4 DEF BandInv
<1>9. BandInv(b, u, 0, k - 1, ns, t)
  BY <1>3, <1>5, <1>6, <1>7, <1>8 DEF BandInv
<1>10. QED  BY <1>4, <1>9 DEF u

-----------------------------------------------------------------------------
(* The invariant is inductive. *)

LEMMA InvIsBandwiseNext ==
  ASSUME store' \in [Bands -> Seq(Item)], cursor' \in [Bands -> Nat],
         counts' \in [Bands -> Nat], nextSeq' \in Nat, now' \in Nat,
         \A b \in Bands : BandInv(b, store'[b], cursor'[b], counts'[b], nextSeq', now')
  PROVE  IInv'
<1>1. \A b : b \in CappedBands <=> b \in Bands /\ b # LIVENESS
  BY DEF CappedBands
<1>2. \A b \in MapBands : b \in Bands
  BY DEF MapBands, Bands, LIVENESS, STREAMING
<1>3. TypeOK' /\ CountsAreExact' /\ DeadPrefixBounded' /\ SlotsInOrder'
  BY <1>2 DEF TypeOK, CountsAreExact, DeadPrefixBounded, SlotsInOrder, BandInv
<1>4. WithinCapacity' /\ OneSlotPerKey'
  BY <1>1, <1>2 DEF WithinCapacity, OneSlotPerKey, BandInv
<1>5. QED  BY <1>3, <1>4 DEF IInv

\* A step that changes at most the storage of band b keeps the invariant if it
\* keeps b's part of it.
LEMMA OneBandStep ==
  ASSUME IInv, NEW b \in Bands, NEW s, NEW c, NEW k,
         BandInv(b, s, c, k, nextSeq', now'),
         store' = [store EXCEPT ![b] = s],
         cursor' = [cursor EXCEPT ![b] = c],
         counts' = [counts EXCEPT ![b] = k],
         nextSeq' \in Nat, nextSeq <= nextSeq',
         now' \in Nat, ClockMayStepBack \/ now <= now'
  PROVE  IInv'
<1>1. /\ store \in [Bands -> Seq(Item)] /\ cursor \in [Bands -> Nat]
      /\ counts \in [Bands -> Nat] /\ nextSeq \in Nat /\ now \in Nat
      /\ \A d \in Bands : BandInv(d, store[d], cursor[d], counts[d], nextSeq, now)
  BY InvIsBandwise
<1>2. s \in Seq(Item) /\ c \in Nat /\ k \in Nat
  BY DEF BandInv
<1>3. \A d \in Bands : BandInv(d, store'[d], cursor'[d], counts'[d], nextSeq', now')
  <2> SUFFICES ASSUME NEW d \in Bands
               PROVE  BandInv(d, store'[d], cursor'[d], counts'[d], nextSeq', now')
    OBVIOUS
  <2>1. CASE d = b
    <3>1. store'[d] = s /\ cursor'[d] = c /\ counts'[d] = k
      BY <1>1, <2>1
    <3>2. QED  BY <2>1, <3>1
  <2>2. CASE d # b
    <3>1. store'[d] = store[d] /\ cursor'[d] = cursor[d] /\ counts'[d] = counts[d]
      BY <1>1, <2>2
    <3>2. BandInv(d, store[d], cursor[d], counts[d], nextSeq', now')
      BY <1>1, BandLater
    <3>3. QED  BY <3>1, <3>2
  <2>3. QED  BY <2>1, <2>2
<1>4. QED
  <2>1. /\ store' \in [Bands -> Seq(Item)] /\ cursor' \in [Bands -> Nat]
        /\ counts' \in [Bands -> Nat]
    BY <1>1, <1>2
  <2>2. QED  BY <1>3, <2>1, InvIsBandwiseNext

\* The item an enqueue builds.
LEMMA ItemOfType ==
  ASSUME nextSeq \in Nat, now \in Nat, NEW r \in Requests, r.band \in Bands
  PROVE  /\ ItemOf(r) \in Item
         /\ ItemOf(r).band = r.band /\ ItemOf(r).seq = nextSeq /\ ItemOf(r).enqueuedAt = now
         /\ ItemOf(r).value = r.value
         /\ \A x : SameSlot(x, ItemOf(r)) <=> SameSlot(x, r)
<1>1. ItemOf(r) \in Item
  BY DEF ItemOf, Item
<1>2. QED  BY <1>1 DEF ItemOf, SameSlot

\* The queue starts with the invariant.
LEMMA InitInv == Init => IInv
<1> SUFFICES ASSUME Init PROVE IInv
  OBVIOUS
<1>1. << >> \in Seq(Item) /\ Len(<< >>) = 0
  BY EmptySeq
<1>2. \A b \in Bands : BandInv(b, << >>, 0, 0, 0, 0)
  <2>1. \A b \in Bands : b # LIVENESS => 0 <= Capacity[b]
    BY CapacityAssumption DEF CappedBands
  <2>2. QED  BY <1>1, <2>1 DEF BandInv
<1>3. QED  BY <1>1, <1>2, InvIsBandwise DEF Init

\* Taking an item in keeps it, whether it joins, replaces, evicts or is refused.
LEMMA EnqueueInv ==
  ASSUME IInv, NEW r \in Requests, Enqueue(r)
  PROVE  IInv'
<1> DEFINE b == r.band
           x == ItemOf(r)
<1>1. /\ store \in [Bands -> Seq(Item)] /\ cursor \in [Bands -> Nat]
      /\ counts \in [Bands -> Nat] /\ nextSeq \in Nat /\ now \in Nat
      /\ \A d \in Bands : BandInv(d, store[d], cursor[d], counts[d], nextSeq, now)
  BY InvIsBandwise
<1>2. /\ nextSeq' = nextSeq + 1 /\ now' = now /\ cursor' = cursor
      /\ nextSeq' \in Nat /\ nextSeq <= nextSeq'
      /\ now' \in Nat /\ now <= now'
  BY <1>1 DEF Enqueue, Accept
<1>3. ASSUME b \in Bands PROVE /\ x \in Item /\ x.band = b /\ x.seq = nextSeq /\ x.enqueuedAt = now
                               /\ \A y : SameSlot(y, x) <=> SameSlot(y, r)
  BY <1>1, <1>3, ItemOfType
<1>4. CASE UNCHANGED <<store, counts>>
  <2>1. \A d \in Bands : BandInv(d, store'[d], cursor'[d], counts'[d], nextSeq', now')
    BY <1>1, <1>2, <1>4, BandLater
  <2>2. QED  BY <1>1, <1>2, <1>4, <2>1, InvIsBandwiseNext
\* Appending to a band that has room and does not hold the key.
<1>5. ASSUME b \in Bands, b # LIVENESS => counts[b] < Capacity[b],
             b \in MapBands => SlotsOf(r) = {},
             store' = [store EXCEPT ![b] = Append(@, x)],
             counts' = [counts EXCEPT ![b] = @ + 1]
      PROVE  IInv'
  <2>1. b \in MapBands => \A i \in 1..Len(store[b]) : ~SameSlot(store[b][i], x)
    BY <1>3, <1>5 DEF SlotsOf
  <2>2. BandInv(b, Append(store[b], x), cursor[b], counts[b] + 1, nextSeq + 1, now)
    BY <1>1, <1>3, <1>5, <2>1, BandAppend
  <2>3. cursor' = [cursor EXCEPT ![b] = cursor[b]]
    BY <1>1, <1>2, <1>5
  <2>4. QED  BY <1>2, <1>5, <2>2, <2>3, OneBandStep
<1>6. CASE b = LIVENESS /\ EnqueueLiveness(r)
  <2>1. b \in Bands /\ b \in MapBands /\ cursor[b] = 0
    BY <1>1, <1>6 DEF Bands, MapBands, LIVENESS, BandInv
  <2>2. ASSUME NEW i \in SlotsOf(r),
               store' = [store EXCEPT ![LIVENESS] = Append(RemoveAt(@, i), x)], UNCHANGED counts
        PROVE  IInv'
    <3> DEFINE u == RemoveAt(store[b], i)
    <3>1. i \in 1..Len(store[b]) /\ SameSlot(store[b][i], x)
      BY <1>3, <2>1 DEF SlotsOf
    <3>2. BandInv(b, store[b], 0, counts[b], nextSeq, now)
      BY <1>1, <2>1
    <3>3. BandInv(b, u, 0, counts[b] - 1, nextSeq, now) /\ DrawnFrom(u, store[b], i)
      <4> HIDE DEF b, x
      <4>1. nextSeq \in Nat /\ now \in Nat
        BY <1>1
      <4>2. QED  BY ONLY <2>1, <3>1, <3>2, <4>1, BandDelete
    <3>4. \A m \in 1..Len(store[b]) : SameSlot(store[b][m], x) => m = i
      <4>1. \A m \in 1..Len(store[b]) : SameSlot(store[b][m], x) =>
              SameSlot(store[b][m], store[b][i])
        <5>1. \A m \in 1..Len(store[b]) : store[b][m].band = LIVENESS
          BY <1>6, <3>2 DEF BandInv
        <5>2. x.band = LIVENESS
          BY <1>3, <1>6, <2>1
        <5>3. QED  BY <3>1, <5>1, <5>2 DEF SameSlot, LIVENESS, STREAMING
      <4>2. QED  BY <2>1, <3>1, <3>2, <4>1 DEF BandInv
    <3>5. \A j \in 1..Len(u) : ~SameSlot(u[j], x)
      BY <3>3, <3>4 DEF DrawnFrom
    <3>6. BandInv(b, Append(u, x), 0, (counts[b] - 1) + 1, nextSeq + 1, now)
      <4> HIDE DEF u, x
      <4>1. QED  BY <1>1, <1>3, <1>6, <2>1, <3>3, <3>5, BandAppend
    <3>7. (counts[b] - 1) + 1 = counts[b] /\ counts' = [counts EXCEPT ![b] = counts[b]]
      BY <1>1, <2>1, <2>2
    <3>8. cursor' = [cursor EXCEPT ![b] = 0]
      BY <1>1, <1>2, <2>1
    <3>9. store' = [store EXCEPT ![b] = Append(u, x)]
      BY <1>6, <2>2
    <3>10. QED
      <4> HIDE DEF u, x
      <4>1. QED  BY <1>2, <2>1, <3>6, <3>7, <3>8, <3>9, OneBandStep
  <2>3. QED
    BY <1>5, <1>6, <2>1, <2>2 DEF EnqueueLiveness
<1>7. CASE b = STREAMING /\ (CoalesceStreaming(r) \/ InsertStreaming(r))
  <2>1. b \in Bands /\ b \in MapBands /\ cursor[b] = 0 /\ b # LIVENESS
    BY <1>1, <1>7 DEF Bands, MapBands, LIVENESS, STREAMING, BandInv
  <2>2. BandInv(b, store[b], 0, counts[b], nextSeq, now)
    BY <1>1, <2>1
  <2>3. cursor' = [cursor EXCEPT ![b] = 0]
    BY <1>1, <1>2, <2>1
  <2>4. CASE CoalesceStreaming(r)
    <3>1. PICK i \in SlotsOf(r) : /\ store' = [store EXCEPT ![STREAMING][i].value = r.value]
                                 /\ UNCHANGED counts
      BY <2>4 DEF CoalesceStreaming
    <3>2. i \in 1..Len(store[b])
      BY <3>1 DEF SlotsOf
    <3>3. BandInv(b, [store[b] EXCEPT ![i].value = r.value], 0, counts[b], nextSeq, now)
      BY <1>1, <2>1, <2>2, <3>2, BandOverwrite
    <3>4. BandInv(b, [store[b] EXCEPT ![i].value = r.value], 0, counts[b], nextSeq', now')
      BY <1>1, <1>2, <3>3, BandLater
    <3>5. store' = [store EXCEPT ![b] = [store[b] EXCEPT ![i].value = r.value]]
      BY <1>1, <1>7, <2>1, <3>1
    <3>6. counts' = [counts EXCEPT ![b] = counts[b]]
      BY <1>1, <2>1, <3>1
    <3>7. QED  BY <1>2, <2>1, <2>3, <3>4, <3>5, <3>6, OneBandStep
  <2>5. CASE InsertStreaming(r)
    <3>1. SlotsOf(r) = {}
      BY <2>5 DEF InsertStreaming
    <3>2. CASE /\ counts[b] >= Capacity[b]
               /\ store' = [store EXCEPT ![b] = Append(Tail(@), x)]
               /\ UNCHANGED counts
      <4> DEFINE u == Tail(store[b])
      <4>1. Capacity[b] \in Nat \ {0} /\ counts[b] \in Nat /\ counts[b] = Len(store[b])
        BY <1>1, <2>1, <2>2, CapacityAssumption, ItemFields DEF CappedBands, BandInv
      <4>2. Len(store[b]) > 0 /\ counts[b] <= Capacity[b]
        BY <2>1, <2>2, <3>2, <4>1 DEF BandInv
      <4>3. BandInv(b, u, 0, counts[b] - 1, nextSeq, now) /\ DrawnFrom(u, store[b], 1)
        <5> HIDE DEF b, x
        <5>1. nextSeq \in Nat /\ now \in Nat
          BY <1>1
        <5>2. QED  BY ONLY <2>1, <2>2, <4>2, <5>1, BandTail
      <4>4. \A j \in 1..Len(u) : ~SameSlot(u[j], x)
        BY <1>3, <2>1, <3>1, <4>3 DEF SlotsOf, DrawnFrom
      <4>5. counts[b] - 1 < Capacity[b]
        BY <4>1, <4>2
      <4>6. BandInv(b, Append(u, x), 0, (counts[b] - 1) + 1, nextSeq + 1, now)
        <5> HIDE DEF u, x
        <5>1. QED  BY <1>1, <1>3, <2>1, <4>3, <4>4, <4>5, BandAppend
      <4>7. (counts[b] - 1) + 1 = counts[b] /\ counts' = [counts EXCEPT ![b] = counts[b]]
        BY <1>1, <2>1, <3>2
      <4>8. QED
        <5> HIDE DEF u, x
        <5>1. store' = [store EXCEPT ![b] = Append(u, x)]
          BY <3>2 DEF u
        <5>2. QED  BY <1>2, <2>1, <2>3, <4>6, <4>7, <5>1, OneBandStep
    <3>3. CASE /\ counts[b] < Capacity[b]
               /\ store' = [store EXCEPT ![b] = Append(@, x)]
               /\ counts' = [counts EXCEPT ![b] = @ + 1]
      BY <1>5, <2>1, <3>1, <3>3
    <3>4. QED  BY <1>7, <2>5, <3>2, <3>3 DEF InsertStreaming
  <2>6. QED  BY <1>7, <2>4, <2>5
<1>8. CASE b \in ArrayBands /\ (EnqueueBounded(r) \/ OverflowBounded(r))
  <2>1. b \in Bands /\ b \notin MapBands
    BY <1>8 DEF Bands, ArrayBands, MapBands, EMERGENCY, LIVENESS, CONTROL, STREAMING, BULK
  <2>2. CASE EnqueueBounded(r)
    BY <1>5, <2>1, <2>2 DEF EnqueueBounded
  <2>3. CASE OverflowBounded(r)
    BY <1>4, <2>3 DEF OverflowBounded
  <2>4. QED  BY <1>8, <2>2, <2>3
<1>9. QED
  BY <1>4, <1>6, <1>7, <1>8 DEF Enqueue

-----------------------------------------------------------------------------
(* Selection: what the loop over the five heads returns. *)

\* Effective bands are integers, never better than the item's own urgency
\* allows: bands up to Control keep theirs, the others stop at Control.
LEMMA EffectiveBandType ==
  ASSUME NEW x \in Item, now \in Nat
  PROVE  /\ EffectiveBand(x) \in Int
         /\ x.band <= CONTROL => EffectiveBand(x) = x.band
         /\ x.band > CONTROL => EffectiveBand(x) >= CONTROL
<1>1. x.band \in Int /\ x.enqueuedAt \in Int /\ AgeStep \in Nat \ {0}
  BY ClockAssumption DEF Item, Bands
<1>2. (now - x.enqueuedAt) \div AgeStep \in Int
  BY <1>1
<1>3. QED  BY <1>1, <1>2 DEF EffectiveBand, AGE_CLAMP_BAND, CONTROL

\* The loop ends on an occupied band as soon as one is occupied, and no
\* occupied band's head precedes the winner's.
LEMMA Tournament ==
  ASSUME IInv, NEW d \in Bands, Occupied(d)
  PROVE  /\ BestBand \in Bands /\ Occupied(BestBand)
         /\ ~Before(BandHead(d), BandHead(BestBand))
<1> DEFINE H(b) == BandHead(b)
           Best(b, S) == \A c \in S : Occupied(c) => Occupied(b) /\ ~Before(H(c), H(b))
<1>1. \A b \in Bands : Occupied(b) =>
        H(b) \in Item /\ H(b).seq \in Int /\ EffectiveBand(H(b)) \in Int
  <2> SUFFICES ASSUME NEW b \in Bands, Occupied(b)
               PROVE  H(b) \in Item /\ H(b).seq \in Int /\ EffectiveBand(H(b)) \in Int
    OBVIOUS
  <2>1. store[b] \in Seq(Item) /\ cursor[b] \in Nat /\ now \in Nat
    BY DEF IInv, TypeOK
  <2>2. cursor[b] + 1 \in 1..Len(store[b])
    BY <2>1, ItemFields DEF Occupied, Live
  <2>3. H(b) \in Item /\ H(b).seq \in Int
    BY <2>1, <2>2, ItemFields DEF BandHead
  <2>4. QED  BY <2>1, <2>3, EffectiveBandType
<1>2. ASSUME NEW S \in SUBSET Bands, NEW b \in S, Best(b, S), NEW c \in Bands
      PROVE  Better(b, c) \in S \cup {c} /\ Best(Better(b, c), S \cup {c})
  <2>1. \A e, f, g \in Bands :
          Occupied(e) /\ Occupied(f) /\ Occupied(g) /\ ~Before(H(e), H(f)) /\ ~Before(H(f), H(g))
            => ~Before(H(e), H(g))
    <3> HIDE DEF H
    <3>1. QED  BY <1>1 DEF Before
  <2>2. \A e, f \in Bands : Occupied(e) /\ Occupied(f) /\ Before(H(e), H(f)) => ~Before(H(f), H(e))
    <3> HIDE DEF H
    <3>1. QED  BY <1>1 DEF Before
  <2>3. \A e \in Bands : Occupied(e) => ~Before(H(e), H(e))
    BY <2>2
  <2>4. CASE Occupied(c) /\ (~Occupied(b) \/ Before(H(c), H(b)))
    <3>1. Better(b, c) = c
      BY <2>4 DEF Better
    <3>2. \A e \in S \cup {c} : Occupied(e) => Occupied(c) /\ ~Before(H(e), H(c))
      <4> HIDE DEF H
      <4>1. QED  BY <1>2, <2>1, <2>2, <2>3, <2>4
    <3>3. QED  BY <3>1, <3>2
  <2>5. CASE ~(Occupied(c) /\ (~Occupied(b) \/ Before(H(c), H(b))))
    <3>1. Better(b, c) = b
      BY <2>5 DEF Better
    <3>2. QED  BY <1>2, <2>5, <3>1
  <2>6. QED  BY <2>4, <2>5
<1>3. Best(EMERGENCY, {EMERGENCY})
  BY <1>1 DEF Before, Bands, EMERGENCY
<1> DEFINE b1 == Better(EMERGENCY, LIVENESS)
           b2 == Better(b1, CONTROL)
           b3 == Better(b2, STREAMING)
           b4 == Better(b3, BULK)
<1> HIDE DEF Best
<1>0. /\ EMERGENCY \in Bands /\ LIVENESS \in Bands /\ CONTROL \in Bands
      /\ STREAMING \in Bands /\ BULK \in Bands
  BY DEF Bands, EMERGENCY, LIVENESS, CONTROL, STREAMING, BULK
<1>4. b1 \in {EMERGENCY, LIVENESS} /\ Best(b1, {EMERGENCY, LIVENESS})
  <2>1. {EMERGENCY} \cup {LIVENESS} = {EMERGENCY, LIVENESS}
    OBVIOUS
  <2>2. b1 \in {EMERGENCY} \cup {LIVENESS} /\ Best(b1, {EMERGENCY} \cup {LIVENESS})
    BY <1>0, <1>2, <1>3
  <2>3. QED  BY <2>1, <2>2
<1>5. b2 \in {EMERGENCY, LIVENESS, CONTROL} /\ Best(b2, {EMERGENCY, LIVENESS, CONTROL})
  <2>1. {EMERGENCY, LIVENESS} \cup {CONTROL} = {EMERGENCY, LIVENESS, CONTROL}
    OBVIOUS
  <2> HIDE DEF b1
  <2>2. /\ b2 \in {EMERGENCY, LIVENESS} \cup {CONTROL}
        /\ Best(b2, {EMERGENCY, LIVENESS} \cup {CONTROL})
    BY <1>0, <1>2, <1>4
  <2>3. QED  BY <2>1, <2>2
<1>6. /\ b3 \in {EMERGENCY, LIVENESS, CONTROL, STREAMING}
      /\ Best(b3, {EMERGENCY, LIVENESS, CONTROL, STREAMING})
  <2>1. {EMERGENCY, LIVENESS, CONTROL} \cup {STREAMING} = {EMERGENCY, LIVENESS, CONTROL, STREAMING}
    OBVIOUS
  <2> HIDE DEF b2
  <2>2. /\ b3 \in {EMERGENCY, LIVENESS, CONTROL} \cup {STREAMING}
        /\ Best(b3, {EMERGENCY, LIVENESS, CONTROL} \cup {STREAMING})
    BY <1>0, <1>2, <1>5
  <2>3. QED  BY <2>1, <2>2
<1>7. /\ b4 \in Bands /\ Best(b4, Bands)
  <2>1. {EMERGENCY, LIVENESS, CONTROL, STREAMING} \cup {BULK} = Bands
    BY DEF Bands, EMERGENCY, LIVENESS, CONTROL, STREAMING, BULK
  <2> HIDE DEF b3
  <2>2. /\ b4 \in {EMERGENCY, LIVENESS, CONTROL, STREAMING} \cup {BULK}
        /\ Best(b4, {EMERGENCY, LIVENESS, CONTROL, STREAMING} \cup {BULK})
    BY <1>0, <1>2, <1>6
  <2>3. QED  BY <2>1, <2>2
<1>8. BestBand = b4
  BY DEF BestBand
<1>9. QED  BY <1>7, <1>8 DEF Best

\* Handing an item out keeps it.
LEMMA DequeueInv ==
  ASSUME IInv, Dequeue
  PROVE  IInv'
<1> DEFINE b == BestBand
           h == cursor[b] + 1
<1>1. /\ store \in [Bands -> Seq(Item)] /\ cursor \in [Bands -> Nat]
      /\ counts \in [Bands -> Nat] /\ nextSeq \in Nat /\ now \in Nat
      /\ \A d \in Bands : BandInv(d, store[d], cursor[d], counts[d], nextSeq, now)
  BY InvIsBandwise
<1>2. b \in Bands /\ Occupied(b)
  BY Tournament DEF Dequeue
<1> HIDE DEF b
<1>3. BandInv(b, store[b], cursor[b], counts[b], nextSeq, now)
  BY <1>1, <1>2
<1>4. cursor[b] \in Nat /\ Len(store[b]) \in Nat /\ cursor[b] < Len(store[b])
  BY <1>1, <1>2, ItemFields DEF Occupied, Live
<1>5. /\ counts' = [counts EXCEPT ![b] = counts[b] - 1]
      /\ nextSeq' = nextSeq /\ now' = now
      /\ RemoveHead(b)
  BY <1>1, <1>2 DEF Dequeue, b
<1>6. nextSeq' \in Nat /\ nextSeq <= nextSeq' /\ now' \in Nat /\ now <= now'
  BY <1>1, <1>5
<1>7. CASE b \in MapBands
  <2>1. cursor[b] = 0
    BY <1>3, <1>7 DEF BandInv
  <2>2. store' = [store EXCEPT ![b] = Tail(store[b])] /\ cursor' = [cursor EXCEPT ![b] = 0]
    BY <1>1, <1>2, <1>5, <1>7, <2>1 DEF RemoveHead
  <2>3. BandInv(b, Tail(store[b]), 0, counts[b] - 1, nextSeq, now)
    <3>1. BandInv(b, store[b], 0, counts[b], nextSeq, now) /\ Len(store[b]) > 0
      BY <1>3, <1>4, <2>1
    <3>2. QED  BY <1>1, <1>7, <3>1, BandTail
  <2>4. QED  BY <1>2, <1>5, <1>6, <2>2, <2>3, OneBandStep
<1>8. CASE b \notin MapBands
  <2>1. b \in ArrayBands
    BY <1>2, <1>8 DEF Bands, ArrayBands, MapBands, EMERGENCY, LIVENESS, CONTROL, STREAMING, BULK
  <2>2. CASE 2 * h >= Len(store[b])
    <3>1. /\ store' = [store EXCEPT ![b] = SubSeq(store[b], cursor[b] + 2, Len(store[b]))]
          /\ cursor' = [cursor EXCEPT ![b] = 0]
      <4>1. h + 1 = cursor[b] + 2
        BY <1>4
      <4>2. QED  BY <1>1, <1>2, <1>5, <1>8, <2>2, <4>1 DEF RemoveHead
    <3>2. BandInv(b, SubSeq(store[b], cursor[b] + 2, Len(store[b])), 0, counts[b] - 1, nextSeq, now)
      BY <1>1, <1>3, <1>4, <2>1, BandCompact
    <3>3. QED  BY <1>2, <1>5, <1>6, <3>1, <3>2, OneBandStep
  <2>3. CASE ~(2 * h >= Len(store[b]))
    <3>1. /\ store' = [store EXCEPT ![b] = store[b]]
          /\ cursor' = [cursor EXCEPT ![b] = cursor[b] + 1]
      BY <1>1, <1>2, <1>5, <1>8, <2>3 DEF RemoveHead
    <3>2. BandInv(b, store[b], cursor[b] + 1, counts[b] - 1, nextSeq, now)
      BY <1>1, <1>3, <1>4, <2>1, <2>3, BandAdvance
    <3>3. QED  BY <1>2, <1>5, <1>6, <3>1, <3>2, OneBandStep
  <2>4. QED  BY <2>2, <2>3
<1>9. QED  BY <1>7, <1>8

\* Time, an empty dequeue and stuttering touch no storage.
LEMMA QuietStepInv ==
  ASSUME IInv, UNCHANGED <<store, cursor, counts, nextSeq>>,
         now' \in Nat, ClockMayStepBack \/ now <= now'
  PROVE  IInv'
<1>1. /\ store \in [Bands -> Seq(Item)] /\ cursor \in [Bands -> Nat]
      /\ counts \in [Bands -> Nat] /\ nextSeq \in Nat /\ now \in Nat
      /\ \A d \in Bands : BandInv(d, store[d], cursor[d], counts[d], nextSeq, now)
  BY InvIsBandwise
<1>2. \A d \in Bands : BandInv(d, store'[d], cursor'[d], counts'[d], nextSeq', now')
  BY <1>1, BandLater
<1>3. QED  BY <1>1, <1>2, InvIsBandwiseNext

\* Every step of the queue keeps it.
LEMMA NextInv == IInv /\ [Next]_vars => IInv'
<1> SUFFICES ASSUME IInv, [Next]_vars  PROVE IInv'
  OBVIOUS
<1>1. now \in Nat
  BY DEF IInv, TypeOK
<1>2. ASSUME NEW r \in Requests, Enqueue(r)  PROVE IInv'
  BY <1>2, EnqueueInv
<1>3. CASE Dequeue
  BY <1>3, DequeueInv
<1>4. CASE DequeueEmpty \/ UNCHANGED vars
  BY <1>1, <1>4, QuietStepInv DEF DequeueEmpty, vars
<1>5. CASE Clear
  <2>1. << >> \in Seq(Item) /\ Len(<< >>) = 0
    BY EmptySeq
  <2>2. nextSeq \in Nat
    BY DEF IInv, TypeOK
  <2>3. \A b \in Bands : BandInv(b, << >>, 0, 0, nextSeq, now)
    <3>1. \A b \in Bands : b # LIVENESS => 0 <= Capacity[b]
      BY CapacityAssumption DEF CappedBands
    <3>2. QED  BY <2>1, <3>1 DEF BandInv
  <2>4. QED  BY <1>1, <1>5, <2>1, <2>2, <2>3, InvIsBandwiseNext DEF Clear
<1>6. CASE Tick
  <2>1. now' \in Nat /\ (ClockMayStepBack \/ now <= now')
    BY <1>1, <1>6, BoundsAssumption DEF Tick
  <2>2. QED  BY <1>6, <2>1, QuietStepInv DEF Tick
<1>7. QED  BY <1>2, <1>3, <1>4, <1>5, <1>6 DEF Next

\* The five parts of the invariant hold in every reachable state of every
\* queue: the types, the exact counts, the caps, the bound on the dead prefix
\* of the arrays, one slot per key, and the order of the storage.
THEOREM QueueInvariant == Spec => []IInv
<1>1. Init => IInv
  BY InitInv
<1>2. IInv /\ [Next]_vars => IInv'
  BY NextInv
<1>3. QED  BY <1>1, <1>2, PTL DEF Spec

-----------------------------------------------------------------------------
(* Ageing arithmetic and the order of service. *)

LEMMA DivMonotone ==
  ASSUME NEW m \in Int, NEW n \in Int, NEW d \in Nat \ {0}, m <= n
  PROVE  m \div d <= n \div d
OBVIOUS

\* A quotient is at least what its divisor fits times.
LEMMA DivAtLeast ==
  ASSUME NEW m \in Int, NEW k \in Int, NEW d \in Nat \ {0}, k * d <= m
  PROVE  k <= m \div d
OBVIOUS

\* What it means to be a queued item, and the head of an occupied band.
LEMMA QueuedItem ==
  ASSUME IInv, NEW b \in Bands, NEW x \in Queued(b)
  PROVE  /\ Occupied(b)
         /\ x \in Item /\ x.band = b /\ x.seq \in Nat /\ x.enqueuedAt \in Nat
         /\ BandHead(b) \in Item /\ BandHead(b).band = b
         /\ BandHead(b).seq \in Nat /\ BandHead(b).enqueuedAt \in Nat
         /\ BandHead(b).seq <= x.seq
         /\ ClockMayStepBack \/ BandHead(b).enqueuedAt <= x.enqueuedAt
<1>1. PICK i \in Live(b) : x = store[b][i]
  BY DEF Queued
<1>2. /\ store[b] \in Seq(Item) /\ cursor[b] \in Nat
      /\ BandInv(b, store[b], cursor[b], counts[b], nextSeq, now)
  BY InvIsBandwise
<1>3. /\ i \in 1..Len(store[b]) /\ cursor[b] + 1 \in 1..Len(store[b])
      /\ cursor[b] + 1 <= i /\ i \in Nat
  BY <1>1, <1>2, ItemFields DEF Live
<1>4. \A j \in 1..Len(store[b]) : /\ store[b][j] \in Item /\ store[b][j].band = b
                                 /\ store[b][j].seq \in Nat /\ store[b][j].enqueuedAt \in Nat
  BY <1>2, ItemFields DEF BandInv
<1>5. CASE cursor[b] + 1 = i
  BY <1>1, <1>3, <1>4, <1>5 DEF BandHead, Occupied
<1>6. CASE cursor[b] + 1 < i
  <2>1. /\ BandHead(b).seq < x.seq
        /\ ClockMayStepBack \/ BandHead(b).enqueuedAt <= x.enqueuedAt
    BY <1>1, <1>2, <1>3, <1>6 DEF BandHead, BandInv
  <2>2. QED  BY <1>1, <1>3, <1>4, <2>1 DEF BandHead, Occupied
<1>7. QED  BY <1>2, <1>3, <1>5, <1>6

\* While the clock does not step back, no item of a band comes before its head.
LEMMA HeadFirst ==
  ASSUME IInv, ClockMayStepBack = FALSE, NEW b \in Bands, NEW x \in Queued(b)
  PROVE  EffectiveBand(BandHead(b)) <= EffectiveBand(x) /\ ~Before(x, BandHead(b))
<1> DEFINE h == BandHead(b)
<1>1. /\ x \in Item /\ x.band = b /\ x.seq \in Nat /\ x.enqueuedAt \in Nat
      /\ h \in Item /\ h.band = b /\ h.seq \in Nat /\ h.enqueuedAt \in Nat
      /\ h.seq <= x.seq /\ h.enqueuedAt <= x.enqueuedAt
  BY QueuedItem
<1>2. now \in Nat /\ AgeStep \in Nat \ {0} /\ b \in Int
  BY ClockAssumption DEF IInv, TypeOK, Bands
<1> HIDE DEF h
<1>3. (now - x.enqueuedAt) \div AgeStep <= (now - h.enqueuedAt) \div AgeStep
  <2>1. /\ now - x.enqueuedAt \in Int /\ now - h.enqueuedAt \in Int
        /\ now - x.enqueuedAt <= now - h.enqueuedAt
    BY <1>1, <1>2
  <2>2. QED  BY <1>2, <2>1, DivMonotone
<1>4. /\ (now - x.enqueuedAt) \div AgeStep \in Int
      /\ (now - h.enqueuedAt) \div AgeStep \in Int
  BY <1>1, <1>2
<1>5. EffectiveBand(h) <= EffectiveBand(x)
  BY <1>1, <1>2, <1>3, <1>4 DEF EffectiveBand, AGE_CLAMP_BAND, CONTROL
<1>6. EffectiveBand(h) \in Int /\ EffectiveBand(x) \in Int
  BY <1>1, <1>2, EffectiveBandType
<1>7. QED  BY <1>1, <1>5, <1>6 DEF Before, h

\* The head of an occupied band is queued.
LEMMA HeadIsQueued ==
  ASSUME IInv, NEW d \in Bands, Occupied(d)
  PROVE  BandHead(d) \in Queued(d)
<1>1. cursor[d] \in Nat /\ Len(store[d]) \in Nat
  BY ItemFields DEF IInv, TypeOK
<1>2. cursor[d] + 1 \in Live(d)
  BY <1>1 DEF Occupied, Live
<1>3. QED  BY <1>2 DEF Queued, BandHead

\* No queued item precedes the winner of the five heads.
LEMMA GlobalSelection == IInv /\ ClockMayStepBack = FALSE => SelectionIsGlobal
<1> SUFFICES ASSUME IInv, ClockMayStepBack = FALSE, NEW x \in AllQueued
             PROVE  ~Before(x, BandHead(BestBand))
  BY DEF SelectionIsGlobal
<1>1. PICK b \in Bands : x \in Queued(b)
  BY DEF AllQueued
<1> DEFINE h == BandHead(b)
           w == BandHead(BestBand)
<1>2. ~Before(x, h) /\ Occupied(b)
  BY <1>1, HeadFirst, QueuedItem
<1>3. BestBand \in Bands /\ Occupied(BestBand) /\ ~Before(h, w)
  BY <1>1, <1>2, Tournament
<1>4. w \in Queued(BestBand)
  BY <1>3, HeadIsQueued
<1>5. w \in Item /\ h \in Item /\ x \in Item /\ w.seq \in Nat /\ h.seq \in Nat /\ x.seq \in Nat
  BY <1>1, <1>3, <1>4, QueuedItem
<1>6. now \in Nat
  BY DEF IInv, TypeOK
<1>7. EffectiveBand(w) \in Int /\ EffectiveBand(h) \in Int /\ EffectiveBand(x) \in Int
  BY <1>5, <1>6, EffectiveBandType
<1> HIDE DEF h, w
<1>8. ~Before(x, w)
  BY <1>2, <1>3, <1>5, <1>7 DEF Before
<1>9. QED  BY <1>8 DEF w

\* With a clock that never runs backwards, comparing the five band heads is the
\* same as comparing everything that is queued.
THEOREM HeadsSuffice ==
  ASSUME ClockMayStepBack = FALSE
  PROVE  Spec => []SelectionIsGlobal
<1>1. IInv => SelectionIsGlobal
  BY GlobalSelection
<1>2. QED  BY <1>1, QueueInvariant, PTL

\* Only a dequeue delivers, and what it delivers is the winner's head.
LEMMA DeliveryIsDequeue ==
  ASSUME IInv, [Next]_vars, vars' # vars, outcome'.op = "dequeued"
  PROVE  /\ Dequeue
         /\ outcome'.item = BandHead(BestBand)
<1>1. ASSUME NEW r \in Requests, Enqueue(r)  PROVE outcome'.op # "dequeued"
  BY <1>1 DEF Enqueue, EnqueueLiveness, CoalesceStreaming, InsertStreaming, EnqueueBounded, OverflowBounded
<1>2. ~DequeueEmpty /\ ~Clear /\ ~Tick
  BY DEF DequeueEmpty, Clear, Tick
<1>3. Dequeue
  BY <1>1, <1>2 DEF Next
<1>4. QED  BY <1>3 DEF Dequeue

\* The winner of a non-empty queue: its type and its standing against the head
\* of the band any queued item waits on.
LEMMA Winner ==
  ASSUME IInv, NEW b \in Bands, NEW x \in Queued(b)
  PROVE  LET w == BandHead(BestBand)
             h == BandHead(b)
         IN  /\ w \in Item /\ w.seq \in Nat /\ w.band \in Bands
             /\ h \in Item /\ h.seq \in Nat /\ h.band = b
             /\ EffectiveBand(w) \in Int /\ EffectiveBand(h) \in Int
             /\ ~Before(h, w)
<1>1. Occupied(b) /\ BandHead(b) \in Item /\ BandHead(b).seq \in Nat /\ BandHead(b).band = b
  BY QueuedItem
<1>2. BestBand \in Bands /\ Occupied(BestBand) /\ ~Before(BandHead(b), BandHead(BestBand))
  BY <1>1, Tournament
<1>3. BandHead(BestBand) \in Queued(BestBand)
  BY <1>2, HeadIsQueued
<1>4. /\ BandHead(BestBand) \in Item /\ BandHead(BestBand).seq \in Nat
      /\ BandHead(BestBand).band \in Bands
  BY <1>2, <1>3, QueuedItem
<1>5. now \in Nat
  BY DEF IInv, TypeOK
<1>6. EffectiveBand(BandHead(BestBand)) \in Int /\ EffectiveBand(BandHead(b)) \in Int
  BY <1>1, <1>4, <1>5, EffectiveBandType
<1>7. QED  BY <1>1, <1>2, <1>4, <1>6

\* No step delivers what is behind a waiting emergency or heartbeat.
LEMMA UrgentGoesFirst == IInv /\ [Next]_vars => [LeavesUrgentFirst]_vars
<1>1. ASSUME IInv, [Next]_vars, vars' # vars, outcome'.op = "dequeued",
             NEW x \in AllQueued, x.band \in {EMERGENCY, LIVENESS}
      PROVE  outcome'.item.band <= x.band
  <2> DEFINE w == BandHead(BestBand)
  <2>1. PICK b \in Bands : x \in Queued(b)
    BY DEF AllQueued
  <2> DEFINE h == BandHead(b)
  <2>2. x.band = b /\ b <= CONTROL /\ b \in Int
    BY <1>1, <2>1, QueuedItem DEF EMERGENCY, LIVENESS, CONTROL, Bands
  <2>3. /\ w \in Item /\ w.seq \in Nat /\ w.band \in Bands /\ h \in Item /\ h.seq \in Nat /\ h.band = b
        /\ EffectiveBand(w) \in Int /\ EffectiveBand(h) \in Int /\ ~Before(h, w)
    BY <1>1, <2>1, Winner
  <2>4. now \in Nat
    BY <1>1 DEF IInv, TypeOK
  <2>5. outcome'.item = w
    BY <1>1, DeliveryIsDequeue
  <2> HIDE DEF w, h
  <2>6. EffectiveBand(w) <= EffectiveBand(h) /\ EffectiveBand(h) = b
    BY <2>2, <2>3, <2>4, EffectiveBandType DEF Before
  <2>7. w.band <= CONTROL => EffectiveBand(w) = w.band
    BY <2>3, <2>4, EffectiveBandType
  <2>8. w.band > CONTROL => EffectiveBand(w) >= CONTROL
    BY <2>3, <2>4, EffectiveBandType
  <2>9. b < CONTROL
    BY <1>1, <2>2 DEF EMERGENCY, LIVENESS, CONTROL
  <2>10. w.band <= b
    BY <2>2, <2>3, <2>6, <2>7, <2>8, <2>9 DEF CONTROL, Bands
  <2>11. QED  BY <2>2, <2>5, <2>10
<1>2. QED  BY <1>1 DEF LeavesUrgentFirst

\* Whatever the clock does, nothing that has aged goes out before a waiting
\* emergency or heartbeat.
THEOREM UrgencyIsAbsolute == Spec => UrgentFirst
<1>1. QED  BY UrgentGoesFirst, QueueInvariant, PTL DEF Spec, UrgentFirst

\* With a clock that never runs backwards, an item that has waited its ageing
\* time is overtaken only by emergencies, heartbeats and older items.
THEOREM AgeingEndsStarvation ==
  ASSUME ClockMayStepBack = FALSE
  PROVE  Spec => AgedIsNotOvertaken
<1>1. ASSUME IInv, [Next]_vars, vars' # vars, outcome'.op = "dequeued",
             NEW x \in AllQueued, now - x.enqueuedAt >= (x.band - CONTROL) * AgeStep
      PROVE  outcome'.item.band <= LIVENESS \/ outcome'.item.seq <= x.seq
  <2> DEFINE w == BandHead(BestBand)
  <2>1. PICK b \in Bands : x \in Queued(b)
    BY DEF AllQueued
  <2>2. x \in Item /\ x.band = b /\ x.seq \in Nat /\ x.enqueuedAt \in Nat
    BY <1>1, <2>1, QueuedItem
  <2>3. w \in Item /\ w.seq \in Nat /\ w.band \in Bands /\ EffectiveBand(w) \in Int
    BY <1>1, <2>1, Winner
  <2>4. ~Before(x, w)
    BY <1>1, GlobalSelection DEF SelectionIsGlobal
  <2>5. now \in Nat /\ AgeStep \in Nat \ {0} /\ b \in Int
    BY <1>1, ClockAssumption DEF IInv, TypeOK, Bands
  <2>6. outcome'.item = w
    BY <1>1, DeliveryIsDequeue
  <2> HIDE DEF w
  <2>7. EffectiveBand(x) \in Int /\ EffectiveBand(x) <= CONTROL
    <3>1. EffectiveBand(x) \in Int
      BY <2>2, <2>5, EffectiveBandType
    <3>2. CASE b <= CONTROL
      BY <2>2, <2>5, <3>1, <3>2, EffectiveBandType
    <3>3. CASE ~(b <= CONTROL)
      <4>1. (b - CONTROL) * AgeStep <= now - x.enqueuedAt
        BY <1>1, <2>2, <2>5 DEF CONTROL
      <4> DEFINE age == now - x.enqueuedAt
                 rise == b - CONTROL
      <4>a. age \in Int /\ rise \in Int /\ rise * AgeStep <= age
        BY <2>2, <2>5, <4>1 DEF CONTROL
      <4>b. rise <= age \div AgeStep
        <5> HIDE DEF age, rise
        <5> QED  BY <2>5, <4>a, DivAtLeast
      <4>2. b - CONTROL <= (now - x.enqueuedAt) \div AgeStep
        BY <4>b
      <4>3. (now - x.enqueuedAt) \div AgeStep \in Int
        BY <2>2, <2>5
      <4>4. QED  BY <2>2, <2>5, <3>1, <3>3, <4>2, <4>3 DEF EffectiveBand, AGE_CLAMP_BAND, CONTROL
    <3>4. QED  BY <3>1, <3>2, <3>3
  <2>8. w.band > LIVENESS => EffectiveBand(w) >= CONTROL
    <3>1. w.band <= CONTROL => EffectiveBand(w) = w.band
      BY <2>3, <2>5, EffectiveBandType
    <3>2. w.band > CONTROL => EffectiveBand(w) >= CONTROL
      BY <2>3, <2>5, EffectiveBandType
    <3>3. QED  BY <2>3, <3>1, <3>2 DEF LIVENESS, CONTROL, Bands
  <2>9. w.band > LIVENESS => w.seq <= x.seq
    BY <2>2, <2>3, <2>4, <2>7, <2>8 DEF Before, CONTROL
  <2>10. QED  BY <2>3, <2>6, <2>9 DEF LIVENESS, Bands
<1>2. IInv /\ [Next]_vars =>
        [outcome'.op = "dequeued" =>
           \A x \in AllQueued :
             now - x.enqueuedAt >= (x.band - CONTROL) * AgeStep =>
               outcome'.item.band <= LIVENESS \/ outcome'.item.seq <= x.seq]_vars
  BY <1>1
<1>3. QED  BY <1>2, QueueInvariant, PTL DEF Spec, AgedIsNotOvertaken
-----------------------------------------------------------------------------
(* What was accepted leaves in one of two ways. *)

\* An array band that keeps its cursor and at most grows keeps what is queued.
LEMMA GrowthKeeps ==
  ASSUME IInv, NEW b \in Bands, NEW x \in Queued(b), cursor'[b] = cursor[b],
         store'[b] = store[b] \/ \E y : store'[b] = Append(store[b], y)
  PROVE  x \in Queued(b)'
<1>1. PICK i \in Live(b) : x = store[b][i]
  BY DEF Queued
<1>2. store[b] \in Seq(Item) /\ cursor[b] \in Nat /\ Len(store[b]) \in Nat
  BY ItemFields DEF IInv, TypeOK
<1>3. i \in 1..Len(store[b])
  BY <1>1, <1>2 DEF Live
<1>4. Len(store'[b]) \in Nat /\ Len(store[b]) <= Len(store'[b]) /\ store'[b][i] = x
  <2>1. CASE store'[b] = store[b]
    BY <1>1, <1>2, <2>1
  <2>2. ASSUME NEW y, store'[b] = Append(store[b], y)
        PROVE  Len(store'[b]) \in Nat /\ Len(store[b]) <= Len(store'[b]) /\ store'[b][i] = x
    BY <1>1, <1>2, <1>3, <2>2
  <2>3. QED  BY <2>1, <2>2
<1>5. i \in cursor'[b] + 1 .. Len(store'[b])
  BY <1>1, <1>2, <1>4 DEF Live
<1>6. QED  BY <1>4, <1>5 DEF Queued, Live

\* No enqueue takes anything out of an array band.
LEMMA EnqueueKeeps ==
  ASSUME IInv, NEW r \in Requests, Enqueue(r), NEW b \in ArrayBands, NEW x \in Queued(b)
  PROVE  x \in Queued(b)'
<1>1. b \in Bands /\ b # LIVENESS /\ b # STREAMING
  BY DEF ArrayBands, Bands, EMERGENCY, LIVENESS, CONTROL, STREAMING, BULK
<1>2. cursor' = cursor /\ store \in [Bands -> Seq(Item)]
  BY DEF Enqueue, Accept, IInv, TypeOK
<1>3. CASE r.band = LIVENESS /\ EnqueueLiveness(r)
  <2>1. store'[b] = store[b]
    BY <1>1, <1>2, <1>3 DEF EnqueueLiveness
  <2>2. QED  BY <1>1, <1>2, <2>1, GrowthKeeps
<1>4. CASE r.band = STREAMING /\ (CoalesceStreaming(r) \/ InsertStreaming(r))
  <2>1. store'[b] = store[b]
    BY <1>1, <1>2, <1>4 DEF CoalesceStreaming, InsertStreaming
  <2>2. QED  BY <1>1, <1>2, <2>1, GrowthKeeps
<1>5. CASE EnqueueBounded(r)
  <2>1. store'[b] = store[b] \/ store'[b] = Append(store[b], ItemOf(r))
    BY <1>1, <1>2, <1>5 DEF EnqueueBounded
  <2>2. QED  BY <1>1, <1>2, <2>1, GrowthKeeps
<1>6. CASE UNCHANGED <<store, counts>>
  BY <1>1, <1>2, <1>6, GrowthKeeps
<1>7. QED  BY <1>3, <1>4, <1>5, <1>6 DEF Enqueue, OverflowBounded

\* A dequeue takes out the head it delivers and nothing behind it, whether or
\* not the dead prefix is given back.
LEMMA DequeueKeeps ==
  ASSUME IInv, Dequeue, NEW b \in ArrayBands, NEW x \in Queued(b)
  PROVE  x \in Queued(b)' \/ outcome' = [op |-> "dequeued", item |-> x]
<1> DEFINE d == BestBand
<1>1. /\ b \in Bands /\ d \in Bands
      /\ b \notin MapBands
  <2>1. b \in Bands /\ b \notin MapBands
    BY DEF ArrayBands, MapBands, Bands, EMERGENCY, LIVENESS, CONTROL, STREAMING, BULK
  <2>2. QED  BY <2>1, QueuedItem, Tournament
<1>2. /\ store \in [Bands -> Seq(Item)] /\ cursor \in [Bands -> Nat]
      /\ cursor[b] \in Nat /\ Len(store[b]) \in Nat
      /\ BandInv(b, store[b], cursor[b], counts[b], nextSeq, now) /\ nextSeq \in Nat /\ now \in Nat
  BY <1>1, InvIsBandwise, ItemFields
<1>3. RemoveHead(d) /\ outcome' = [op |-> "dequeued", item |-> BandHead(d)]
  BY DEF Dequeue
<1> HIDE DEF d
<1>4. CASE b # d
  <2>1. store'[b] = store[b] /\ cursor'[b] = cursor[b]
    BY <1>1, <1>2, <1>3, <1>4 DEF RemoveHead
  <2>2. QED  BY <1>1, <2>1, GrowthKeeps
<1>5. CASE b = d
  <2>1. PICK i \in Live(b) : x = store[b][i]
    BY DEF Queued
  <2>2. i \in Int /\ cursor[b] + 1 <= i /\ i <= Len(store[b])
    BY <1>2, <2>1 DEF Live
  <2>3. CASE i = cursor[b] + 1
    BY <1>3, <1>5, <2>1, <2>3 DEF BandHead
  <2>4. CASE cursor[b] + 1 < i /\ 2 * (cursor[b] + 1) >= Len(store[b])
    <3> DEFINE u == SubSeq(store[b], cursor[b] + 2, Len(store[b]))
               j == i - (cursor[b] + 1)
    <3>1. store'[b] = u /\ cursor'[b] = 0
      <4>1. (cursor[b] + 1) + 1 = cursor[b] + 2
        BY <1>2
      <4>2. QED  BY <1>1, <1>2, <1>3, <1>5, <2>4, <4>1 DEF RemoveHead
    <3>2. /\ Len(u) = Len(store[b]) - (cursor[b] + 1)
          /\ \A m \in 1..Len(store[b]) - (cursor[b] + 1) : u[m] = store[b][m + (cursor[b] + 1)]
      <4>1. cursor[b] < Len(store[b])
        BY <1>2, <2>2
      <4>2. QED  BY <1>2, <4>1, BandCompact
    <3>3. j \in 1..Len(store[b]) - (cursor[b] + 1) /\ j + (cursor[b] + 1) = i
      BY <1>2, <2>2, <2>4
    <3> HIDE DEF u, j
    <3>4. store'[b][j] = x /\ j \in cursor'[b] + 1 .. Len(store'[b])
      BY <1>2, <2>1, <3>1, <3>2, <3>3
    <3>5. QED  BY <3>4 DEF Queued, Live
  <2>5. CASE cursor[b] + 1 < i /\ ~(2 * (cursor[b] + 1) >= Len(store[b]))
    <3>1. store'[b] = store[b] /\ cursor'[b] = cursor[b] + 1
      BY <1>1, <1>2, <1>3, <1>5, <2>5 DEF RemoveHead
    <3>2. i \in cursor'[b] + 1 .. Len(store'[b])
      BY <1>2, <2>2, <2>5, <3>1
    <3>3. QED  BY <2>1, <3>1, <3>2 DEF Queued, Live
  <2>6. QED  BY <1>2, <2>2, <2>3, <2>4, <2>5
<1>6. QED  BY <1>4, <1>5

\* No step takes a one-off item from the queue but by sending it or in teardown.
LEMMA LeavesOnlySent == IInv /\ [Next]_vars => [LeavesBySending]_vars
<1>1. ASSUME IInv, [Next]_vars, vars' # vars, NEW b \in ArrayBands, NEW x \in Queued(b)
      PROVE  \/ x \in Queued(b)'
             \/ outcome' = [op |-> "dequeued", item |-> x]
             \/ outcome'.op = "cleared"
  <2>1. ASSUME NEW r \in Requests, Enqueue(r)  PROVE x \in Queued(b)'
    BY <1>1, <2>1, EnqueueKeeps
  <2>2. CASE Dequeue
    BY <1>1, <2>2, DequeueKeeps
  <2>3. CASE UNCHANGED <<store, cursor>>
    <3>1. b \in Bands
      BY DEF ArrayBands, Bands, EMERGENCY, CONTROL, BULK
    <3>2. QED  BY <1>1, <2>3, <3>1, GrowthKeeps
  <2>4. CASE Clear
    BY <2>4 DEF Clear
  <2>5. QED  BY <1>1, <2>1, <2>2, <2>3, <2>4 DEF Next, DequeueEmpty, Tick
<1>2. QED  BY <1>1 DEF LeavesBySending

\* Whatever the clock does and whatever else is queued, replaced, coalesced or
\* refused, an emergency, a user action or a bulk frame that was accepted leaves
\* the queue by being sent or by teardown.
THEOREM AcceptedIsSent == Spec => NothingLostSilently
<1>1. QED  BY LeavesOnlySent, QueueInvariant, PTL DEF Spec, NothingLostSilently

-----------------------------------------------------------------------------
(* OutboundQueue implements BandScheduler: on a clock that never runs      *)
(* backwards, bands, cursors, compaction and the comparison of five heads  *)
(* are one set of waiting items from which the first is taken.             *)

(* What operations on storage do to the set of queued items *)

\* The items of s behind its dead prefix.
Behind(s, c) == {s[i] : i \in c + 1 .. Len(s)}

\* Storage in which no number occurs twice.
Numbered(s, c) ==
  /\ s \in Seq(Item) /\ c \in Nat /\ c <= Len(s)
  /\ \A i, j \in 1..Len(s) : i < j => s[i].seq < s[j].seq

\* Positions are told apart by the items in them.
LEMMA PositionsDiffer ==
  ASSUME NEW s, NEW c, Numbered(s, c), NEW i \in 1..Len(s), NEW j \in 1..Len(s), s[i] = s[j]
  PROVE  i = j
<1>1. Len(s) \in Nat /\ s[i].seq \in Nat
  BY ItemFields DEF Numbered
<1>2. i < j \/ j < i \/ i = j
  BY <1>1
<1> QED BY <1>1, <1>2 DEF Numbered

\* An item at the tail is one more.
LEMMA AppendAdds ==
  ASSUME NEW s, NEW c, Numbered(s, c), NEW x \in Item
  PROVE  Behind(Append(s, x), c) = Behind(s, c) \cup {x}
<1>1. /\ Len(s) \in Nat /\ c \in Nat /\ c <= Len(s) /\ Len(Append(s, x)) = Len(s) + 1
      /\ \A i \in 1..Len(s) : Append(s, x)[i] = s[i]
      /\ Append(s, x)[Len(s) + 1] = x
  BY AppendProperties, LenProperties DEF Numbered
<1>2. c + 1 .. Len(s) + 1 = (c + 1 .. Len(s)) \cup {Len(s) + 1}
  BY <1>1
<1>3. \A i \in c + 1 .. Len(s) : i \in 1..Len(s)
  BY <1>1
<1> QED BY <1>1, <1>2, <1>3 DEF Behind

\* The head is one less, when the cursor moves over it.
LEMMA AdvanceTakes ==
  ASSUME NEW s, NEW c, Numbered(s, c), c < Len(s)
  PROVE  Behind(s, c + 1) = Behind(s, c) \ {s[c + 1]}
<1>1. Len(s) \in Nat /\ c \in Nat
  BY ItemFields DEF Numbered
<1>2. (c + 1) + 1 .. Len(s) = (c + 1 .. Len(s)) \ {c + 1}
  BY <1>1
<1>3. \A i \in c + 1 .. Len(s) : i \in 1..Len(s)
  BY <1>1
<1>4. \A i \in c + 1 .. Len(s) : s[i] = s[c + 1] => i = c + 1
  <2> SUFFICES ASSUME NEW i \in c + 1 .. Len(s), s[i] = s[c + 1] PROVE i = c + 1
    OBVIOUS
  <2>1. i \in 1..Len(s) /\ c + 1 \in 1..Len(s)
    BY <1>1
  <2> QED BY <2>1, PositionsDiffer
<1> QED BY <1>2, <1>4 DEF Behind

\* The same storage, moved down by d.
LEMMA ShiftKeeps ==
  ASSUME NEW s, NEW u, NEW d \in Nat, NEW n \in Nat, Len(s) = n + d, Len(u) = n,
         \A i \in 1..n : u[i] = s[i + d]
  PROVE  Behind(u, 0) = Behind(s, d)
<1>1. \A i \in 1..n : i + d \in d + 1 .. n + d
  OBVIOUS
<1>2. \A j \in d + 1 .. n + d : j - d \in 1..n /\ (j - d) + d = j
  OBVIOUS
<1>3. \A j \in d + 1 .. n + d : s[j] = u[j - d]
  BY <1>2
<1> QED BY <1>1, <1>2, <1>3 DEF Behind

\* Deleting a position takes its item and no other.
LEMMA DeleteTakes ==
  ASSUME NEW s, Numbered(s, 0), NEW i \in 1..Len(s), NEW u, u = RemoveAt(s, i)
  PROVE  Numbered(u, 0) /\ Behind(u, 0) = Behind(s, 0) \ {s[i]}
<1>0. /\ u \in Seq(Item) /\ Len(u) = Len(s) - 1 /\ s \in Seq(Item)
      /\ \A j \in 1..Len(s) - 1 : u[j] = s[IF j < i THEN j ELSE j + 1]
  BY RemovalShifts DEF Numbered
<1>1. Len(s) \in Nat
  BY <1>0, ItemFields
<1>2. \A j \in 1..Len(u) : \E m \in 1..Len(s) : m # i /\ u[j] = s[m]
  <2> SUFFICES ASSUME NEW j \in 1..Len(u) PROVE \E m \in 1..Len(s) : m # i /\ u[j] = s[m]
    OBVIOUS
  <2>1. CASE j < i
    BY <1>0, <1>1, <2>1
  <2>2. CASE ~(j < i)
    BY <1>0, <1>1, <2>2
  <2> QED BY <2>1, <2>2
<1>3. \A m \in 1..Len(s) : m # i => \E j \in 1..Len(u) : u[j] = s[m]
  <2> SUFFICES ASSUME NEW m \in 1..Len(s), m # i PROVE \E j \in 1..Len(u) : u[j] = s[m]
    OBVIOUS
  <2>1. CASE m < i
    <3>1. m \in 1..Len(u)
      BY <1>0, <1>1, <2>1
    <3> QED BY <1>0, <2>1, <3>1
  <2>2. CASE i < m
    <3>1. m - 1 \in 1..Len(s) - 1 /\ ~(m - 1 < i) /\ (m - 1) + 1 = m
      BY <1>1, <2>2
    <3>2. u[m - 1] = s[(m - 1) + 1]
      BY <1>0, <3>1
    <3> QED BY <1>0, <3>1, <3>2
  <2> QED BY <1>1, <2>1, <2>2
<1>4. \A m \in 1..Len(s) : s[m] = s[i] => m = i
  BY PositionsDiffer
<1>5. /\ \A x : x \in Behind(u, 0) <=> \E j \in 1..Len(u) : x = u[j]
      /\ \A x : x \in Behind(s, 0) <=> \E m \in 1..Len(s) : x = s[m]
  BY DEF Behind
<1>6. \A x \in Behind(u, 0) : x \in Behind(s, 0) /\ x # s[i]
  BY <1>2, <1>4, <1>5
<1>7. \A x \in Behind(s, 0) : x # s[i] => x \in Behind(u, 0)
  <2> SUFFICES ASSUME NEW m \in 1..Len(s), s[m] # s[i] PROVE s[m] \in Behind(u, 0)
    BY <1>5
  <2>1. PICK j \in 1..Len(u) : u[j] = s[m]
    BY <1>3
  <2> QED BY <2>1, <1>5
<1>8. Numbered(u, 0)
  <2> SUFFICES ASSUME NEW j \in 1..Len(u), NEW m \in 1..Len(u), j < m PROVE u[j].seq < u[m].seq
    BY <1>0, <1>1 DEF Numbered
  <2> DEFINE old(k) == IF k < i THEN k ELSE k + 1
  <2>1. old(j) \in 1..Len(s) /\ old(m) \in 1..Len(s) /\ old(j) < old(m)
    BY <1>0, <1>1
  <2>2. u[j] = s[old(j)] /\ u[m] = s[old(m)]
    BY <1>0
  <2> HIDE DEF old
  <2> QED BY <2>1, <2>2 DEF Numbered
<1> QED BY <1>6, <1>7, <1>8

\* Overwriting a position exchanges its item.
LEMMA OverwriteExchanges ==
  ASSUME NEW s, Numbered(s, 0), NEW i \in 1..Len(s),
         NEW u, Len(u) = Len(s), \A j \in 1..Len(s) : j # i => u[j] = s[j]
  PROVE  Behind(u, 0) = (Behind(s, 0) \ {s[i]}) \cup {u[i]}
<1>1. \A m \in 1..Len(s) : s[m] = s[i] => m = i
  BY PositionsDiffer
<1>2. Behind(u, 0) = {u[j] : j \in 1..Len(s)} /\ Behind(s, 0) = {s[m] : m \in 1..Len(s)}
  BY DEF Behind
<1> QED BY <1>1, <1>2

\* There are as many items as positions.
LEMMA BehindCounts ==
  ASSUME NEW s, NEW c, Numbered(s, c)
  PROVE  IsFiniteSet(Behind(s, c)) /\ Cardinality(Behind(s, c)) = Len(s) - c
<1> DEFINE P == c + 1 .. Len(s)
           f == [i \in P |-> s[i]]
<1>1. Len(s) \in Nat /\ c \in Nat /\ c <= Len(s)
  BY ItemFields DEF Numbered
<1>2. IsFiniteSet(P) /\ Cardinality(P) = Len(s) - c
  <2>1. c + 1 \in Int /\ Len(s) \in Int
    BY <1>1
  <2>2. IsFiniteSet(P) /\ Cardinality(P) = IF c + 1 > Len(s) THEN 0 ELSE Len(s) - (c + 1) + 1
    BY <2>1, FS_Interval
  <2> QED BY <1>1, <2>2
<1>3. \A i, j \in P : s[i] = s[j] => i = j
  <2>1. \A i \in P : i \in 1..Len(s)
    BY <1>1
  <2> QED BY <2>1, PositionsDiffer
<1>4. f \in Bijection(P, Behind(s, c))
  <2>1. f \in [P -> Behind(s, c)]
    BY DEF Behind
  <2>2. \A i, j \in P : f[i] = f[j] => i = j
    BY <1>3
  <2>3. \A x \in Behind(s, c) : \E i \in P : f[i] = x
    BY DEF Behind
  <2> HIDE DEF f, P
  <2>4. f \in Injection(P, Behind(s, c))
    BY <2>1, <2>2 DEF Injection, IsInjective
  <2>5. f \in Surjection(P, Behind(s, c))
    BY <2>1, <2>3 DEF Surjection
  <2> QED BY <2>4, <2>5 DEF Bijection
<1>5. ExistsBijection(P, Behind(s, c))
  BY <1>4 DEF ExistsBijection
<1> HIDE DEF P
<1> QED BY <1>2, <1>5, FS_Bijection

-----------------------------------------------------------------------------
(* The set of everything queued *)

\* What is proved of the queue, with numbers that are unique across bands.
RInv == IInv /\ \A x, y \in AllQueued : x.seq = y.seq => x = y

\* A band as the lemmas above see it.
LEMMA BandsAreNumbered ==
  ASSUME IInv, NEW b \in Bands
  PROVE  /\ Numbered(store[b], cursor[b]) /\ Queued(b) = Behind(store[b], cursor[b])
         /\ cursor[b] \in Nat /\ Len(store[b]) \in Nat /\ counts[b] = Len(store[b]) - cursor[b]
         /\ b \in MapBands => cursor[b] = 0
<1>1. BandInv(b, store[b], cursor[b], counts[b], nextSeq, now)
  BY InvIsBandwise
<1>2. store[b] \in Seq(Item) /\ cursor[b] \in Nat /\ Len(store[b]) \in Nat
  BY <1>1, ItemFields DEF BandInv
<1>3. cursor[b] <= Len(store[b])
  BY <1>1, <1>2 DEF BandInv
<1> QED BY <1>1, <1>2, <1>3 DEF BandInv, Numbered, Queued, Live, Behind

\* What the scheduler calls a band is the queue of that band.
LEMMA OnBandIsQueued ==
  ASSUME IInv, NEW b \in Bands
  PROVE  /\ Scheduler!OnBand(b) = Queued(b)
         /\ Scheduler!Full(b) <=> counts[b] >= Capacity[b]
<1>1. \A d \in Bands : \A x \in Queued(d) : x.band = d
  BY QueuedItem
<1>2. Scheduler!OnBand(b) = Queued(b)
  BY <1>1 DEF Scheduler!OnBand, AllQueued
<1>3. Cardinality(Queued(b)) = counts[b]
  BY BandsAreNumbered, BehindCounts
<1>4. Scheduler!Cardinality(Queued(b)) = Cardinality(Queued(b))
  BY DEF Cardinality, Scheduler!Cardinality
<1> QED BY <1>2, <1>3, <1>4 DEF Scheduler!Full

\* A change of one band, seen in the set.
LEMMA OneBandChanges ==
  ASSUME IInv, NEW b \in Bands, NEW gone, NEW new,
         \A d \in Bands : d # b => store'[d] = store[d] /\ cursor'[d] = cursor[d],
         \A x \in gone : x.band = b,
         Queued(b)' = (Queued(b) \ gone) \cup new
  PROVE  AllQueued' = (AllQueued \ gone) \cup new
<1>1. \A d \in Bands : \A x \in Queued(d) : x.band = d
  BY QueuedItem
<1>2. \A d \in Bands : d # b => Queued(d)' = Queued(d)
  BY DEF Queued, Live
<1>3. \A x : x \in AllQueued <=> \E d \in Bands : x \in Queued(d)
  BY DEF AllQueued
<1>4. \A x : x \in AllQueued' <=> \E d \in Bands : x \in Queued(d)'
  BY DEF AllQueued
<1>5. ASSUME NEW x \in AllQueued' PROVE x \in (AllQueued \ gone) \cup new
  <2>1. PICK d \in Bands : x \in Queued(d)'
    BY <1>4, <1>5
  <2>2. CASE d = b
    BY <1>3, <2>1, <2>2
  <2>3. CASE d # b
    BY <1>1, <1>2, <1>3, <2>1, <2>3
  <2> QED BY <2>2, <2>3
<1>6. ASSUME NEW x \in (AllQueued \ gone) \cup new PROVE x \in AllQueued'
  <2>1. CASE x \in new
    BY <1>4, <2>1
  <2>2. CASE x \in AllQueued /\ x \notin gone
    <3>1. PICK d \in Bands : x \in Queued(d)
      BY <1>3, <2>2
    <3> QED BY <1>2, <1>4, <2>2, <3>1
  <2> QED BY <1>6, <2>1, <2>2
<1> QED BY <1>5, <1>6

\* Both compare alike.
LEMMA SameOrder ==
  ASSUME NEW x, NEW y
  PROVE  Scheduler!Precedes(x, y) <=> Before(x, y)
BY DEF Scheduler!Precedes, Scheduler!Urgency, Scheduler!Control, Before, EffectiveBand, AGE_CLAMP_BAND, CONTROL

-----------------------------------------------------------------------------
(* Every step of the queue is a step of the scheduler *)

\* The item both build for a request.
LEMMA SameItem == ASSUME NEW r PROVE Scheduler!Fresh(r) = ItemOf(r)
BY DEF Scheduler!Fresh, ItemOf

\* A heartbeat takes the place of the identity's one.
LEMMA LivenessIsOffered ==
  ASSUME IInv, NEW r \in Requests, r.band = LIVENESS, EnqueueLiveness(r), UNCHANGED cursor
  PROVE  Scheduler!OfferHeartbeat(r)
<1> DEFINE b == LIVENESS
           s == store[b]
           mine == {x \in AllQueued : x.band = LIVENESS /\ x.identityId = r.identityId}
<1>1. /\ b \in Bands /\ b \in MapBands /\ cursor[b] = 0 /\ cursor' = cursor
      /\ Numbered(s, 0) /\ Queued(b) = Behind(s, 0) /\ Len(s) \in Nat /\ s \in Seq(Item)
      /\ store \in [Bands -> Seq(Item)]
  <2>1. b \in Bands /\ b \in MapBands
    BY DEF LIVENESS, Bands, MapBands
  <2> QED BY <2>1, BandsAreNumbered DEF Numbered, IInv, TypeOK
<1>2. ItemOf(r) \in Item
  BY <1>1, ItemOfType DEF IInv, TypeOK
<1>3. \A x : x \in mine <=> \E i \in SlotsOf(r) : x = s[i]
  <2>1. \A x : x \in mine <=> x \in Queued(b) /\ x.identityId = r.identityId
    BY <1>1, QueuedItem DEF AllQueued
  <2>2. \A x : x \in Queued(b) <=> \E i \in 1..Len(s) : x = s[i]
    BY <1>1 DEF Behind
  <2>3. \A i \in 1..Len(s) : i \in SlotsOf(r) <=> s[i].identityId = r.identityId
    BY DEF SlotsOf, SameSlot, LIVENESS, STREAMING
  <2>4. \A i \in SlotsOf(r) : i \in 1..Len(s)
    BY DEF SlotsOf
  <2> QED BY <2>1, <2>2, <2>3, <2>4
<1>4. \A x \in mine : x.band = b
  OBVIOUS
<1>5. Queued(b)' = (Queued(b) \ mine) \cup {ItemOf(r)}
  <2>1. ASSUME NEW i \in SlotsOf(r), store' = [store EXCEPT ![LIVENESS] = Append(RemoveAt(@, i), ItemOf(r))]
        PROVE  Queued(b)' = (Queued(b) \ mine) \cup {ItemOf(r)}
    <3> DEFINE u == RemoveAt(s, i)
    <3>1. i \in 1..Len(s) /\ store'[b] = Append(u, ItemOf(r))
      BY <1>1, <2>1 DEF SlotsOf
    <3>2. Numbered(u, 0) /\ Behind(u, 0) = Behind(s, 0) \ {s[i]}
      <4> HIDE DEF s
      <4> QED BY <1>1, <3>1, DeleteTakes
    <3> HIDE DEF u
    <3>3. mine = {s[i]}
      <4>1. \A j \in SlotsOf(r) : j = i
        <5>1. \A j \in SlotsOf(r) : j \in 1..Len(s) /\ SameSlot(s[j], s[i])
          <6>1. s[i].band = LIVENESS
            BY <1>1, <3>1 DEF IInv, TypeOK
          <6> QED BY <6>1 DEF SlotsOf, SameSlot, LIVENESS, STREAMING
        <5> QED BY <1>1, <3>1, <5>1 DEF IInv, OneSlotPerKey
      <4> HIDE DEF mine
      <4> QED BY <1>3, <4>1
    <3>4. Queued(b)' = Behind(Append(u, ItemOf(r)), 0)
      BY <1>1, <3>1 DEF Queued, Live, Behind
    <3> HIDE DEF mine
    <3> QED BY <1>1, <1>2, <3>2, <3>3, <3>4, AppendAdds
  <2>2. ASSUME SlotsOf(r) = {}, store' = [store EXCEPT ![LIVENESS] = Append(@, ItemOf(r))]
        PROVE  Queued(b)' = (Queued(b) \ mine) \cup {ItemOf(r)}
    <3>1. mine = {}
      <4> HIDE DEF mine
      <4> QED BY <1>3, <2>2
    <3>2. Queued(b)' = Behind(Append(s, ItemOf(r)), 0)
      BY <1>1, <2>2 DEF Queued, Live, Behind
    <3> QED BY <1>1, <1>2, <3>1, <3>2, AppendAdds
  <2> QED BY <2>1, <2>2 DEF EnqueueLiveness
<1>6. \A d \in Bands : d # b => store'[d] = store[d] /\ cursor'[d] = cursor[d]
  BY <1>1 DEF EnqueueLiveness
<1>7. AllQueued' = (AllQueued \ mine) \cup {ItemOf(r)}
  <2> DEFINE new == {ItemOf(r)}
  <2>1. b \in Bands
    BY <1>1
  <2>2. Queued(b)' = (Queued(b) \ mine) \cup new
    BY <1>5
  <2> HIDE DEF mine, new, b, s
  <2>3. AllQueued' = (AllQueued \ mine) \cup new
    BY <2>1, <2>2, <1>4, <1>6, OneBandChanges
  <2> QED BY <2>3 DEF new
<1>8. outcome' = [op |-> "accepted", item |-> ItemOf(r)]
  BY DEF EnqueueLiveness
<1> QED BY <1>7, <1>8, SameItem DEF Scheduler!OfferHeartbeat, Scheduler!Liveness, LIVENESS

\* A value takes over the slot of its stream.
LEMMA CoalescingIsOffered ==
  ASSUME IInv, NEW r \in Requests, r.band = STREAMING, CoalesceStreaming(r), UNCHANGED cursor
  PROVE  Scheduler!OfferUpdate(r)
<1> DEFINE b == STREAMING
           s == store[b]
<1>1. /\ b \in Bands /\ b \in MapBands /\ cursor[b] = 0 /\ cursor' = cursor
      /\ Numbered(s, 0) /\ Queued(b) = Behind(s, 0) /\ Len(s) \in Nat /\ s \in Seq(Item)
      /\ store \in [Bands -> Seq(Item)]
  <2>1. b \in Bands /\ b \in MapBands
    BY DEF STREAMING, Bands, MapBands
  <2> QED BY <2>1, BandsAreNumbered DEF Numbered, IInv, TypeOK
<1>2. PICK i \in SlotsOf(r) : /\ store' = [store EXCEPT ![STREAMING][i].value = r.value]
                              /\ outcome' = [op |-> "coalesced", item |-> store'[STREAMING][i]]
  BY DEF CoalesceStreaming
<1> DEFINE e == [s[i] EXCEPT !.value = r.value]
<1>3. i \in 1..Len(s) /\ s[i] \in Queued(b) /\ Scheduler!SameStream(s[i], r) /\ DOMAIN s = 1..Len(s)
  BY <1>1 DEF SlotsOf, SameSlot, Scheduler!SameStream, Behind
<1>4. store'[b] = [s EXCEPT ![i] = e] /\ store'[b][i] = e
  BY <1>1, <1>2, <1>3
<1>5. s[i].band = b
  BY <1>1, <1>3, QueuedItem
<1>6. Queued(b)' = (Queued(b) \ {s[i]}) \cup {e}
  <2> DEFINE u == [s EXCEPT ![i] = e]
  <2>1. Queued(b)' = Behind(u, 0)
    BY <1>1, <1>4 DEF Queued, Live, Behind
  <2>2. Behind(u, 0) = (Behind(s, 0) \ {s[i]}) \cup {e}
    <3> HIDE DEF s, e
    <3>1. Len(u) = Len(s) /\ (\A j \in 1..Len(s) : j # i => u[j] = s[j]) /\ u[i] = e
      BY <1>1, <1>3
    <3> HIDE DEF u
    <3>2. Behind(u, 0) = (Behind(s, 0) \ {s[i]}) \cup {u[i]}
      BY <1>1, <1>3, <3>1, OverwriteExchanges
    <3> QED BY <3>1, <3>2
  <2> HIDE DEF u, s, e
  <2> QED BY <1>1, <2>1, <2>2
<1>7. \A d \in Bands : d # b => store'[d] = store[d] /\ cursor'[d] = cursor[d]
  BY <1>1, <1>2
<1>8. AllQueued' = (AllQueued \ {s[i]}) \cup {e}
  <2> DEFINE gone == {s[i]}
             new == {e}
  <2>1. \A x \in gone : x.band = b
    BY <1>5
  <2>2. Queued(b)' = (Queued(b) \ gone) \cup new
    BY <1>6
  <2>4. b \in Bands
    BY <1>1
  <2> HIDE DEF gone, new, s, e, b
  <2>3. AllQueued' = (AllQueued \ gone) \cup new
    BY <1>7, <2>1, <2>2, <2>4, OneBandChanges
  <2> QED BY <2>3 DEF gone, new
<1>9. s[i] \in Scheduler!OnBand(STREAMING) /\ outcome' = [op |-> "coalesced", item |-> e]
  BY <1>1, <1>2, <1>3, <1>4, OnBandIsQueued
<1> QED BY <1>3, <1>8, <1>9 DEF Scheduler!OfferUpdate, Scheduler!Streaming, STREAMING

\* A new stream gets in, at the expense of the oldest.
LEMMA InsertionIsOffered ==
  ASSUME IInv, NEW r \in Requests, r.band = STREAMING, InsertStreaming(r), UNCHANGED cursor
  PROVE  Scheduler!OfferStream(r)
<1> DEFINE b == STREAMING
           s == store[b]
           gone == IF counts[b] >= Capacity[b] THEN {s[1]} ELSE {}
           new == {ItemOf(r)}
<1>1. /\ b \in Bands /\ b \in MapBands /\ cursor[b] = 0 /\ cursor' = cursor
      /\ Numbered(s, 0) /\ Queued(b) = Behind(s, 0) /\ Len(s) \in Nat /\ s \in Seq(Item)
      /\ store \in [Bands -> Seq(Item)] /\ counts[b] = Len(s)
  <2>1. b \in Bands /\ b \in MapBands
    BY DEF STREAMING, Bands, MapBands
  <2> QED BY <2>1, BandsAreNumbered DEF Numbered, IInv, TypeOK
<1>2. ItemOf(r) \in Item
  BY <1>1, ItemOfType DEF IInv, TypeOK
<1>3. \A x \in Scheduler!OnBand(STREAMING) : ~Scheduler!SameStream(x, r)
  <2>1. \A x \in Queued(b) : \E i \in 1..Len(s) : x = s[i]
    BY <1>1 DEF Behind
  <2>2. \A i \in 1..Len(s) : ~SameSlot(s[i], r)
    BY DEF InsertStreaming, SlotsOf
  <2>3. \A x \in Queued(b) : ~Scheduler!SameStream(x, r)
    BY <2>1, <2>2 DEF SameSlot, Scheduler!SameStream
  <2> QED BY <1>1, <2>3, OnBandIsQueued
<1>4. Scheduler!Full(STREAMING) <=> counts[b] >= Capacity[b]
  BY <1>1, OnBandIsQueued
<1>5. CASE counts[b] >= Capacity[b]
  <2>1. Len(s) >= 1 /\ 1 \in 1..Len(s) /\ s # <<>>
    <3>1. Capacity[b] \in Nat \ {0}
      BY CapacityAssumption DEF CappedBands, Bands, STREAMING, LIVENESS
    <3> QED BY <1>1, <1>5, <3>1
  <2>2. s[1] \in Queued(b) /\ s[1].band = b
    <3>1. s[1] \in Queued(b)
      BY <1>1, <2>1 DEF Behind
    <3> QED BY <1>1, <3>1, QueuedItem
  <2>3. Scheduler!Oldest(STREAMING) = s[1]
    <3>1. \A x \in Queued(b) : s[1].seq <= x.seq /\ (x.seq <= s[1].seq => x = s[1])
      <4> SUFFICES ASSUME NEW i \in 1..Len(s) PROVE s[1].seq <= s[i].seq /\ (s[i].seq <= s[1].seq => s[i] = s[1])
        BY <1>1 DEF Behind
      <4>1. s[1].seq \in Nat /\ s[i].seq \in Nat
        BY <1>1, <2>1, ItemFields
      <4>2. i = 1 \/ 1 < i
        BY <1>1
      <4> QED BY <1>1, <2>1, <4>1, <4>2 DEF Numbered
    <3>2. Scheduler!OnBand(STREAMING) = Queued(b)
      BY <1>1, OnBandIsQueued
    <3> HIDE DEF s, b
    <3> QED BY <2>2, <3>1, <3>2 DEF Scheduler!Oldest
  <2>4. store'[b] = Append(Tail(s), ItemOf(r))
    <3>1. Capacity[b] \in Nat
      BY CapacityAssumption DEF CappedBands, Bands, STREAMING, LIVENESS
    <3> QED BY <1>1, <1>5, <3>1 DEF InsertStreaming
  <2>5. Numbered(Tail(s), 0) /\ Behind(Tail(s), 0) = Behind(s, 0) \ {s[1]}
    <3>1. /\ Tail(s) \in Seq(Item) /\ Len(Tail(s)) = Len(s) - 1
          /\ \A i \in 1..Len(s) - 1 : Tail(s)[i] = s[i + 1]
      BY <1>1, <2>1, HeadTailProperties
    <3>2. Numbered(Tail(s), 0)
      BY <1>1, <3>1 DEF Numbered
    <3>3. Behind(Tail(s), 0) = Behind(s, 1)
      <4> DEFINE u == Tail(s)
                 n == Len(s) - 1
      <4>1. n \in Nat /\ Len(s) = n + 1 /\ Len(u) = n
        BY <1>1, <2>1, <3>1
      <4>2. \A i \in 1..n : u[i] = s[i + 1]
        BY <3>1
      <4> HIDE DEF s, u, n
      <4>3. Behind(u, 0) = Behind(s, 1)
        BY <4>1, <4>2, ShiftKeeps
      <4> QED BY <4>3 DEF u
    <3>4. Behind(s, 1) = Behind(s, 0) \ {s[1]}
      <4>1. 0 < Len(s) /\ 0 + 1 = 1
        BY <1>1, <2>1
      <4> HIDE DEF s
      <4> QED BY <1>1, <4>1, AdvanceTakes
    <3> QED BY <3>2, <3>3, <3>4
  <2>6. Queued(b)' = Behind(Append(Tail(s), ItemOf(r)), 0)
    BY <1>1, <2>4 DEF Queued, Live, Behind
  <2>7. Queued(b)' = (Queued(b) \ gone) \cup new
    <3>1. gone = {s[1]}
      BY <1>5
    <3> HIDE DEF s, gone
    <3> QED BY <1>1, <1>2, <2>5, <2>6, <3>1, AppendAdds
  <2>8. \A x \in gone : x.band = b
    BY <1>5, <2>2
  <2>9. \A d \in Bands : d # b => store'[d] = store[d] /\ cursor'[d] = cursor[d]
    BY <1>1 DEF InsertStreaming
  <2>10. AllQueued' = (AllQueued \ gone) \cup new
    <3>1. b \in Bands
      BY <1>1
    <3> HIDE DEF gone, new, b, s
    <3> QED BY <3>1, <2>7, <2>8, <2>9, OneBandChanges
  <2>11. outcome' = [op |-> "accepted", item |-> ItemOf(r)]
    BY DEF InsertStreaming
  <2> QED BY <1>3, <1>4, <1>5, <2>3, <2>10, <2>11, SameItem DEF Scheduler!OfferStream, Scheduler!Streaming, STREAMING
<1>6. CASE ~(counts[b] >= Capacity[b])
  <2>1. store'[b] = Append(s, ItemOf(r))
    <3>1. Capacity[b] \in Nat
      BY CapacityAssumption DEF CappedBands, Bands, STREAMING, LIVENESS
    <3> QED BY <1>1, <1>6, <3>1 DEF InsertStreaming
  <2>2. Queued(b)' = Behind(Append(s, ItemOf(r)), 0)
    BY <1>1, <2>1 DEF Queued, Live, Behind
  <2>3. gone = {}
    BY <1>6
  <2>4. Queued(b)' = (Queued(b) \ gone) \cup new
    <3> HIDE DEF s, gone
    <3> QED BY <1>1, <1>2, <2>2, <2>3, AppendAdds
  <2>5. \A d \in Bands : d # b => store'[d] = store[d] /\ cursor'[d] = cursor[d]
    BY <1>1 DEF InsertStreaming
  <2>6. AllQueued' = (AllQueued \ gone) \cup new
    <3>1. \A x \in gone : x.band = b
      BY <2>3
    <3>2. b \in Bands
      BY <1>1
    <3> HIDE DEF gone, new, b, s
    <3> QED BY <2>4, <2>5, <3>1, <3>2, OneBandChanges
  <2>7. outcome' = [op |-> "accepted", item |-> ItemOf(r)]
    BY DEF InsertStreaming
  <2> QED BY <1>3, <1>4, <1>6, <2>3, <2>6, <2>7, SameItem DEF Scheduler!OfferStream, Scheduler!Streaming, STREAMING
<1> QED BY <1>5, <1>6

\* An emergency, a user action or a bulk frame is kept or refused aloud.
LEMMA BoundedIsOffered ==
  ASSUME IInv, NEW r \in Requests, r.band \in ArrayBands, EnqueueBounded(r) \/ OverflowBounded(r), UNCHANGED cursor
  PROVE  Scheduler!OfferCapped(r)
<1> DEFINE b == r.band
           s == store[b]
           gone == {}
           new == {ItemOf(r)}
<1>1. /\ b \in Bands /\ b \in CappedBands /\ cursor' = cursor /\ r.band \in {0, 2, 4}
      /\ Numbered(s, cursor[b]) /\ Queued(b) = Behind(s, cursor[b])
      /\ store \in [Bands -> Seq(Item)] /\ counts[b] \in Nat /\ Capacity[b] \in Nat
  <2>1. b \in Bands /\ b \in CappedBands /\ r.band \in {0, 2, 4}
    BY DEF ArrayBands, CappedBands, Bands, EMERGENCY, LIVENESS, CONTROL, BULK
  <2> QED BY <2>1, BandsAreNumbered, CapacityAssumption DEF IInv, TypeOK
<1>2. ItemOf(r) \in Item
  BY <1>1, ItemOfType DEF IInv, TypeOK
<1>3. Scheduler!Full(r.band) <=> counts[b] >= Capacity[b]
  BY <1>1, OnBandIsQueued
<1>4. CASE EnqueueBounded(r)
  <2>1. store' = [store EXCEPT ![b] = Append(s, ItemOf(r))]
    BY <1>4 DEF EnqueueBounded
  <2>2. Queued(b)' = Behind(Append(s, ItemOf(r)), cursor[b])
    BY <1>1, <2>1 DEF Queued, Live, Behind
  <2>3. Queued(b)' = (Queued(b) \ gone) \cup new
    <3> HIDE DEF s
    <3> QED BY <1>1, <1>2, <2>2, AppendAdds
  <2>4. \A d \in Bands : d # b => store'[d] = store[d] /\ cursor'[d] = cursor[d]
    BY <1>1, <2>1
  <2>5. AllQueued' = (AllQueued \ gone) \cup new
    <3>1. \A x \in gone : x.band = b
      OBVIOUS
    <3>2. b \in Bands
      BY <1>1
    <3> HIDE DEF gone, new, b, s
    <3> QED BY <2>3, <2>4, <3>1, <3>2, OneBandChanges
  <2>6. ~(counts[b] >= Capacity[b]) /\ outcome' = [op |-> "accepted", item |-> ItemOf(r)]
    BY <1>1, <1>4 DEF EnqueueBounded
  <2> QED BY <1>1, <1>3, <2>5, <2>6, SameItem
          DEF Scheduler!OfferCapped, Scheduler!Emergency, Scheduler!Control, Scheduler!Bulk
<1>5. CASE OverflowBounded(r)
  <2>1. AllQueued' = AllQueued
    BY <1>1, <1>5 DEF OverflowBounded, AllQueued, Queued, Live
  <2> QED BY <1>1, <1>3, <1>5, <2>1
          DEF OverflowBounded, Scheduler!OfferCapped, Scheduler!Emergency, Scheduler!Control, Scheduler!Bulk
<1> QED BY <1>4, <1>5

\* A head that is removed leaves its band, and with it the set.
LEMMA HeadLeaves ==
  ASSUME IInv, NEW b \in Bands, Occupied(b), RemoveHead(b)
  PROVE  AllQueued' = AllQueued \ {BandHead(b)} /\ BandHead(b) \in AllQueued
<1> DEFINE s == store[b]
           c == cursor[b]
           gone == {BandHead(b)}
           new == {}
<1>1. /\ Numbered(s, c) /\ Queued(b) = Behind(s, c) /\ c \in Nat /\ Len(s) \in Nat /\ c < Len(s)
      /\ store \in [Bands -> Seq(Item)] /\ cursor \in [Bands -> Nat] /\ s \in Seq(Item)
      /\ (b \in MapBands => c = 0)
  <2>1. c < Len(s)
    BY BandsAreNumbered DEF Occupied, Live
  <2> QED BY <2>1, BandsAreNumbered DEF Numbered, IInv, TypeOK
<1>2. BandHead(b) = s[c + 1] /\ BandHead(b) \in Queued(b) /\ BandHead(b).band = b
  BY HeadIsQueued, QueuedItem DEF BandHead
<1>3. Behind(s, c + 1) = Behind(s, c) \ gone
  <2> HIDE DEF s, c
  <2>1. Behind(s, c + 1) = Behind(s, c) \ {s[c + 1]}
    BY <1>1, AdvanceTakes
  <2> QED BY <1>2, <2>1
<1>4. /\ \A d \in Bands : d # b => store'[d] = store[d] /\ cursor'[d] = cursor[d]
      /\ Behind(store'[b], cursor'[b]) = Behind(s, c + 1)
  <2>1. CASE b \in MapBands
    <3>1. store' = [store EXCEPT ![b] = Tail(s)] /\ cursor' = cursor /\ c = 0
      BY <1>1, <2>1 DEF RemoveHead
    <3> DEFINE u == Tail(s)
               n == Len(s) - 1
    <3>2. /\ n \in Nat /\ Len(s) = n + 1 /\ Len(u) = n
          /\ \A i \in 1..n : u[i] = s[i + 1]
      <4>1. s # <<>>
        BY <1>1
      <4> QED BY <1>1, <4>1, HeadTailProperties
    <3>3. Behind(u, 0) = Behind(s, 1)
      <4> HIDE DEF u, n, s
      <4> QED BY <3>2, ShiftKeeps
    <3> QED BY <1>1, <3>1, <3>3
  <2>2. CASE b \notin MapBands /\ 2 * (c + 1) >= Len(s)
    <3> DEFINE u == SubSeq(s, c + 2, Len(s))
               n == Len(s) - (c + 1)
               d == c + 1
    <3>1. store' = [store EXCEPT ![b] = u] /\ cursor' = [cursor EXCEPT ![b] = 0]
      <4>1. (c + 1) + 1 = c + 2
        BY <1>1
      <4> QED BY <1>1, <2>2, <4>1 DEF RemoveHead
    <3>2. n \in Nat /\ d \in Nat /\ Len(s) = n + d
      BY <1>1
    <3>3. Len(u) = n /\ \A i \in 1..n : u[i] = s[i + d]
      <4>0. b \in ArrayBands
        BY <2>2 DEF ArrayBands, MapBands, Bands, EMERGENCY, LIVENESS, CONTROL, STREAMING, BULK
      <4>1. BandInv(b, s, c, counts[b], nextSeq, now) /\ nextSeq \in Nat /\ now \in Nat
        BY InvIsBandwise
      <4>2. /\ Len(SubSeq(s, c + 2, Len(s))) = Len(s) - (c + 1)
            /\ \A i \in 1..Len(s) - (c + 1) : SubSeq(s, c + 2, Len(s))[i] = s[i + (c + 1)]
        <5> HIDE DEF s, c
        <5> QED BY <1>1, <4>0, <4>1, BandCompact
      <4> QED BY <4>2
    <3>4. Behind(u, 0) = Behind(s, d)
      <4> HIDE DEF u, n, s, c, d
      <4> QED BY <3>2, <3>3, ShiftKeeps
    <3> QED BY <1>1, <3>1, <3>4
  <2>3. CASE b \notin MapBands /\ ~(2 * (c + 1) >= Len(s))
    BY <1>1, <2>3 DEF RemoveHead
  <2> QED BY <2>1, <2>2, <2>3
<1>5. Queued(b)' = (Queued(b) \ gone) \cup new
  <2>1. Queued(b)' = Behind(store'[b], cursor'[b])
    BY DEF Queued, Live, Behind
  <2> QED BY <1>1, <1>3, <1>4, <2>1
<1>6. \A x \in gone : x.band = b
  BY <1>2
<1>7. AllQueued' = (AllQueued \ gone) \cup new
  <2> HIDE DEF gone, new, s, c
  <2> QED BY <1>4, <1>5, <1>6, OneBandChanges
<1>8. BandHead(b) \in AllQueued
  BY <1>2 DEF AllQueued
<1> QED BY <1>7, <1>8

\* The winner of the five heads is the item the scheduler takes.
LEMMA DequeueIsTake ==
  ASSUME RInv, ClockMayStepBack = FALSE, Dequeue
  PROVE  Scheduler!Take
<1>1. PICK b \in Bands : b = BestBand /\ Occupied(b)
  BY Tournament DEF Dequeue, RInv
<1>2. RemoveHead(b) /\ outcome' = [op |-> "dequeued", item |-> BandHead(b)]
  BY <1>1 DEF Dequeue
<1> DEFINE w == BandHead(b)
<1>3. AllQueued' = AllQueued \ {w} /\ w \in AllQueued
  BY <1>1, <1>2, HeadLeaves DEF RInv
<1>4. \A y \in AllQueued : ~Before(y, w)
  BY <1>1, GlobalSelection DEF SelectionIsGlobal, RInv
<1>5. \A y \in AllQueued : y.seq \in Nat /\ EffectiveBand(y) \in Int
  <2>1. now \in Nat
    BY DEF RInv, IInv, TypeOK
  <2>2. \A d \in Bands : \A y \in Queued(d) : y \in Item /\ y.seq \in Nat
    BY QueuedItem DEF RInv
  <2> QED BY <2>1, <2>2, EffectiveBandType DEF AllQueued
<1>6. \A y \in AllQueued \ {w} : Before(w, y)
  <2> SUFFICES ASSUME NEW y \in AllQueued, y # w PROVE Before(w, y)
    OBVIOUS
  <2> HIDE DEF w
  <2>1. y.seq # w.seq
    BY <1>3 DEF RInv
  <2>2. w.seq \in Nat /\ EffectiveBand(w) \in Int /\ y.seq \in Nat /\ EffectiveBand(y) \in Int
    BY <1>3, <1>5
  <2>3. ~Before(y, w)
    BY <1>4
  <2> QED BY <2>1, <2>2, <2>3 DEF Before
<1>7. \A y \in AllQueued \ {w} : Scheduler!Precedes(w, y)
  BY <1>6, SameOrder
<1> HIDE DEF w
<1>8. outcome' = [op |-> "dequeued", item |-> w]
  BY <1>2 DEF w
<1> QED BY <1>3, <1>7, <1>8 DEF Scheduler!Take, Dequeue

\* A call of enqueue is an offer.
LEMMA EnqueueIsOffer ==
  ASSUME IInv, NEW r \in Requests, Enqueue(r)
  PROVE  Scheduler!Offer(r)
<1>1. nextSeq < MaxSeq /\ nextSeq' = nextSeq + 1 /\ UNCHANGED now /\ UNCHANGED cursor
  BY DEF Enqueue, Accept
<1>2. CASE r.band = LIVENESS /\ EnqueueLiveness(r)
  BY <1>1, <1>2, LivenessIsOffered DEF Scheduler!Offer
<1>3. CASE r.band = STREAMING /\ CoalesceStreaming(r)
  BY <1>1, <1>3, CoalescingIsOffered DEF Scheduler!Offer
<1>4. CASE r.band = STREAMING /\ InsertStreaming(r)
  BY <1>1, <1>4, InsertionIsOffered DEF Scheduler!Offer
<1>5. CASE r.band \in ArrayBands /\ (EnqueueBounded(r) \/ OverflowBounded(r))
  BY <1>1, <1>5, BoundedIsOffered DEF Scheduler!Offer
<1>6. CASE r.band \notin Bands /\ outcome' = [op |-> "ignored", item |-> NoItem] /\ UNCHANGED <<store, counts>>
  <2>1. AllQueued' = AllQueued
    BY <1>1, <1>6 DEF AllQueued, Queued, Live
  <2>2. Scheduler!OfferUnknown(r)
    BY <1>6, <2>1 DEF Scheduler!OfferUnknown, Scheduler!Emergency, Scheduler!Bulk, Bands
  <2> QED BY <1>1, <2>2 DEF Scheduler!Offer
<1> QED BY <1>2, <1>3, <1>4, <1>5, <1>6 DEF Enqueue

\* Every step of the queue, or a stutter, is one of the scheduler.
LEMMA StepsAreScheduled ==
  ASSUME RInv, ClockMayStepBack = FALSE, [Next]_vars
  PROVE  [Scheduler!Next]_Scheduler!vars
<1>1. ASSUME NEW r \in Requests, Enqueue(r) PROVE Scheduler!Next
  BY <1>1, EnqueueIsOffer DEF Scheduler!Next, RInv
<1>2. CASE Dequeue
  BY <1>2, DequeueIsTake DEF Scheduler!Next
<1>3. CASE DequeueEmpty
  <2>1. AllQueued = {}
    BY <1>3 DEF DequeueEmpty, AllQueued, Queued, Occupied
  <2>2. AllQueued' = AllQueued
    BY <1>3 DEF DequeueEmpty, AllQueued, Queued, Live
  <2> QED BY <1>3, <2>1, <2>2 DEF DequeueEmpty, Scheduler!TakeNothing, Scheduler!Next
<1>4. CASE Clear
  <2>1. \A b \in Bands : Queued(b)' = {}
    BY <1>4 DEF Clear, Queued, Live
  <2>2. AllQueued' = {}
    BY <2>1 DEF AllQueued
  <2> QED BY <1>4, <2>2 DEF Clear, Scheduler!Discard, Scheduler!Next
<1>5. CASE Tick
  <2>1. AllQueued' = AllQueued
    BY <1>5 DEF Tick, AllQueued, Queued, Live
  <2>2. now < MaxNow /\ now' = now + 1
    BY <1>5, BoundsAssumption DEF Tick, RInv, IInv, TypeOK
  <2> QED BY <1>5, <2>1, <2>2 DEF Tick, Scheduler!Wait, Scheduler!Next
<1>6. CASE UNCHANGED vars
  <2>1. AllQueued' = AllQueued
    BY <1>6 DEF vars, AllQueued, Queued, Live
  <2> QED BY <1>6, <2>1 DEF vars, Scheduler!vars
<1> QED BY <1>1, <1>2, <1>3, <1>4, <1>5, <1>6 DEF Next

-----------------------------------------------------------------------------
(* Numbers are unique *)

\* Every number in use has been given out.
LEMMA NumbersAreGiven ==
  ASSUME IInv
  PROVE  \A x \in AllQueued : x.seq \in Nat /\ x.seq < nextSeq
<1>1. \A b \in Bands : \A x \in Queued(b) : x.seq \in Nat
  BY QueuedItem
<1>2. \A b \in Bands : \A i \in Live(b) : i \in 1..Len(store[b])
  <2>1. \A b \in Bands : cursor[b] \in Nat /\ Len(store[b]) \in Nat
    BY BandsAreNumbered
  <2> QED BY <2>1 DEF Live
<1>3. \A b \in Bands : \A x \in Queued(b) : x.seq < nextSeq
  BY <1>2 DEF Queued, IInv, SlotsInOrder
<1> QED BY <1>1, <1>3 DEF AllQueued

\* An offer keeps numbers unique: it removes items, adds one with the next
\* number, or exchanges one for another with its number.
LEMMA OfferKeepsNumbers ==
  ASSUME RInv, NEW r \in Requests, Scheduler!Offer(r)
  PROVE  \A x, y \in AllQueued' : x.seq = y.seq => x = y
<1>1. \A x \in AllQueued : x.seq \in Nat /\ x.seq < nextSeq
  BY NumbersAreGiven DEF RInv
<1>2. nextSeq \in Nat /\ Scheduler!Fresh(r).seq = nextSeq
  BY DEF RInv, IInv, TypeOK, Scheduler!Fresh
<1>3. ASSUME NEW kept, kept \subseteq AllQueued, AllQueued' = kept \cup {Scheduler!Fresh(r)}
      PROVE  \A x, y \in AllQueued' : x.seq = y.seq => x = y
  BY <1>1, <1>2, <1>3 DEF RInv
<1>4. CASE AllQueued' = AllQueued
  BY <1>4 DEF RInv
<1>5. CASE Scheduler!OfferHeartbeat(r)
  BY <1>3, <1>5 DEF Scheduler!OfferHeartbeat
<1>6. CASE Scheduler!OfferUpdate(r)
  <2>1. PICK x \in AllQueued : AllQueued' = (AllQueued \ {x}) \cup {[x EXCEPT !.value = r.value]}
    BY <1>6 DEF Scheduler!OfferUpdate, Scheduler!OnBand
  <2> DEFINE e == [x EXCEPT !.value = r.value]
  <2>2. e.seq = x.seq
    <3>1. x \in Item
      BY QueuedItem DEF AllQueued, RInv
    <3> QED BY <3>1 DEF Item
  <2> HIDE DEF e
  <2>3. \A y \in AllQueued' : y = e \/ (y \in AllQueued /\ y # x)
    BY <2>1 DEF e
  <2> QED BY <2>2, <2>3 DEF RInv
<1>7. CASE Scheduler!OfferStream(r)
  <2> DEFINE kept == IF Scheduler!Full(Scheduler!Streaming)
                     THEN AllQueued \ {Scheduler!Oldest(Scheduler!Streaming)} ELSE AllQueued
  <2>1. kept \subseteq AllQueued /\ AllQueued' = kept \cup {Scheduler!Fresh(r)}
    BY <1>7 DEF Scheduler!OfferStream
  <2> HIDE DEF kept
  <2> QED BY <1>3, <2>1
<1>8. CASE Scheduler!OfferCapped(r)
  BY <1>3, <1>4, <1>8 DEF Scheduler!OfferCapped
<1>9. CASE Scheduler!OfferUnknown(r)
  BY <1>4, <1>9 DEF Scheduler!OfferUnknown
<1> QED BY <1>5, <1>6, <1>7, <1>8, <1>9 DEF Scheduler!Offer

\* The strengthened invariant is inductive.
LEMMA RInvNext ==
  ASSUME RInv, ClockMayStepBack = FALSE, [Next]_vars
  PROVE  RInv'
<1>1. IInv'
  BY NextInv DEF RInv
<1>2. CASE AllQueued' \subseteq AllQueued
  BY <1>1, <1>2 DEF RInv
<1>3. [Scheduler!Next]_Scheduler!vars
  BY StepsAreScheduled
<1>4. ASSUME NEW r \in Requests, Scheduler!Offer(r) PROVE RInv'
  BY <1>1, <1>4, OfferKeepsNumbers DEF RInv
<1>5. \/ \E r \in Requests : Scheduler!Offer(r)
      \/ AllQueued' \subseteq AllQueued
  BY <1>3 DEF Scheduler!Next, Scheduler!vars, Scheduler!Take, Scheduler!TakeNothing, Scheduler!Discard, Scheduler!Wait
<1> QED BY <1>2, <1>4, <1>5

\* With a clock that never runs backwards, whatever mix of enqueues, dequeues
\* and teardowns the callers make, bands with heads and cursors behave as one
\* set of waiting items from which the item preceding all others is taken.
THEOREM QueueImplementsScheduler ==
  ASSUME ClockMayStepBack = FALSE
  PROVE  Spec => ImplementsScheduler
<1>1. Init => Scheduler!Init /\ RInv
  <2> SUFFICES ASSUME Init PROVE Scheduler!Init /\ RInv
    OBVIOUS
  <2>1. \A b \in Bands : Queued(b) = {}
    BY DEF Init, Queued, Live
  <2>2. AllQueued = {}
    BY <2>1 DEF AllQueued
  <2>3. IInv
    BY InitInv
  <2> QED BY <2>2, <2>3 DEF Init, Scheduler!Init, RInv
<1>2. RInv /\ [Next]_vars => RInv'
  BY RInvNext
<1>3. RInv /\ [Next]_vars => [Scheduler!Next]_Scheduler!vars
  BY StepsAreScheduled
<1> QED BY <1>1, <1>2, <1>3, PTL DEF Spec, ImplementsScheduler, Scheduler!Spec
=============================================================================
