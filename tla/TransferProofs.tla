----------------------------- MODULE TransferProofs -----------------------------
(***************************************************************************)
(* Proofs about the transfers of Transfers.  Each machine has an inductive *)
(* invariant that relates what the transfer has learned to what the        *)
(* vehicle holds and to the frames that are on the link; a lemma for each  *)
(* machine says that its steps keep it.                                    *)
(***************************************************************************)
EXTENDS Transfers, FiniteSetTheorems, SequenceTheorems, WellFoundedInduction, TLAPS

\* Only a transfer that is settled has an outcome.
OutcomesComeLast ==
  /\ phase \in {"idle", "running", "settled"}
  /\ phase # "settled" => outcome = "none"

\* The steps that every machine has beside its own.
TimerSteps == StepTimesOut \/ Tick

-----------------------------------------------------------------------------
(* Uploading a plan *)

UploadInv ==
  /\ OutcomesComeLast
  /\ answered \subseteq UploadSeqs
  /\ \A m \in down : m.kind = "ack" /\ m.type = "error" => refused
  /\ RejectedMeansRefused
  /\ SucceededMeansServed

\* Sequences that were answered are all of them when there are as many.
LEMMA AnsweredIsAll ==
  ASSUME answered \subseteq UploadSeqs, ExpectingAck
  PROVE  answered = UploadSeqs
<1> USE UploadAssumption
<1>1. CASE UploadCount = 0
  BY <1>1 DEF UploadSeqs
<1>2. CASE UploadCount # 0
  <2>1. IsFiniteSet(UploadSeqs) /\ Cardinality(UploadSeqs) = UploadCount
    BY <1>2, FS_Interval, 0 \in Int, UploadCount - 1 \in Int DEF UploadSeqs
  <2>2. IsFiniteSet(answered) /\ Cardinality(answered) \in Nat
    BY <2>1, FS_Subset, FS_CardinalityType
  <2>3. Cardinality(answered) <= Cardinality(UploadSeqs)
    BY <2>1, FS_Subset
  <2>4. Cardinality(answered) >= UploadCount
    BY <1>2 DEF ExpectingAck
  <2>5. Cardinality(answered) = Cardinality(UploadSeqs)
    BY <2>1, <2>2, <2>3, <2>4
  <2> QED BY <2>1, <2>5, FS_Subset
<1> QED BY <1>1, <1>2

\* An upload's steps keep its invariant: only an acceptance that is awaited
\* succeeds, and only a refusal that was sent rejects.
LEMMA UploadKeeps ==
  ASSUME UploadInv,
         \/ UploadNext
         \/ TimerSteps /\ UNCHANGED uploadVars
         \/ UploadDeadline
         \/ UNCHANGED <<transferVars, linkVars, uploadVars>>
  PROVE  UploadInv'
<1> USE DEF UploadInv, OutcomesComeLast, RejectedMeansRefused, SucceededMeansServed,
        transferVars, linkVars, uploadVars, stepVars, Running
<1>1. CASE UploadStarts
  BY <1>1 DEF UploadStarts, Step, SendStep, Transmit, Settle
<1>2. CASE UploadHears
  <2>1. CASE \E r \in {m \in down : m.kind = "request"} : AnswerItem(r.seq, r.form)
    BY <1>2, <2>1 DEF UploadHears, AnswerItem, Step, SendStep, Transmit, Settle
  <2>2. CASE \E a \in {m \in down : m.kind = "ack"} : OnUploadAck(a.type)
    <3>1. PICK a \in {m \in down : m.kind = "ack"} : OnUploadAck(a.type)
      BY <2>2
    <3>2. CASE a.type = "accepted"
      BY <1>2, <3>1, <3>2, AnsweredIsAll DEF UploadHears, OnUploadAck, Settle
    <3>3. CASE a.type # "accepted"
      BY <1>2, <3>1, <3>3 DEF UploadHears, OnUploadAck, Settle
    <3> QED BY <3>2, <3>3
  <2> QED BY <1>2, <2>1, <2>2 DEF UploadHears
<1>3. CASE MissionCancelled /\ UNCHANGED uploadVars
  BY <1>3 DEF MissionCancelled, Settle
<1>4. CASE VehicleRequests
  BY <1>4 DEF VehicleRequests, Answers, Says, ItemRequest
<1>5. CASE VehicleStores
  BY <1>5 DEF VehicleStores
<1>6. CASE VehicleAcksUpload
  BY <1>6 DEF VehicleAcksUpload, Answers, Says, UploadAck
<1>7. CASE TimerSteps /\ UNCHANGED uploadVars
  BY <1>7 DEF TimerSteps, StepTimesOut, TimedOut, Retries, SendStep, Transmit, Settle, Tick
<1>8. CASE UploadDeadline
  BY <1>8 DEF UploadDeadline, Settle
<1>9. CASE UNCHANGED <<transferVars, linkVars, uploadVars>>
  BY <1>9
<1> QED BY <1>1, <1>2, <1>3, <1>4, <1>5, <1>6, <1>7, <1>8, <1>9 DEF UploadNext

-----------------------------------------------------------------------------
(* Downloading a plan *)

\* While it runs: nothing before the count, and then the items walked so far.
WalkIsExact ==
  \/ count = Unknown /\ items = {} /\ expectedSeq = 0
  \/ /\ phase # "idle" /\ count = HeldCount
     /\ expectedSeq \in Nat /\ expectedSeq < HeldCount
     /\ items = (0..(expectedSeq - 1)) \X {OurType}

DownloadInv ==
  /\ OutcomesComeLast
  /\ phase # "settled" => WalkIsExact
  /\ phase = "idle" => count = Unknown
  /\ \A m \in down : m.kind = "ack" /\ m.type = OurType /\ m.result = "error" => refused
  /\ RejectedMeansRefused
  /\ DownloadIsExact

\* A download's steps keep its invariant: a count opens one walk, and an item
\* that is not the next one changes nothing.
LEMMA DownloadKeeps ==
  ASSUME DownloadInv,
         \/ DownloadNext
         \/ TimerSteps /\ UNCHANGED missionVars
         \/ UNCHANGED <<transferVars, linkVars, missionVars>>
  PROVE  DownloadInv'
<1> USE DownloadAssumption
    DEF DownloadInv, OutcomesComeLast, RejectedMeansRefused, DownloadIsExact, WalkIsExact,
        transferVars, linkVars, missionVars, walkVars, stepVars, Running, Unknown
<1>1. CASE MissionStarts(RequestList)
  BY <1>1 DEF MissionStarts, Step, SendStep, Transmit, Settle
<1>2. CASE DownloadHears
  <2>1. PICK m \in {r \in down : TypeMatches(r)} :
          \/ m.kind = "count" /\ OnCount(m.type)
          \/ m.kind = "item" /\ OnItem(m.type, m.seq)
          \/ /\ m.kind = "ack" /\ m.result = "error" /\ Settle("rejected")
             /\ UNCHANGED <<up, stepVars, walkVars>>
    BY <1>2 DEF DownloadHears
  <2>2. phase = "running" /\ UNCHANGED linkVars /\ m \in down /\ m.type = OurType
    BY <1>2, <2>1 DEF DownloadHears, TypeMatches
  <2>3. CASE m.kind = "count" /\ OnCount(m.type)
    <3>1. SizeOf(m.type) = HeldCount
      BY <2>2 DEF SizeOf
    <3>2. items' = (0..(0 - 1)) \X {OurType} /\ count' = HeldCount
      BY <2>2, <2>3, <3>1 DEF OnCount
    <3>3. CASE HeldCount = 0
      BY <2>2, <2>3, <3>1, <3>2, <3>3 DEF OnCount, CloseDownload, Settle
    <3>4. CASE HeldCount # 0
      <4>1. /\ expectedSeq' = 0
            /\ \/ phase' = "running" /\ outcome' = outcome
               \/ phase' = "settled" /\ outcome' = "send-failed"
        BY <2>3, <3>1, <3>4 DEF OnCount, WalkTo, Step, SendStep, Transmit, Settle
      <4>2. HeldCount > 0
        BY <3>4
      <4>3. WalkIsExact'
        BY <3>2, <4>1, <4>2
      <4> QED BY <2>2, <4>1, <4>3
    <3> QED BY <3>3, <3>4
  <2>4. CASE m.kind = "item" /\ OnItem(m.type, m.seq)
    <3>1. /\ count = HeldCount /\ expectedSeq \in Nat /\ expectedSeq < HeldCount
          /\ items = (0..(expectedSeq - 1)) \X {OurType}
          /\ m.seq = expectedSeq
      BY <2>2, <2>4 DEF OnItem
    <3>2. items' = (0..expectedSeq) \X {OurType}
      <4>1. items' = items \cup {<<expectedSeq, OurType>>}
        BY <2>2, <2>4, <3>1 DEF OnItem
      <4>2. 0..expectedSeq = (0..(expectedSeq - 1)) \cup {expectedSeq}
        BY <3>1
      <4> QED BY <3>1, <4>1, <4>2
    <3>3. CASE expectedSeq = count - 1
      BY <2>2, <2>4, <3>1, <3>2, <3>3 DEF OnItem, CloseDownload, Settle
    <3>4. CASE expectedSeq # count - 1
      <4>1. expectedSeq' = expectedSeq + 1 /\ count' = count
        BY <2>4, <3>1, <3>4 DEF OnItem, WalkTo
      <4>2. expectedSeq' - 1 = expectedSeq /\ expectedSeq' < HeldCount /\ expectedSeq' \in Nat
        BY <3>1, <3>4, <4>1
      <4>3. \/ phase' = "running" /\ outcome' = outcome
            \/ phase' = "settled" /\ outcome' = "send-failed"
        BY <2>4, <3>1, <3>4 DEF OnItem, WalkTo, Step, SendStep, Transmit, Settle
      <4> QED BY <2>2, <3>1, <3>2, <4>1, <4>2, <4>3
    <3> QED BY <3>3, <3>4
  <2>5. CASE /\ m.kind = "ack" /\ m.result = "error" /\ Settle("rejected")
             /\ UNCHANGED <<up, stepVars, walkVars>>
    BY <2>2, <2>5 DEF Settle
  <2> QED BY <2>1, <2>3, <2>4, <2>5
<1>3. CASE VehicleCounts
  BY <1>3 DEF VehicleCounts, Answers, Says, CountReply
<1>4. CASE VehicleServes
  BY <1>4 DEF VehicleServes, Answers, Says, ItemReply
<1>5. CASE VehicleAcks
  BY <1>5 DEF VehicleAcks, Answers, Says, AckReply, OurType
<1>6. CASE MissionCancelled /\ UNCHANGED missionVars
  BY <1>6 DEF MissionCancelled, Settle
<1>7. CASE TimerSteps /\ UNCHANGED missionVars
  BY <1>7 DEF TimerSteps, StepTimesOut, TimedOut, Retries, SendStep, Transmit, Settle, Tick
<1>8. CASE UNCHANGED <<transferVars, linkVars, missionVars>>
  BY <1>8
<1> QED BY <1>1, <1>2, <1>3, <1>4, <1>5, <1>6, <1>7, <1>8 DEF DownloadNext

-----------------------------------------------------------------------------
(* Clearing a plan and selecting an item *)

\* An acknowledgement about our plan says what became of it: nothing but
\* a clear is on the link.
ClearInv ==
  /\ OutcomesComeLast
  /\ RequestList \notin up /\ (Running => step = ClearAll)
  /\ \A m \in down : m.kind = "ack" /\ m.type = OurType =>
       IF m.result = "accepted" THEN done ELSE refused
  /\ RejectedMeansRefused
  /\ SucceededMeansDone

\* A clear's steps keep its invariant.
LEMMA ClearKeeps ==
  ASSUME ClearInv,
         \/ ClearNext
         \/ TimerSteps /\ UNCHANGED missionVars
         \/ UNCHANGED <<transferVars, linkVars, missionVars>>
  PROVE  ClearInv'
<1> USE DEF ClearInv, OutcomesComeLast, RejectedMeansRefused, SucceededMeansDone,
        transferVars, linkVars, missionVars, walkVars, stepVars, Running
<1>1. CASE MissionStarts(ClearAll)
  BY <1>1 DEF MissionStarts, Step, SendStep, Transmit, Settle, ClearAll, RequestList
<1>2. CASE ClearHears
  BY <1>2 DEF ClearHears, TypeMatches, Settle
<1>3. CASE VehicleClears
  BY <1>3 DEF VehicleClears, Answers, Says, AckReply
<1>4. CASE VehicleAcks
  BY <1>4 DEF VehicleAcks, Answers, Says, AckReply, OurType
<1>5. CASE MissionCancelled /\ UNCHANGED missionVars
  BY <1>5 DEF MissionCancelled, Settle, CancelFrame, RequestList
<1>6. CASE TimerSteps /\ UNCHANGED missionVars
  <2>1. CASE Tick
    BY <1>6, <2>1 DEF Tick
  <2>2. CASE StepTimesOut
    <3>1. step = ClearAll /\ phase = "running"
      BY <2>2 DEF StepTimesOut, TimedOut
    <3>2. step # RequestList
      BY <3>1 DEF ClearAll, RequestList
    <3> QED BY <1>6, <2>2, <3>1, <3>2 DEF StepTimesOut, Retries, SendStep, Transmit, Settle
  <2> QED BY <1>6, <2>1, <2>2 DEF TimerSteps
<1>7. CASE UNCHANGED <<transferVars, linkVars, missionVars>>
  BY <1>7
<1> QED BY <1>1, <1>2, <1>3, <1>4, <1>5, <1>6, <1>7 DEF ClearNext

\* A status that shows the item asked for was sent by a vehicle that took it.
SetCurrentInv ==
  /\ OutcomesComeLast
  /\ Running => step = SetCurrent(1)
  /\ done \in BOOLEAN
  /\ \A m \in down : m.kind = "current" /\ m.seq = 1 => done
  /\ SucceededMeansDone

\* A selection's steps keep its invariant.
LEMMA SetCurrentKeeps ==
  ASSUME SetCurrentInv,
         \/ SetCurrentNext
         \/ TimerSteps /\ UNCHANGED missionVars
         \/ UNCHANGED <<transferVars, linkVars, missionVars>>
  PROVE  SetCurrentInv'
<1> USE DEF SetCurrentInv, OutcomesComeLast, SucceededMeansDone,
        transferVars, linkVars, missionVars, walkVars, stepVars, Running
<1>1. CASE MissionStarts(SetCurrent(1))
  BY <1>1 DEF MissionStarts, Step, SendStep, Transmit, Settle
<1>2. CASE SetCurrentHears
  <2>1. PICK m \in down : CurrentConfirms(m) /\ Settle("succeeded")
    BY <1>2 DEF SetCurrentHears
  <2>2. m.kind = "current" /\ m.seq = 1
    BY <1>2, <2>1 DEF SetCurrentHears, CurrentConfirms, SetCurrent
  <2> QED BY <1>2, <2>1, <2>2 DEF SetCurrentHears, Settle
<1>3. CASE VehicleReportsCurrent
  <2>1. PICK seq \in {0, 1} :
          /\ Answers(CurrentReply(seq)) /\ done' = (done \/ seq = 1)
          /\ UNCHANGED walkVars
    BY <1>3 DEF VehicleReportsCurrent
  <2>2. /\ UNCHANGED transferVars /\ (done => done')
        /\ down' = down \cup {CurrentReply(seq)} /\ (seq = 1 => done')
    BY <2>1 DEF Answers, Says
  <2>3. CurrentReply(seq).seq = seq
    BY DEF CurrentReply
  <2> QED BY <2>1, <2>2, <2>3
<1>4. CASE Cancelled /\ UNCHANGED missionVars
  BY <1>4 DEF Cancelled, Settle
<1>5. CASE TimerSteps /\ UNCHANGED missionVars
  BY <1>5 DEF TimerSteps, StepTimesOut, TimedOut, Retries, SendStep, Transmit, Settle, Tick
<1>6. CASE UNCHANGED <<transferVars, linkVars, missionVars>>
  BY <1>6
<1> QED BY <1>1, <1>2, <1>3, <1>4, <1>5, <1>6 DEF SetCurrentNext

-----------------------------------------------------------------------------
(* Parameters *)

\* The indices collected are members of the table that was advertised first.
BackupInv ==
  /\ OutcomesComeLast
  /\ tableSize \in Nat
  /\ \/ expected = NoCount /\ byIndex = {}
     \/ expected \in Nat /\ byIndex \subseteq 0..(expected - 1)
  /\ phase = "idle" => expected = NoCount
  /\ TableIsWhole

\* As many members of a table as it has are all of it.
LEMMA TableIsAll ==
  ASSUME NEW size \in Nat, NEW got, got \subseteq 0..(size - 1), ~(Cardinality(got) < size)
  PROVE  got = 0..(size - 1)
<1>1. IsFiniteSet(0..(size - 1)) /\ Cardinality(0..(size - 1)) = size
  <2>1. CASE size = 0
    <3>1. 0..(size - 1) = {}
      BY <2>1
    <3> QED BY <2>1, <3>1, FS_EmptySet
  <2>2. CASE size # 0
    BY <2>2, FS_Interval, 0 \in Int, size - 1 \in Int
  <2> QED BY <2>1, <2>2
<1>2. /\ IsFiniteSet(got) /\ Cardinality(got) \in Nat
      /\ Cardinality(got) <= Cardinality(0..(size - 1))
  BY <1>1, FS_Subset, FS_CardinalityType
<1>3. Cardinality(got) = Cardinality(0..(size - 1))
  BY <1>1, <1>2
<1> QED BY <1>1, <1>3, FS_Subset

\* A value of the stream, or an echo, keeps the invariant of a backup.
LEMMA ParamValueKeeps ==
  ASSUME BackupInv, Running, UNCHANGED tableSize,
         NEW i \in Nat, NEW advertised \in Nat, OnParamValue(i, advertised)
  PROVE  BackupInv'
<1> USE DEF BackupInv, OutcomesComeLast, TableIsWhole, Running, NoCount
<1> DEFINE size == IF expected = NoCount THEN advertised ELSE expected
           got == byIndex \cup {i}
<1>1. /\ size \in Nat /\ expected' = size
      /\ byIndex \subseteq 0..(size - 1)
  BY DEF OnParamValue
<1>2. CASE size = 0 /\ Settle("succeeded") /\ UNCHANGED byIndex
  <2>1. 0..(size - 1) = {}
    BY <1>2
  <2>2. byIndex = 0..(size - 1)
    BY <1>1, <2>1
  <2> QED BY <1>1, <1>2, <2>2 DEF Settle
<1>3. CASE size > 0 /\ ~MemberOf(i, size) /\ UNCHANGED <<phase, outcome, timer, deadline, byIndex>>
  BY <1>1, <1>3
<1>4. CASE /\ size > 0 /\ MemberOf(i, size) /\ byIndex' = got
           /\ IF Cardinality(got) < size
              THEN timer' = now + StepTimeout /\ UNCHANGED <<phase, outcome, deadline>>
              ELSE Settle("succeeded")
  <2>1. got \subseteq 0..(size - 1)
    BY <1>1, <1>4 DEF MemberOf
  <2>2. CASE Cardinality(got) < size
    BY <1>1, <1>4, <2>1, <2>2
  <2>3. CASE ~(Cardinality(got) < size)
    <3>1. got = 0..(size - 1)
      BY <1>1, <2>1, <2>3, TableIsAll
    <3> QED BY <1>1, <1>4, <2>1, <2>3, <3>1 DEF Settle
  <2> QED BY <2>2, <2>3
<1> QED BY <1>2, <1>3, <1>4 DEF OnParamValue

\* A backup's steps keep its invariant.
LEMMA BackupKeeps ==
  ASSUME BackupInv,
         \/ ParamBackupNext
         \/ TimerSteps /\ UNCHANGED paramVars
         \/ UNCHANGED <<transferVars, linkVars, paramVars>>
  PROVE  BackupInv'
<1>1. CASE ParamBackupHears
  <2>1. PICK advertised \in {tableSize} \cup (IF grown THEN {tableSize + 1} ELSE {}) :
          \/ \E n \in 0..stepRetries, i \in 0..(advertised - 1) : OnParamValue(i, advertised)
          \/ OnParamValue(Unlisted, advertised)
    BY <1>1 DEF ParamBackupHears
  <2>2. advertised \in Nat
    BY <2>1 DEF BackupInv
  <2>3. Running /\ UNCHANGED tableSize
    BY <1>1 DEF ParamBackupHears
  <2>4. \E i \in Nat : OnParamValue(i, advertised)
    BY <2>1, <2>2 DEF Unlisted
  <2> QED BY <2>2, <2>3, <2>4, ParamValueKeeps
<1> USE DEF BackupInv, OutcomesComeLast, TableIsWhole, Running, NoCount,
        transferVars, linkVars, paramVars, tableVars, stepVars
<1>2. CASE ParamBackupStarts
  BY <1>2 DEF ParamBackupStarts, Step, SendStep, Transmit, Settle
<1>3. CASE TableGrows
  BY <1>3 DEF TableGrows
<1>4. CASE Cancelled /\ UNCHANGED paramVars
  BY <1>4 DEF Cancelled, Settle
<1>5. CASE TimerSteps /\ UNCHANGED paramVars
  BY <1>5 DEF TimerSteps, StepTimesOut, TimedOut, Retries, SendStep, Transmit, Settle, Tick
<1>6. CASE UNCHANGED <<transferVars, linkVars, paramVars>>
  BY <1>6
<1> QED BY <1>1, <1>2, <1>3, <1>4, <1>5, <1>6 DEF ParamBackupNext

\* Every echo is of a value that the vehicle held, as the encoding carries it.
EchoesAreHeld ==
  /\ bytewise \in BOOLEAN
  /\ store \in [Ids -> Values]
  /\ \A m \in down : \E v \in Values : <<m.id, v>> \in everHeld /\ m.value = Wire(v)

\* A value that the vehicle stores and tells keeps it so.
LEMMA HoldsKeepsEchoes ==
  ASSUME EchoesAreHeld, NEW id \in Ids, NEW v \in Values, Holds(id, v)
  PROVE  /\ EchoesAreHeld'
         /\ everHeld \subseteq everHeld'
         /\ UNCHANGED <<transferVars, bytewise, tableVars, index, readValue>>
<1>1. /\ down' = down \cup {Value(id, Wire(v))}
      /\ everHeld' = everHeld \cup {<<id, v>>}
      /\ store' = [store EXCEPT ![id] = v]
      /\ UNCHANGED <<transferVars, now, bytewise, tableVars, index, readValue>>
  BY DEF Holds, Answers, Says
<1>2. store' \in [Ids -> Values]
  BY <1>1 DEF EchoesAreHeld
<1>3. Value(id, Wire(v)).id = id /\ Value(id, Wire(v)).value = Wire(v)
  BY DEF Value
<1>4. \A w : Wire(w)' = Wire(w)
  BY <1>1 DEF Wire
<1>5. \A m \in down' : \E w \in Values : <<m.id, w>> \in everHeld' /\ m.value = Wire(w)
  BY <1>1, <1>3 DEF EchoesAreHeld
<1> QED BY <1>1, <1>2, <1>4, <1>5 DEF EchoesAreHeld

ReadInv == OutcomesComeLast /\ EchoesAreHeld /\ ReadIsTrue

\* What the vehicle does to its values keeps what a read handed on.
LEMMA StoreSteps ==
  ASSUME EchoesAreHeld, VehicleTakes \/ VehicleHolds \/ VehicleTells
  PROVE  /\ EchoesAreHeld'
         /\ everHeld \subseteq everHeld'
         /\ UNCHANGED <<transferVars, bytewise, tableVars, index, readValue>>
<1>1. \E id \in Ids, v \in Values : Holds(id, v)
  BY DEF VehicleTakes, VehicleHolds, VehicleTells, EchoesAreHeld, Wire, Float, Wanted, Values
<1> QED BY <1>1, HoldsKeepsEchoes

\* A read's steps keep its invariant.
LEMMA ReadKeeps ==
  ASSUME ReadInv,
         \/ ParamReadNext
         \/ TimerSteps /\ UNCHANGED paramVars
         \/ UNCHANGED <<transferVars, linkVars, paramVars>>
  PROVE  ReadInv'
<1>1. CASE VehicleHolds \/ VehicleTells
  <2>1. EchoesAreHeld' /\ everHeld \subseteq everHeld' /\ UNCHANGED <<phase, outcome, bytewise, readValue>>
    BY <1>1, StoreSteps DEF ReadInv, transferVars
  <2>2. \A v : Wire(v)' = Wire(v)
    BY <2>1 DEF Wire
  <2> QED BY <2>1, <2>2 DEF ReadInv, ReadIsTrue, OutcomesComeLast
<1>2. CASE ParamReadHears
  <2>1. PICK m \in down : m.id = 1 /\ readValue' = m.value
    BY <1>2 DEF ParamReadHears
  <2>2. UNCHANGED <<down, bytewise, store, everHeld>> /\ phase' = "settled"
    BY <1>2 DEF ParamReadHears, Settle, linkVars, storeVars
  <2>3. \A v : Wire(v)' = Wire(v)
    BY <2>2 DEF Wire
  <2>4. \E v \in Values : <<1, v>> \in everHeld /\ m.value = Wire(v)
    BY <2>1 DEF ReadInv, EchoesAreHeld
  <2> QED BY <2>1, <2>2, <2>3, <2>4 DEF ReadInv, EchoesAreHeld, ReadIsTrue, OutcomesComeLast
<1>3. ASSUME UNCHANGED <<down, bytewise, store, everHeld, readValue>>,
             \/ UNCHANGED <<phase, outcome>>
             \/ phase' = "running" /\ phase # "settled" /\ UNCHANGED outcome
             \/ phase' = "settled" /\ outcome' # "succeeded"
      PROVE  ReadInv'
  <2>1. \A v : Wire(v)' = Wire(v)
    BY <1>3 DEF Wire
  <2> QED BY <1>3, <2>1 DEF ReadInv, EchoesAreHeld, ReadIsTrue, OutcomesComeLast
<1>4. ASSUME UNCHANGED paramVars
      PROVE  UNCHANGED <<bytewise, store, everHeld, readValue>>
  BY <1>4 DEF paramVars, storeVars
<1>5. CASE ParamReadStarts
  BY <1>3, <1>4, <1>5 DEF ParamReadStarts, linkVars, Step, SendStep, Transmit, Settle
<1>6. CASE Cancelled /\ UNCHANGED paramVars
  BY <1>3, <1>4, <1>6 DEF Cancelled, Settle, linkVars
<1>7. CASE TimerSteps /\ UNCHANGED paramVars
  BY <1>3, <1>4, <1>7 DEF TimerSteps, StepTimesOut, TimedOut, Retries, SendStep, Transmit, Settle, Tick,
      linkVars, transferVars, Running
<1>8. CASE UNCHANGED <<transferVars, linkVars, paramVars>>
  BY <1>3, <1>4, <1>8 DEF transferVars, linkVars
<1> QED BY <1>1, <1>2, <1>5, <1>6, <1>7, <1>8 DEF ParamReadNext

RestoreInv ==
  /\ OutcomesComeLast /\ EchoesAreHeld
  /\ index \in 0..RestoreCount
  /\ Running => index < RestoreCount
  /\ phase = "idle" => index = 0
  /\ RestoredMeansTaken

\* The echo that is taken for a parameter is of a value that the wire cannot
\* tell from the one wanted.
LEMMA SameIsWanted ==
  ASSUME bytewise \in BOOLEAN, NEW v \in Values, SameValue(Wire(v))
  PROVE  Wire(v) = Wire(Wanted)
BY DEF SameValue, Wire, Float, Wanted, Values

\* A restore's steps keep its invariant.
LEMMA RestoreKeeps ==
  ASSUME RestoreInv,
         \/ ParamRestoreNext
         \/ ParamRestoreTimesOut
         \/ Tick /\ UNCHANGED paramVars
         \/ UNCHANGED <<transferVars, linkVars, paramVars>>
  PROVE  RestoreInv'
<1> USE ParamAssumption
<1>1. CASE VehicleTakes \/ VehicleHolds \/ VehicleTells
  <2>1. EchoesAreHeld' /\ everHeld \subseteq everHeld' /\ UNCHANGED <<phase, outcome, bytewise, index>>
    BY <1>1, StoreSteps DEF RestoreInv, transferVars
  <2>2. \A v : Wire(v)' = Wire(v)
    BY <2>1 DEF Wire
  <2>3. RestoredMeansTaken'
    BY <2>1, <2>2 DEF RestoreInv, RestoredMeansTaken
  <2> QED BY <2>1, <2>3 DEF RestoreInv, OutcomesComeLast, Running
<1>2. CASE ParamRestoreHears
  <2>1. PICK m \in down : m.id = index + 1 /\ SameValue(m.value)
    BY <1>2 DEF ParamRestoreHears
  <2>2. /\ UNCHANGED <<down, bytewise, store, everHeld>> /\ index' = index + 1
        /\ index \in Nat /\ index < RestoreCount
    BY <1>2 DEF ParamRestoreHears, linkVars, storeVars, RestoreInv
  <2>3. \A v : Wire(v)' = Wire(v)
    BY <2>2 DEF Wire
  <2>4. \E v \in Values : <<index + 1, v>> \in everHeld /\ Wire(v) = Wire(Wanted)
    BY <2>1, SameIsWanted DEF RestoreInv, EchoesAreHeld
  <2>5. \A id \in 1..index' : \E v \in Values : <<id, v>> \in everHeld /\ Wire(v) = Wire(Wanted)
    <3> SUFFICES ASSUME NEW id \in 1..index'
                 PROVE  \E v \in Values : <<id, v>> \in everHeld /\ Wire(v) = Wire(Wanted)
      OBVIOUS
    <3>1. CASE id = index + 1
      BY <2>4, <3>1
    <3>2. CASE id # index + 1
      <4>1. id \in 1..index
        BY <2>2, <3>2
      <4> QED BY <4>1 DEF RestoreInv, RestoredMeansTaken
    <3> QED BY <3>1, <3>2
  <2>6. EchoesAreHeld'
    BY <2>2, <2>3 DEF RestoreInv, EchoesAreHeld
  <2>7. CASE index' = RestoreCount
    BY <1>2, <2>2, <2>3, <2>5, <2>6, <2>7
       DEF ParamRestoreHears, Settle, RestoreInv, RestoredMeansTaken, OutcomesComeLast, Running
  <2>8. CASE index' # RestoreCount
    <3>1. \/ phase' = "running" /\ UNCHANGED outcome
          \/ phase' = "settled" /\ outcome' = "send-failed"
      BY <1>2, <2>8 DEF ParamRestoreHears, Step, SendStep, Transmit, Settle
    <3>2. outcome = "none"
      BY <1>2 DEF ParamRestoreHears, RestoreInv, OutcomesComeLast, Running
    <3>3. index' \in 0..RestoreCount /\ index' < RestoreCount
      BY <2>2, <2>8
    <3>4. RestoredMeansTaken'
      BY <2>2, <2>3, <2>5, <3>1, <3>2 DEF RestoredMeansTaken
    <3> QED BY <2>6, <3>1, <3>2, <3>3, <3>4 DEF RestoreInv, OutcomesComeLast, Running
  <2> QED BY <2>7, <2>8
<1>3. ASSUME UNCHANGED <<down, bytewise, store, everHeld, index>>,
             \/ UNCHANGED <<phase, outcome>>
             \/ /\ phase' = "running" /\ (phase = "idle" => RestoreCount # 0)
                /\ phase # "settled" /\ UNCHANGED outcome
             \/ phase' = "settled" /\ (outcome' = "succeeded" => index = RestoreCount)
      PROVE  RestoreInv'
  <2>1. \A v : Wire(v)' = Wire(v)
    BY <1>3 DEF Wire
  <2>2. UNCHANGED <<down, bytewise, store, everHeld, index>>
    BY <1>3
  <2>3. EchoesAreHeld'
    BY <2>1, <2>2 DEF RestoreInv, EchoesAreHeld
  <2>4. RestoredMeansTaken'
    BY <1>3, <2>1, <2>2 DEF RestoreInv, RestoredMeansTaken, OutcomesComeLast
  <2> QED BY <1>3, <2>2, <2>3, <2>4 DEF RestoreInv, OutcomesComeLast, Running
<1>4. ASSUME UNCHANGED paramVars
      PROVE  UNCHANGED <<bytewise, store, everHeld, index>>
  BY <1>4 DEF paramVars, storeVars
<1>5. CASE ParamRestoreStarts
  <2>1. UNCHANGED <<down, bytewise, store, everHeld, index>> /\ phase = "idle"
    BY <1>4, <1>5 DEF ParamRestoreStarts, linkVars
  <2>2. \/ phase' = "running" /\ RestoreCount # 0 /\ UNCHANGED outcome
        \/ phase' = "settled" /\ (outcome' = "succeeded" => RestoreCount = 0)
    BY <1>5 DEF ParamRestoreStarts, Step, SendStep, Transmit, Settle
  <2> QED BY <1>3, <2>1, <2>2 DEF RestoreInv
<1>6. CASE Cancelled /\ UNCHANGED paramVars
  BY <1>3, <1>4, <1>6 DEF Cancelled, Settle, linkVars
<1>7. CASE ParamRestoreTimesOut
  BY <1>3, <1>4, <1>7 DEF ParamRestoreTimesOut, TimedOut, Retries, SendStep, Transmit, Settle, linkVars, Running
<1>8. CASE Tick /\ UNCHANGED paramVars
  BY <1>3, <1>4, <1>8 DEF Tick, transferVars
<1>9. CASE UNCHANGED <<transferVars, linkVars, paramVars>>
  BY <1>3, <1>4, <1>9 DEF transferVars, linkVars
<1> QED BY <1>1, <1>2, <1>5, <1>6, <1>7, <1>8, <1>9 DEF ParamRestoreNext

-----------------------------------------------------------------------------
(* Logs *)

\* A log transfer settles in one way, which tells the vehicle.
LEMMA LogSettleReleases ==
  ASSUME NEW how, LogSettle(how)
  PROVE  phase' = "settled" /\ outcome' = how /\ (EndRequest \in up' \/ endError')
BY DEF LogSettle, Settle

\* A request of a log transfer goes out, or the transfer settles.
LEMMA LogSendReleases ==
  ASSUME NEW frame, LogSend(frame)
  PROVE  \/ phase' = "running" /\ outcome' = outcome
         \/ phase' = "settled" /\ outcome' = "send-failed" /\ (EndRequest \in up' \/ endError')
BY LogSettleReleases DEF LogSend, Transmit

\* What a download and a list share.
ReleasedInv == OutcomesComeLast /\ VehicleIsReleased

\* However a step of a download ends it, the vehicle is told.
LEMMA DownloadReleases ==
  ASSUME ReleasedInv,
         \/ LogDownloadNext
         \/ LogDownloadTimesOut
         \/ Tick /\ UNCHANGED logVars
         \/ UNCHANGED <<transferVars, linkVars, logVars>>
  PROVE  ReleasedInv'
<1>1. ASSUME \/ UNCHANGED <<phase, outcome, up, endError>>
             \/ phase' = "running" /\ phase # "settled" /\ outcome' = outcome
             \/ phase' = "settled" /\ (EndRequest \in up' \/ endError')
      PROVE  ReleasedInv'
  BY <1>1 DEF ReleasedInv, OutcomesComeLast, VehicleIsReleased
<1>2. ASSUME NEW ofs, RequestWindow(ofs), phase # "settled"
      PROVE  ReleasedInv'
  BY <1>1, <1>2, LogSendReleases DEF RequestWindow, LogStep
<1>3. ASSUME NEW got, NEW eof, RequestGap(got, eof), phase # "settled"
      PROVE  ReleasedInv'
  BY <1>1, <1>2, <1>3, LogSendReleases DEF RequestGap, LogStep
<1>4. ASSUME LogDone
      PROVE  ReleasedInv'
  BY <1>1, <1>4, LogSettleReleases DEF LogDone
<1>5. CASE LogDownloadStarts
  BY <1>2, <1>4, <1>5 DEF LogDownloadStarts
<1>6. CASE LogDownloadHears
  <2>1. PICK ofs, size : OnEof(ofs) \/ OnData(ofs, size)
    BY <1>6 DEF LogDownloadHears
  <2>2. phase = "running"
    BY <1>6 DEF LogDownloadHears, Running
  <2>3. CASE OnEof(ofs)
    BY <1>1, <1>3, <1>4, <2>2, <2>3 DEF OnEof, transferVars
  <2>4. CASE OnData(ofs, size)
    BY <1>1, <1>3, <1>4, <2>2, <2>4 DEF OnData, NoteProgress
  <2> QED BY <2>1, <2>3, <2>4
<1>7. CASE LogCancelled
  BY <1>1, <1>7, LogSettleReleases DEF LogCancelled
<1>8. CASE LogDownloadTimesOut
  <2>1. phase = "running"
    BY <1>8 DEF LogDownloadTimesOut, TimedOut, Running
  <2>2. (\E frame : LogSend(frame)) \/ LogSettle("stalled")
    BY <1>8 DEF LogDownloadTimesOut
  <2> QED BY <1>1, <2>1, <2>2, LogSendReleases, LogSettleReleases
<1>9. CASE Tick /\ UNCHANGED logVars
  BY <1>1, <1>9 DEF Tick, transferVars, logVars
<1>10. CASE UNCHANGED <<transferVars, linkVars, logVars>>
  BY <1>1, <1>10 DEF transferVars, logVars
<1> QED BY <1>5, <1>6, <1>7, <1>8, <1>9, <1>10 DEF LogDownloadNext

\* The list holds logs that there are.
ListInv ==
  /\ ReleasedInv
  /\ entries \subseteq 1..LogCount
  /\ phase = "idle" => entries = {}
  /\ ListIsWhole

\* As many logs as there are is all of them.
LEMMA LogsAreAll ==
  ASSUME LogCount > 0, NEW got, got \subseteq 1..LogCount, Cardinality(got) = LogCount
  PROVE  got = 1..LogCount
<1> USE LogAssumption
<1>1. IsFiniteSet(1..LogCount) /\ Cardinality(1..LogCount) = LogCount
  BY FS_Interval, 1 \in Int, LogCount \in Int
<1> QED BY <1>1, FS_Subset

\* A list's steps keep its invariant: it succeeds with every log and, however it
\* ends, the vehicle is told.
LEMMA ListKeeps ==
  ASSUME ListInv,
         \/ LogListNext
         \/ LogListTimesOut
         \/ Tick /\ UNCHANGED logVars
         \/ UNCHANGED <<transferVars, linkVars, logVars>>
  PROVE  ListInv'
<1> USE LogAssumption
<1>1. ASSUME UNCHANGED entries,
             \/ UNCHANGED <<phase, outcome, up, endError>>
             \/ phase' = "running" /\ phase # "settled" /\ outcome' = outcome
             \/ phase' = "settled" /\ outcome' # "succeeded" /\ (EndRequest \in up' \/ endError')
      PROVE  ListInv'
  BY <1>1 DEF ListInv, ListIsWhole, ReleasedInv, OutcomesComeLast, VehicleIsReleased
<1>2. CASE LogListStarts
  BY <1>1, <1>2, LogSendReleases DEF LogListStarts, LogStep
<1>3. CASE LogListHears
  <2>1. PICK id \in 1..Max({LogCount, 1}) : OnEntry(id)
    BY <1>3 DEF LogListHears
  <2>2. phase = "running" /\ outcome = "none"
    BY <1>3 DEF LogListHears, Running, ListInv, ReleasedInv, OutcomesComeLast
  <2>3. CASE LogCount = 0 /\ LogSettle("succeeded") /\ UNCHANGED entries
    <3>1. entries = 1..LogCount
      <4>1. 1..LogCount = {}
        BY <2>3
      <4> QED BY <4>1 DEF ListInv
    <3>2. phase' = "settled" /\ (EndRequest \in up' \/ endError')
      BY <2>3, LogSettleReleases
    <3> QED BY <2>3, <3>1, <3>2
            DEF ListInv, ListIsWhole, ReleasedInv, OutcomesComeLast, VehicleIsReleased
  <2>4. CASE /\ LogCount > 0 /\ id \notin entries
             /\ entries' = entries \cup {id}
             /\ IF Cardinality(entries') = LogCount THEN LogSettle("succeeded") /\ UNCHANGED stepVars
                ELSE NoteProgress
    <3>1. Max({LogCount, 1}) = LogCount
      <4> DEFINE IsMax(x) == x \in {LogCount, 1} /\ \A y \in {LogCount, 1} : x >= y
      <4>1. IsMax(LogCount) /\ \A x : IsMax(x) => x = LogCount
        BY <2>4
      <4> QED BY <4>1 DEF Max
    <3>2. entries' \subseteq 1..LogCount
      BY <2>1, <2>4, <3>1 DEF ListInv
    <3>3. CASE Cardinality(entries') = LogCount
      <4>1. entries' = 1..LogCount
        BY <2>4, <3>2, <3>3, LogsAreAll
      <4>2. phase' = "settled" /\ (EndRequest \in up' \/ endError')
        BY <2>4, <3>3, LogSettleReleases
      <4> QED BY <3>2, <4>1, <4>2
              DEF ListInv, ListIsWhole, ReleasedInv, OutcomesComeLast, VehicleIsReleased
    <3>4. CASE Cardinality(entries') # LogCount
      <4>1. UNCHANGED <<phase, outcome>>
        BY <2>4, <3>4 DEF NoteProgress
      <4> QED BY <2>2, <3>2, <4>1
              DEF ListInv, ListIsWhole, ReleasedInv, OutcomesComeLast, VehicleIsReleased
    <3> QED BY <3>3, <3>4
  <2> QED BY <2>1, <2>3, <2>4 DEF OnEntry
<1>4. CASE LogCancelled
  BY <1>1, <1>4, LogSettleReleases DEF LogCancelled
<1>5. CASE LogListTimesOut
  <2>1. phase = "running" /\ UNCHANGED entries
    BY <1>5 DEF LogListTimesOut, TimedOut, Running
  <2>2. CASE LogSend(ListRequest)
    BY <1>1, <2>1, <2>2, LogSendReleases
  <2>3. CASE LogSettle("stalled")
    <3>1. outcome' = "stalled"
      BY <2>3, LogSettleReleases
    <3> QED BY <1>1, <2>1, <2>3, <3>1, LogSettleReleases
  <2> QED BY <1>5, <2>2, <2>3 DEF LogListTimesOut
<1>6. CASE Tick /\ UNCHANGED logVars
  BY <1>1, <1>6 DEF Tick, transferVars, logVars
<1>7. CASE UNCHANGED <<transferVars, linkVars, logVars>>
  BY <1>1, <1>7 DEF transferVars, logVars
<1> QED BY <1>2, <1>3, <1>4, <1>5, <1>6, <1>7 DEF LogListNext

-----------------------------------------------------------------------------
(* Conversations about files: numbers *)

\* Numbers are taken from a space of 2^16 in steps of two, and wrap.  A number
\* stands for one request while a conversation takes fewer than there are: half
\* as many as the space has.
NumbersSuffice == FileSize + 3 < 2^15

\* A number after it has wrapped.
Wrap(n) == n % SeqSpace

\* How far a number is from the first one that a conversation takes.
Position(seq) == Wrap(seq + 2)
Numbers == {n \in Nat : n < SeqSpace}

\* What the constants are, and what wrapping does to what overflows once.
LEMMA SpaceIs == SeqSpace = 65536 /\ FirstSequence = 65534 /\ SEQUENCE_STEP = 2
BY DEF SeqSpace, FirstSequence, SEQUENCE_STEP

\* The numbers are those below 65536.
LEMMA NumbersAre == \A n : n \in Numbers <=> n \in Nat /\ n < 65536
BY SpaceIs DEF Numbers

\* A number in range is its own remainder.
LEMMA SmallStays ==
  ASSUME NEW n \in Nat, n < 65536
  PROVE  Wrap(n) = n
BY SpaceIs DEF Wrap

\* A number past the range wraps once.
LEMMA LargeWraps ==
  ASSUME NEW n \in Nat, n >= 65536, n < 131072
  PROVE  Wrap(n) = n - 65536
BY SpaceIs DEF Wrap

\* A number wraps to what is left of it past the range, if it is past it.
LEMMA WrapIs ==
  ASSUME NEW n \in Nat, n < 131072
  PROVE  Wrap(n) = IF n < 65536 THEN n ELSE n - 65536
BY SmallStays, LargeWraps

\* The first number is at the start.
LEMMA FirstIsAtStart == FirstSequence \in Numbers /\ Position(FirstSequence) = 0
<1>1. Wrap(65536) = 0
  BY LargeWraps, 65536 \in Nat
<1> QED BY <1>1, SpaceIs, NumbersAre DEF Position

\* Taking numbers moves on by a step each, short of the wrap.
LEMMA LaterMovesOn ==
  ASSUME nextSeq \in Numbers, NEW n \in Nat, Position(nextSeq) + 2 * n < 65536
  PROVE  Later(n) \in Numbers /\ Position(Later(n)) = Position(nextSeq) + 2 * n
<1> DEFINE moved == nextSeq + n * 2
<1>1. Later(n) = Wrap(moved)
  BY SpaceIs DEF Later, Wrap
<1>2. Position(nextSeq) = IF nextSeq + 2 < 65536 THEN nextSeq + 2 ELSE nextSeq + 2 - 65536
  BY WrapIs, NumbersAre, nextSeq + 2 \in Nat, nextSeq + 2 < 131072 DEF Position
<1>3. moved \in Nat /\ moved < 131072
  BY <1>2, NumbersAre
<1>4. moved = nextSeq + 2 * n
  OBVIOUS
<1> HIDE DEF moved
<1>5. Later(n) = IF moved < 65536 THEN moved ELSE moved - 65536
  BY <1>1, <1>3, WrapIs
<1> DEFINE later == Later(n)
<1>6. later \in Nat /\ later < 65536 /\ later + 2 \in Nat /\ later + 2 < 131072
  BY <1>3, <1>5
<1>7. later = IF moved < 65536 THEN moved ELSE moved - 65536
  BY <1>5
<1> HIDE DEF later
<1>8. Wrap(later + 2) = IF later + 2 < 65536 THEN later + 2 ELSE later + 2 - 65536
  BY <1>6, WrapIs
<1>9. nextSeq \in Nat /\ nextSeq < 65536
  BY NumbersAre
<1>10. ASSUME nextSeq + 2 < 65536
       PROVE  Wrap(later + 2) = Position(nextSeq) + 2 * n
  <2>1. Position(nextSeq) = nextSeq + 2 /\ nextSeq + 2 + 2 * n < 65536
    BY <1>2, <1>10
  <2>2. later = moved /\ later + 2 < 65536
    BY <1>4, <1>7, <1>9, <2>1
  <2> QED BY <1>4, <1>8, <1>9, <2>1, <2>2
<1>11. ASSUME ~(nextSeq + 2 < 65536)
       PROVE  Wrap(later + 2) = Position(nextSeq) + 2 * n
  <2>1. Position(nextSeq) = nextSeq + 2 - 65536 /\ nextSeq + 2 - 65536 + 2 * n < 65536
    BY <1>2, <1>11
  <2>2. CASE n = 0
    BY <1>4, <1>7, <1>8, <1>9, <1>11, <2>1, <2>2
  <2>3. CASE n # 0
    <3>1. moved >= 65536 /\ later = moved - 65536 /\ later + 2 < 65536
      BY <1>3, <1>4, <1>7, <1>9, <1>11, <2>1, <2>3
    <3> QED BY <1>4, <1>8, <1>9, <2>1, <3>1
  <2> QED BY <2>2, <2>3
<1>12. later \in Numbers
  <2>1. later \in Nat /\ later < 65536
    BY <1>6
  <2> QED BY <2>1, NumbersAre
<1>13. Wrap(later + 2) = Position(nextSeq) + 2 * n
  BY <1>10, <1>11
<1> QED BY <1>13, <1>12 DEF Position, later

\* Positions are numbers, and a reply's number tells which request it answers.
LEMMA RepliesTellRequests ==
  ASSUME NEW a \in Numbers, NEW b \in Numbers
  PROVE  /\ Position(a) \in Nat
         /\ (a + 1) % SeqSpace = (b + 1) % SeqSpace => a = b
         /\ (a + 1) % SeqSpace = FirstSequence - 1 => Position(a) = 65534
<1>1. \A x : (x + 1) % SeqSpace = Wrap(x + 1)
  BY DEF Wrap
<1>2. /\ a \in Nat /\ a < 65536 /\ a + 1 \in Nat /\ a + 1 < 131072 /\ a + 2 \in Nat /\ a + 2 < 131072
      /\ b \in Nat /\ b < 65536 /\ b + 1 \in Nat /\ b + 1 < 131072
  BY NumbersAre
<1>3. /\ Wrap(a + 1) = IF a + 1 < 65536 THEN a + 1 ELSE a + 1 - 65536
      /\ Wrap(b + 1) = IF b + 1 < 65536 THEN b + 1 ELSE b + 1 - 65536
      /\ Wrap(a + 2) = IF a + 2 < 65536 THEN a + 2 ELSE a + 2 - 65536
  BY <1>2, WrapIs
<1>4. /\ Wrap(a + 2) \in Nat
      /\ Wrap(a + 1) = Wrap(b + 1) => a = b
      /\ Wrap(a + 1) = 65533 => Wrap(a + 2) = 65534
  BY <1>2, <1>3
<1>5. FirstSequence - 1 = 65533
  BY SpaceIs
<1> HIDE DEF Position
<1> QED BY <1>1, <1>4, <1>5 DEF Position

\* The smaller of two numbers.
LEMMA MinOfPair ==
  ASSUME NEW a \in Int, NEW b \in Int
  PROVE  Min({a, b}) \in {a, b} /\ Min({a, b}) <= a /\ Min({a, b}) <= b
<1> DEFINE Least(x) == x \in {a, b} /\ \A y \in {a, b} : x =< y
<1>1. \E x : Least(x)
  <2>1. CASE a =< b
    BY <2>1
  <2>2. CASE ~(a =< b)
    BY <2>2
  <2> QED BY <2>1, <2>2
<1>2. Least(CHOOSE x : Least(x))
  BY <1>1
<1>3. Min({a, b}) = CHOOSE x : Least(x)
  BY DEF Min
<1> QED BY <1>2, <1>3

-----------------------------------------------------------------------------
(* Conversations about files: the invariant *)

\* What a conversation of each kind asks.
AsksFor(w, opcode) ==
  \/ w = "list" /\ opcode = "list"
  \/ w = "download" /\ opcode \in {"open", "read", "terminate"}
  \/ w = "upload" /\ opcode \in {"create", "write", "terminate"}
  \/ w = "create-directory" /\ opcode = "make-directory"

InSession == {"read", "write", "terminate"}

\* The request that opens a session is the first, and the vehicle executed it
\* before anything is asked in that session.
IsRequest(r) ==
  /\ r.seq \in Numbers /\ r.ofs \in Nat /\ r.size \in Nat
  /\ AsksFor(work, r.opcode)
  /\ r.opcode \in Opens => r.seq = FirstSequence
  /\ r.opcode \in InSession => r.session = OurSession /\ FirstSequence \in handled
  /\ r.opcode = "write" => r.ofs + r.size <= FileSize

\* Every request has a number of its own, below the next.
RequestsAreNumbered ==
  /\ nextSeq \in Numbers
  /\ \A r \in up : IsRequest(r) /\ Position(r.seq) < Position(nextSeq)
  /\ \A r1, r2 \in up : r1.seq = r2.seq => r1 = r2

\* What a reply says was so, and is so still.
TellsTheTruth(m) ==
  /\ m.says \in {"ack", "malformed"} \cup Refusals
  /\ m.file = OurFile
  /\ m.says = "ack" =>
       /\ m.n \in Nat
       /\ m.opcode \in {"list", "read"} => m.n > 0 /\ m.ofs + m.n <= FileSize
       /\ m.opcode \in Opens => m.session = OurSession
       /\ m.opcode = "write" =>
            m.n > 0 /\ m.ofs + m.n <= FileSize /\ m.ofs..(m.ofs + m.n - 1) \subseteq written
       /\ m.opcode = "make-directory" => written = {0}
       /\ m.opcode = "terminate" => served = NoSession
  /\ m.says = "eof" /\ m.opcode \in {"list", "read"} => m.ofs >= FileSize

\* m answers r, which was executed.
Answered(r, m) ==
  /\ r.seq \in handled
  /\ m.seq = (r.seq + 1) % SeqSpace /\ m.opcode = r.opcode /\ m.ofs = r.ofs
  /\ TellsTheTruth(m)

\* A reply is one of an earlier conversation, or answers a request of this one.
RepliesAreTrue ==
  \A m \in down : m.seq = FirstSequence - 1 \/ \E r \in up : Answered(r, m)

\* What the vehicle has of the file is of it, and it has a session for who opened one.
ServerIsSound ==
  /\ served \in {NoSession, OurSession}
  /\ work \in {"list", "create-directory"} => served = NoSession
  /\ work = "upload" => written \subseteq 0..(FileSize - 1)

\* The first n entries or units, each once and in order.
FirstOf(n) == [i \in 1..n |-> <<OurFile, i - 1>>]

\* All of it is here, or all of it is there.
Transferred ==
  /\ work \in {"list", "download"} => chunks = FirstOf(FileSize)
  /\ work = "upload" => written = 0..(FileSize - 1)
  /\ work = "create-directory" => written = {0}

\* A request that is outstanding goes on from where the last reply got to, and
\* knows the session it is in.
OutstandingIsNext ==
  \/ /\ step.opcode \in {"list", "open", "create", "make-directory"}
     /\ session = NoSession /\ cleanup = NotPending /\ ~opened
     /\ Position(nextSeq) <= 2 * (offset + 2)
     /\ step.opcode = "list" => step.ofs = offset /\ chunks = FirstOf(offset)
     /\ step.opcode = "create" => chunks = <<>>
  \/ /\ step.opcode \in {"read", "write"}
     /\ session = OurSession /\ cleanup = NotPending
     /\ Position(nextSeq) <= 2 * (offset + 2)
     /\ step.ofs = offset
     /\ step.opcode = "read" => chunks = FirstOf(offset)
     /\ step.opcode = "write" => 0..(offset - 1) \subseteq written
  \/ /\ step.opcode = "terminate"
     /\ session = NoSession /\ cleanup # NotPending
     /\ Position(nextSeq) <= 2 * (FileSize + 3)
     /\ cleanup = "succeeded" => Transferred

\* A conversation that runs waits for the reply to its last request.
ConversationStands ==
  /\ step \in up /\ Position(nextSeq) = Position(step.seq) + 2
  /\ OutstandingIsNext

\* Before the first request there is nothing.
NothingYet ==
  /\ up = {} /\ nextSeq = FirstSequence /\ session = NoSession /\ cleanup = NotPending
  /\ offset = 0 /\ chunks = <<>> /\ ~opened

\* A session that is forgotten was to be terminated, or that could not be told.
SessionsAreTold ==
  opened => session # NoSession \/ untold \/ \E r \in up : r.opcode = "terminate"

\* Success is of the whole, with no session left.
EndIsTrue ==
  outcome = "succeeded" =>
    /\ served = NoSession /\ Transferred
    /\ work \in {"download", "upload"} => FirstSequence \in handled

FtpInv ==
  /\ OutcomesComeLast
  /\ work \in FtpWorks /\ opened \in BOOLEAN /\ untold \in BOOLEAN
  /\ offset \in 0..FileSize /\ fileSize \in Nat
  /\ RequestsAreNumbered /\ RepliesAreTrue /\ ServerIsSound
  /\ phase = "idle" => NothingYet
  /\ Running => ConversationStands
  /\ phase = "settled" => session = NoSession
  /\ SessionsAreTold
  /\ EndIsTrue

\* The invariant says what the properties say.
LEMMA FtpInvSuffices == FtpInv => FilesAreExact /\ SessionsAreClosed
<1> SUFFICES ASSUME FtpInv PROVE FilesAreExact /\ SessionsAreClosed
  OBVIOUS
<1>1. FilesAreExact
  BY DEF FtpInv, EndIsTrue, Transferred, FilesAreExact, FirstOf
<1>2. SessionsAreClosed
  BY DEF FtpInv, EndIsTrue, SessionsAreTold, SessionsAreClosed
<1> QED BY <1>1, <1>2

-----------------------------------------------------------------------------
(* Conversations about files: requests *)

\* What the vehicle has and has said, and what the conversation is about, is left alone.
VehicleWaits == UNCHANGED <<work, down, handled, served, written>>

\* A request with the next number, or none, keeps the requests numbered and the
\* replies true.
LEMMA RequestsKeep ==
  ASSUME FtpInv, VehicleWaits,
         nextSeq' \in Numbers, Position(nextSeq) <= Position(nextSeq'),
         \/ up' = up
         \/ \E r : /\ up' = up \cup {r} /\ IsRequest(r)
                   /\ Position(nextSeq) <= Position(r.seq) /\ Position(r.seq) < Position(nextSeq')
  PROVE  RequestsAreNumbered' /\ RepliesAreTrue' /\ ServerIsSound'
<1>1. \A r : IsRequest(r)' = IsRequest(r)
  BY DEF VehicleWaits, IsRequest
<1>2. \A r, m : Answered(r, m)' = Answered(r, m)
  BY DEF VehicleWaits, Answered, TellsTheTruth
<1>3. up \subseteq up'
  OBVIOUS
<1>4. RepliesAreTrue'
  BY <1>2, <1>3 DEF FtpInv, RepliesAreTrue, VehicleWaits
<1>5. ServerIsSound'
  BY DEF FtpInv, ServerIsSound, VehicleWaits
<1>6. Position(nextSeq) \in Nat /\ Position(nextSeq') \in Nat
  BY RepliesTellRequests DEF FtpInv, RequestsAreNumbered
<1>7. \A r \in up : IsRequest(r) /\ Position(r.seq) < Position(nextSeq) /\ Position(r.seq) \in Nat
  BY RepliesTellRequests DEF FtpInv, RequestsAreNumbered, IsRequest
<1>8. CASE up' = up
  <2>1. \A r \in up : Position(r.seq) < Position(nextSeq')
    BY <1>6, <1>7
  <2> QED BY <1>1, <1>4, <1>5, <1>7, <1>8, <2>1 DEF FtpInv, RequestsAreNumbered
<1>9. ASSUME NEW r, up' = up \cup {r}, IsRequest(r),
             Position(nextSeq) <= Position(r.seq), Position(r.seq) < Position(nextSeq')
      PROVE  RequestsAreNumbered'
  <2>1. Position(r.seq) \in Nat
    BY <1>9, RepliesTellRequests DEF IsRequest
  <2>2. \A r0 \in up : Position(r0.seq) < Position(nextSeq')
    BY <1>6, <1>7, <1>9, <2>1
  <2>3. \A r0 \in up : r0.seq # r.seq
    BY <1>6, <1>7, <1>9, <2>1
  <2>4. \A r0 \in up' : IsRequest(r0)' /\ Position(r0.seq) < Position(nextSeq')
    BY <1>1, <1>7, <1>9, <2>2
  <2>5. \A r1, r2 \in up' : r1.seq = r2.seq => r1 = r2
    BY <1>9, <2>3 DEF FtpInv, RequestsAreNumbered
  <2> QED BY <2>4, <2>5 DEF RequestsAreNumbered
<1> QED BY <1>4, <1>5, <1>8, <1>9

\* What the end of a conversation leaves: it asks for its session to be
\* terminated and waits, or it is over.
EndsOrCloses(how, taken, known) ==
  /\ RequestsAreNumbered' /\ RepliesAreTrue' /\ ServerIsSound'
  /\ session' = NoSession
  /\ \/ /\ known = OurSession /\ phase' = "running" /\ UNCHANGED <<outcome, untold>>
        /\ cleanup' = how /\ step'.opcode = "terminate" /\ step' \in up'
        /\ Position(nextSeq') = Position(nextSeq) + 2 * taken + 2
        /\ Position(nextSeq') = Position(step'.seq) + 2
     \/ known = OurSession /\ phase' = "settled" /\ outcome' = WithoutCleanup(how) /\ untold' = TRUE
     \/ known = NoSession /\ phase' = "settled" /\ outcome' = how /\ UNCHANGED <<untold, up>>

\* A conversation that settles asks for its session to end, cannot ask, or has none.
LEMMA SettlingEnds ==
  ASSUME FtpInv, VehicleWaits, NEW how, NEW taken \in {0, 1}, NEW known \in {NoSession, OurSession},
         SettleThen(how, taken, known),
         known = OurSession => work \in {"download", "upload"} /\ FirstSequence \in handled,
         Position(nextSeq) + 2 * taken + 2 < 65536
  PROVE  EndsOrCloses(how, taken, known)
<1> DEFINE request == Request("terminate", known, 0, 0, Later(taken))
           Asks == /\ known # NoSession
                   /\ step' = request /\ nextSeq' = Later(taken + 1)
                   /\ Transmit(step', Unarmed) /\ cleanup' = how /\ UNCHANGED untold
           CannotAsk == /\ known # NoSession /\ nextSeq' = Later(taken + 1)
                        /\ Settle(WithoutCleanup(how)) /\ untold' = TRUE /\ UNCHANGED <<up, cleanup>>
           IsOver == /\ known = NoSession
                     /\ Settle(how) /\ nextSeq' = Later(taken) /\ UNCHANGED <<up, stepVars, cleanup, untold>>
<1>1. session' = NoSession /\ (Asks \/ CannotAsk \/ IsOver)
  BY DEF SettleThen
<1>2. nextSeq \in Numbers /\ Position(nextSeq) \in Nat
  BY RepliesTellRequests DEF FtpInv, RequestsAreNumbered
<1>3. /\ Later(taken) \in Numbers /\ Position(Later(taken)) = Position(nextSeq) + 2 * taken
  BY <1>2, LaterMovesOn
<1>4. /\ Later(taken + 1) \in Numbers /\ Position(Later(taken + 1)) = Position(nextSeq) + 2 * taken + 2
  <2>1. taken + 1 \in Nat /\ Position(nextSeq) + 2 * (taken + 1) < 65536
    BY <1>2
  <2> QED BY <1>2, <2>1, LaterMovesOn
<1>5. request.opcode = "terminate" /\ request.seq = Later(taken)
  BY DEF Request
<1>6. known = OurSession => IsRequest(request)
  BY <1>3 DEF Request, IsRequest, AsksFor, Opens, InSession
<1>7. OurSession # NoSession
  BY DEF OurSession, NoSession
<1> HIDE DEF request
<1>8. CASE Asks
  <2>1. up' = up \cup {request} /\ phase' = "running" /\ UNCHANGED outcome
    BY <1>8 DEF Transmit
  <2>2. Position(nextSeq) <= Position(request.seq) /\ Position(request.seq) < Position(nextSeq')
    BY <1>2, <1>3, <1>4, <1>5, <1>8
  <2>3. RequestsAreNumbered' /\ RepliesAreTrue' /\ ServerIsSound'
    BY <1>2, <1>3, <1>4, <1>5, <1>6, <1>8, <2>1, <2>2, RequestsKeep
  <2>4. step' \in up' /\ step'.opcode = "terminate" /\ known = OurSession
    BY <1>5, <1>8, <2>1
  <2>5. /\ Position(nextSeq') = Position(nextSeq) + 2 * taken + 2
        /\ Position(nextSeq') = Position(step'.seq) + 2
    BY <1>2, <1>3, <1>4, <1>5, <1>8
  <2> QED BY <1>1, <1>8, <2>1, <2>3, <2>4, <2>5 DEF EndsOrCloses
<1>9. CASE CannotAsk
  <2>1. RequestsAreNumbered' /\ RepliesAreTrue' /\ ServerIsSound'
    BY <1>2, <1>4, <1>9, RequestsKeep
  <2>2. known = OurSession /\ phase' = "settled" /\ outcome' = WithoutCleanup(how) /\ untold' = TRUE
    BY <1>9 DEF Settle
  <2> QED BY <1>1, <2>1, <2>2 DEF EndsOrCloses
<1>10. CASE IsOver
  <2>1. RequestsAreNumbered' /\ RepliesAreTrue' /\ ServerIsSound'
    BY <1>2, <1>3, <1>10, RequestsKeep
  <2> QED BY <1>1, <1>10, <2>1 DEF EndsOrCloses, Settle
<1> HIDE DEF Asks, CannotAsk, IsOver
<1> QED BY <1>1, <1>8, <1>9, <1>10

\* A request tells whether the conversation knows of a session.
LEMMA RequestsOpen ==
  ASSUME NEW opcode, NEW ofs, NEW size, NEW known, SendRequest(opcode, known, ofs, size),
         opened \in BOOLEAN
  PROVE  opened' \in BOOLEAN /\ (opened' <=> opened \/ known # NoSession)
<1>1. opened' = (opened \/ known # NoSession)
  BY Zenon DEF SendRequest
<1> QED BY <1>1

\* The request that SendRequest builds.
NextRequest(opcode, known, ofs, size) ==
  Request(opcode, IF known = NoSession THEN 0 ELSE known, ofs, size, nextSeq)

\* A request goes out, or its send fails.
LEMMA SendingIs ==
  ASSUME NEW opcode, NEW ofs, NEW size, NEW known, SendRequest(opcode, known, ofs, size),
         NEW request, request = NextRequest(opcode, known, ofs, size)
  PROVE  \/ /\ step' = request /\ Transmit(request, Unarmed)
            /\ nextSeq' = Later(1) /\ session' = known /\ UNCHANGED <<cleanup, untold>>
         \/ SettleThen("send-failed", 1, known)
BY DEF SendRequest, NextRequest

\* What a request leaves: it is awaited.
IsAwaited(request, known) ==
  /\ RequestsAreNumbered' /\ RepliesAreTrue' /\ ServerIsSound'
  /\ phase' = "running" /\ UNCHANGED <<outcome, cleanup, untold>>
  /\ session' = known /\ step' \in up' /\ step' = request
  /\ Position(nextSeq') = Position(nextSeq) + 2
  /\ Position(nextSeq') = Position(step'.seq) + 2

\* A request goes out under the next number and is awaited, or its send fails and
\* the conversation settles.
LEMMA SendingAwaits ==
  ASSUME FtpInv, VehicleWaits, NEW opcode, NEW ofs \in Nat, NEW size \in Nat,
         NEW known \in {NoSession, OurSession},
         SendRequest(opcode, known, ofs, size),
         known = OurSession => work \in {"download", "upload"} /\ FirstSequence \in handled,
         NEW request, request = NextRequest(opcode, known, ofs, size),
         IsRequest(request),
         Position(nextSeq) + 4 < 65536
  PROVE  IsAwaited(request, known) \/ EndsOrCloses("send-failed", 1, known)
<1> DEFINE GoesOut == /\ step' = request /\ Transmit(request, Unarmed)
                      /\ nextSeq' = Later(1) /\ session' = known /\ UNCHANGED <<cleanup, untold>>
<1>1. GoesOut \/ SettleThen("send-failed", 1, known)
  BY SendingIs
<1>3. nextSeq \in Numbers /\ Position(nextSeq) \in Nat
  BY RepliesTellRequests DEF FtpInv, RequestsAreNumbered
<1>4. Later(1) \in Numbers /\ Position(Later(1)) = Position(nextSeq) + 2
  <2>1. 1 \in Nat /\ Position(nextSeq) + 2 * 1 < 65536
    BY <1>3
  <2> QED BY <1>3, <2>1, LaterMovesOn
<1>5. request.seq = nextSeq
  BY DEF NextRequest, Request
<1>6. CASE GoesOut
  <2>1. up' = up \cup {request} /\ phase' = "running" /\ UNCHANGED outcome
    BY <1>6 DEF Transmit
  <2>2. Position(nextSeq) <= Position(request.seq) /\ Position(request.seq) < Position(nextSeq')
    BY <1>3, <1>4, <1>5, <1>6
  <2>3. RequestsAreNumbered' /\ RepliesAreTrue' /\ ServerIsSound'
    BY <1>3, <1>4, <1>5, <1>6, <2>1, <2>2, RequestsKeep
  <2>4. step' \in up' /\ Position(nextSeq') = Position(step'.seq) + 2
    BY <1>3, <1>4, <1>5, <1>6, <2>1
  <2> QED BY <1>4, <1>6, <2>1, <2>3, <2>4 DEF IsAwaited
<1>7. CASE SettleThen("send-failed", 1, known)
  <2>1. 1 \in {0, 1} /\ Position(nextSeq) + 2 * 1 + 2 < 65536
    BY <1>3
  <2> QED BY <1>7, <2>1, SettlingEnds
<1> HIDE DEF GoesOut
<1> QED BY <1>1, <1>6, <1>7

\* Nothing is the first none, and a page or a read goes on where the last ended.
LEMMA FirstNone == <<>> = FirstOf(0)
BY DEF FirstOf

\* The first parts of a file go on with the next one.
LEMMA FirstGoOn ==
  ASSUME NEW m, NEW o \in Nat, m.n \in Nat, m.ofs = o, m.file = OurFile
  PROVE  FirstOf(o) \o Content(m) = FirstOf(o + m.n)
<1> DEFINE n == m.n
           left == FirstOf(o)
           right == Content(m)
           whole == FirstOf(o + n)
           Units == Int \X Int
<1>1. n \in Nat
  OBVIOUS
<1>2. left \in Seq(Units) /\ Len(left) = o /\ \A i \in 1..o : left[i] = <<OurFile, i - 1>>
  BY DEF FirstOf, OurFile
<1>3. /\ right \in Seq(Units) /\ Len(right) = n
      /\ \A i \in 1..n : right[i] = <<OurFile, o + i - 1>>
  BY DEF Content, OurFile
<1>4. /\ whole \in Seq(Units) /\ Len(whole) = o + n
      /\ \A i \in 1..(o + n) : whole[i] = <<OurFile, i - 1>>
  BY DEF FirstOf, OurFile
<1> HIDE DEF n, left, right, whole, Units
<1>5. /\ left \o right \in Seq(Units) /\ Len(left \o right) = Len(left) + Len(right)
      /\ \A i \in 1..(Len(left) + Len(right)) :
           (left \o right)[i] = IF i <= Len(left) THEN left[i] ELSE right[i - Len(left)]
  BY <1>2, <1>3, ConcatProperties
<1>6. ASSUME NEW i \in 1..(o + n)
      PROVE  (left \o right)[i] = whole[i]
  <2>1. (left \o right)[i] = IF i <= o THEN left[i] ELSE right[i - o]
    BY <1>2, <1>3, <1>5
  <2>2. CASE i <= o
    <3>1. i \in 1..o
      BY <1>1, <2>2
    <3> QED BY <1>2, <1>4, <2>1, <2>2, <3>1
  <2>3. CASE ~(i <= o)
    <3>1. i - o \in 1..n /\ o + (i - o) - 1 = i - 1
      BY <1>1, <2>3
    <3>2. right[i - o] = <<OurFile, i - 1>>
      BY <1>3, <3>1
    <3> QED BY <1>4, <2>1, <2>3, <3>2
  <2> QED BY <2>2, <2>3
<1>7. left \o right = whole
  <2>1. Len(left \o right) = Len(whole) /\ Len(left \o right) = o + n
    BY <1>2, <1>3, <1>4, <1>5
  <2> QED BY <1>4, <1>5, <1>6, <2>1, SeqEqual
<1> QED BY <1>7 DEF left, right, whole, n

-----------------------------------------------------------------------------
(* Conversations about files: steps of the machine *)

\* What the invariant is about, but for the clock and the retries.
FtpStill ==
  UNCHANGED <<phase, outcome, step, up, down, work, nextSeq, session, fileSize, offset, chunks,
              cleanup, opened, untold, handled, served, written>>

\* Steps that change nothing of a conversation keep what is known of it.
LEMMA StillKeeps ==
  ASSUME FtpInv, FtpStill
  PROVE  FtpInv'
BY DEF FtpInv, FtpStill, OutcomesComeLast, RequestsAreNumbered, RepliesAreTrue, ServerIsSound,
       NothingYet, Running, ConversationStands, OutstandingIsNext, SessionsAreTold, EndIsTrue,
       IsRequest, Answered, TellsTheTruth, Transferred

\* The end of a conversation keeps its invariant if success is of the whole.
LEMMA EndKeeps ==
  ASSUME FtpInv, VehicleWaits, phase # "settled", NEW how, how \notin {NotPending},
         NEW taken \in {0, 1}, NEW known \in {NoSession, OurSession},
         EndsOrCloses(how, taken, known),
         offset' \in 0..FileSize, fileSize' \in Nat, opened' \in BOOLEAN,
         known = NoSession => ~opened',
         Position(nextSeq) + 2 * taken + 2 <= 2 * (FileSize + 3),
         how = "succeeded" => Transferred',
         how = "succeeded" /\ known = NoSession => work \in {"list", "create-directory"}
  PROVE  FtpInv'
<1>1. /\ RequestsAreNumbered' /\ RepliesAreTrue' /\ ServerIsSound' /\ session' = NoSession
      /\ work' \in FtpWorks /\ UNCHANGED <<work, served>> /\ outcome = "none"
  BY DEF EndsOrCloses, FtpInv, VehicleWaits, OutcomesComeLast
<1>2. CASE /\ known = OurSession /\ phase' = "running" /\ UNCHANGED <<outcome, untold>>
           /\ cleanup' = how /\ step'.opcode = "terminate" /\ step' \in up'
           /\ Position(nextSeq') = Position(nextSeq) + 2 * taken + 2
           /\ Position(nextSeq') = Position(step'.seq) + 2
  <2>1. ConversationStands'
    BY <1>1, <1>2 DEF ConversationStands, OutstandingIsNext
  <2> QED BY <1>1, <1>2, <2>1
          DEF FtpInv, OutcomesComeLast, Running, SessionsAreTold, EndIsTrue
<1>3. CASE known = OurSession /\ phase' = "settled" /\ outcome' = WithoutCleanup(how) /\ untold' = TRUE
  <2>1. outcome' # "succeeded"
    BY <1>3 DEF WithoutCleanup
  <2> QED BY <1>1, <1>3, <2>1
          DEF FtpInv, OutcomesComeLast, Running, SessionsAreTold, EndIsTrue
<1>4. CASE known = NoSession /\ phase' = "settled" /\ outcome' = how /\ UNCHANGED <<untold, up>>
  <2>1. EndIsTrue'
    BY <1>1, <1>4 DEF EndIsTrue, FtpInv, ServerIsSound
  <2> QED BY <1>1, <1>4, <2>1
          DEF FtpInv, OutcomesComeLast, Running, SessionsAreTold
<1> QED BY <1>2, <1>3, <1>4 DEF EndsOrCloses

\* A request that is awaited keeps it if it is the next.
LEMMA AwaitKeeps ==
  ASSUME FtpInv, VehicleWaits, phase # "settled", NEW request, NEW known, IsAwaited(request, known),
         offset' \in 0..FileSize, fileSize' \in Nat, opened' \in BOOLEAN,
         opened' => known # NoSession,
         OutstandingIsNext'
  PROVE  FtpInv'
<1>1. /\ RequestsAreNumbered' /\ RepliesAreTrue' /\ ServerIsSound' /\ session' = known
      /\ work' \in FtpWorks /\ outcome = "none" /\ phase' = "running"
      /\ UNCHANGED <<outcome, untold>>
  BY DEF IsAwaited, FtpInv, VehicleWaits, OutcomesComeLast
<1>2. ConversationStands'
  BY DEF IsAwaited, ConversationStands
<1> QED BY <1>1, <1>2 DEF FtpInv, OutcomesComeLast, Running, SessionsAreTold, EndIsTrue

\* What is known of the outstanding request, and of a session that is known.
LEMMA OutstandingIs ==
  ASSUME FtpInv, Running
  PROVE  /\ step \in up /\ IsRequest(step)
         /\ nextSeq \in Numbers /\ Position(nextSeq) \in Nat /\ Position(step.seq) \in Nat
         /\ Position(nextSeq) = Position(step.seq) + 2
         /\ Position(nextSeq) <= 2 * (FileSize + 3)
         /\ cleanup = NotPending => Position(nextSeq) <= 2 * (offset + 2)
         /\ step.opcode \in Opens => Position(nextSeq) = 2
         /\ session \in {NoSession, OurSession}
         /\ session = OurSession => work \in {"download", "upload"} /\ FirstSequence \in handled
         /\ session = NoSession /\ cleanup = NotPending => ~opened
         /\ cleanup # NotPending => step.opcode = "terminate" /\ session = NoSession
         /\ cleanup # NotPending => work \in {"download", "upload"} /\ FirstSequence \in handled
<1> USE FtpAssumption
<1>1. /\ step \in up /\ Position(nextSeq) = Position(step.seq) + 2
      /\ OutstandingIsNext /\ RequestsAreNumbered /\ offset \in 0..FileSize
  BY DEF FtpInv, ConversationStands
<1>2. IsRequest(step) /\ nextSeq \in Numbers
  BY <1>1 DEF RequestsAreNumbered
<1>3. Position(nextSeq) \in Nat /\ Position(step.seq) \in Nat
  BY <1>2, RepliesTellRequests DEF IsRequest
<1>4. /\ Position(nextSeq) <= 2 * (FileSize + 3)
      /\ cleanup = NotPending => Position(nextSeq) <= 2 * (offset + 2)
  BY <1>1, <1>3 DEF OutstandingIsNext
<1>5. step.opcode \in Opens => Position(nextSeq) = 2
  BY <1>1, <1>2, FirstIsAtStart DEF IsRequest
<1>6. step.opcode \in InSession => work \in {"download", "upload"} /\ FirstSequence \in handled
  BY <1>2 DEF IsRequest, AsksFor, InSession
<1>7. /\ session \in {NoSession, OurSession}
      /\ session = OurSession => step.opcode \in InSession
      /\ session = NoSession /\ cleanup = NotPending => ~opened
      /\ cleanup # NotPending => step.opcode = "terminate" /\ session = NoSession
  BY <1>1 DEF OutstandingIsNext, InSession, NoSession, OurSession
<1> QED BY <1>1, <1>2, <1>3, <1>4, <1>5, <1>6, <1>7 DEF InSession

\* A reply that matches answers the request that is outstanding: it is not one of
\* an earlier conversation, nor of an earlier request.
LEMMA HeardIs ==
  ASSUME NumbersSuffice, FtpInv, Running, NEW m \in down, ResponseMatches(m)
  PROVE  Answered(step, m)
<1> USE FtpAssumption
<1>1. /\ step \in up /\ step.seq \in Numbers /\ Position(step.seq) \in Nat /\ Position(nextSeq) \in Nat
      /\ Position(nextSeq) = Position(step.seq) + 2 /\ Position(nextSeq) <= 2 * (FileSize + 3)
  BY OutstandingIs DEF IsRequest
<1>2. Position(step.seq) # 65534
  <2>1. FileSize + 3 < 32768
    BY DEF NumbersSuffice
  <2> QED BY <1>1, <2>1
<1>3. m.seq = (step.seq + 1) % SeqSpace
  BY DEF ResponseMatches
<1>4. m.seq # FirstSequence - 1
  BY <1>1, <1>2, <1>3, RepliesTellRequests
<1>5. PICK r \in up : Answered(r, m)
  BY <1>4 DEF FtpInv, RepliesAreTrue
<1>6. r.seq \in Numbers /\ m.seq = (r.seq + 1) % SeqSpace
  BY <1>5 DEF FtpInv, RequestsAreNumbered, IsRequest, Answered
<1>7. r.seq = step.seq
  BY <1>1, <1>3, <1>6, RepliesTellRequests
<1>8. r = step
  BY <1>1, <1>5, <1>7 DEF FtpInv, RequestsAreNumbered
<1> QED BY <1>5, <1>8

\* A conversation whose session was to be terminated is over.
LEMMA CleanupKeeps ==
  ASSUME FtpInv, VehicleWaits, Running, cleanup # NotPending, NEW how, CleanupEnds(how),
         UNCHANGED <<contentVars, opened>>,
         how = "succeeded" => cleanup = "succeeded" /\ served = NoSession
  PROVE  FtpInv'
<1>1. /\ phase' = "settled" /\ outcome' = how /\ cleanup' = NotPending
      /\ UNCHANGED <<up, step, nextSeq, session, untold, fileSize, offset, chunks, opened>>
  BY DEF CleanupEnds, Settle, stepVars, contentVars
<1>2. /\ nextSeq \in Numbers /\ Position(nextSeq) \in Nat /\ step.opcode = "terminate" /\ session = NoSession
      /\ step \in up /\ work \in {"download", "upload"} /\ FirstSequence \in handled
  BY OutstandingIs
<1>3. RequestsAreNumbered' /\ RepliesAreTrue' /\ ServerIsSound'
  BY <1>1, <1>2, RequestsKeep
<1>4. UNCHANGED <<work, served, written, handled>>
  BY DEF VehicleWaits
<1>5. cleanup = "succeeded" => Transferred
  BY <1>2 DEF FtpInv, ConversationStands, OutstandingIsNext
<1>6. EndIsTrue'
  BY <1>1, <1>2, <1>4, <1>5 DEF EndIsTrue, Transferred
<1>7. SessionsAreTold'
  BY <1>1, <1>2 DEF SessionsAreTold
<1> QED BY <1>1, <1>2, <1>3, <1>4, <1>6, <1>7 DEF FtpInv, OutcomesComeLast, Running

\* What a conversation that ends at once, or fails, needs for it.
LEMMA SettlingKeeps ==
  ASSUME NumbersSuffice, FtpInv, VehicleWaits, Running, cleanup = NotPending,
         NEW how, how # NotPending, SettleThen(how, 0, session),
         UNCHANGED <<fileSize, opened>>, offset' \in 0..FileSize,
         how = "succeeded" => Transferred',
         how = "succeeded" /\ session = NoSession => work \in {"list", "create-directory"}
  PROVE  FtpInv'
<1> USE FtpAssumption
<1>1. /\ Position(nextSeq) \in Nat /\ Position(nextSeq) <= 2 * (offset + 2)
      /\ session \in {NoSession, OurSession}
      /\ session = OurSession => work \in {"download", "upload"} /\ FirstSequence \in handled
      /\ session = NoSession => ~opened
  BY OutstandingIs
<1>2. phase # "settled" /\ offset \in 0..FileSize /\ fileSize \in Nat /\ opened \in BOOLEAN
  BY DEF Running, FtpInv
<1>3. Position(nextSeq) + 2 * 0 + 2 <= 2 * (FileSize + 3) /\ FileSize + 3 < 32768
  BY <1>1, <1>2 DEF NumbersSuffice
<1>4. Position(nextSeq) + 2 * 0 + 2 < 65536 /\ 0 \in {0, 1}
  BY <1>1, <1>3
<1>5. EndsOrCloses(how, 0, session)
  BY <1>1, <1>4, SettlingEnds
<1>6. fileSize' \in Nat /\ opened' \in BOOLEAN /\ (session = NoSession => ~opened')
  BY <1>1, <1>2
<1> QED BY <1>1, <1>2, <1>3, <1>4, <1>5, <1>6, EndKeeps

\* A conversation that fails keeps its invariant.
LEMMA FailKeeps ==
  ASSUME NumbersSuffice, FtpInv, VehicleWaits, Running,
         NEW how, how \notin {"succeeded", NotPending}, Fail(how)
  PROVE  FtpInv'
<1>1. UNCHANGED <<contentVars, opened, fileSize, offset>> /\ offset \in 0..FileSize
  BY DEF Fail, contentVars, FtpInv
<1>2. CASE cleanup = NotPending /\ SettleThen(how, 0, session)
  BY <1>1, <1>2, SettlingKeeps
<1>3. CASE cleanup # NotPending /\ CleanupEnds(WithoutCleanup(cleanup))
  <2>1. WithoutCleanup(cleanup) # "succeeded"
    BY DEF WithoutCleanup
  <2> QED BY <1>1, <1>3, <2>1, CleanupKeeps
<1> QED BY <1>2, <1>3 DEF Fail

\* A request that goes on from what was just received keeps the invariant,
\* whether it goes out or not.
LEMMA GoingOnKeeps ==
  ASSUME NumbersSuffice, FtpInv, VehicleWaits, phase # "settled",
         NEW opcode, NEW ofs \in Nat, NEW size \in Nat, NEW known \in {NoSession, OurSession},
         SendRequest(opcode, known, ofs, size),
         known = OurSession => work \in {"download", "upload"} /\ FirstSequence \in handled,
         known = NoSession => ~opened,
         NEW request, request = NextRequest(opcode, known, ofs, size), IsRequest(request),
         offset' \in 0..FileSize, fileSize' \in Nat,
         Position(nextSeq) + 4 <= 2 * (FileSize + 3),
         IsAwaited(request, known) /\ (opened' <=> opened \/ known # NoSession) => OutstandingIsNext'
  PROVE  FtpInv'
<1> USE FtpAssumption
<1>1. Position(nextSeq) \in Nat /\ opened \in BOOLEAN
  BY RepliesTellRequests DEF FtpInv, RequestsAreNumbered
<1>2. Position(nextSeq) + 4 < 65536
  <2>1. FileSize + 3 < 32768
    BY DEF NumbersSuffice
  <2> QED BY <1>1, <2>1
<1>3. opened' \in BOOLEAN /\ (opened' <=> opened \/ known # NoSession)
  BY <1>1, RequestsOpen
<1>4. IsAwaited(request, known) \/ EndsOrCloses("send-failed", 1, known)
  BY <1>2, SendingAwaits
<1>5. CASE IsAwaited(request, known)
  <2>1. opened' => known # NoSession
    BY <1>3
  <2> QED BY <1>3, <1>5, <2>1, AwaitKeeps
<1>6. CASE EndsOrCloses("send-failed", 1, known)
  <2>1. /\ "send-failed" \notin {NotPending} /\ 1 \in {0, 1} /\ "send-failed" # "succeeded"
        /\ Position(nextSeq) + 2 * 1 + 2 <= 2 * (FileSize + 3)
        /\ known = NoSession => ~opened'
    BY <1>1, <1>3 DEF NotPending
  <2> QED BY <1>3, <1>6, <2>1, EndKeeps
<1> QED BY <1>4, <1>5, <1>6

\* The first request.
LEMMA StartKeeps ==
  ASSUME NumbersSuffice, FtpInv, VehicleWaits, FtpStarts
  PROVE  FtpInv'
<1> USE FtpAssumption
<1> DEFINE opcode == FirstOpcode[work]
           request == NextRequest(opcode, NoSession, 0, 0)
<1>1. /\ phase = "idle" /\ NothingYet /\ UNCHANGED <<work, fileSize, offset, chunks>>
      /\ SendRequest(opcode, NoSession, 0, 0)
      /\ work \in FtpWorks
  BY DEF FtpStarts, FtpInv, contentVars
<1>2. nextSeq = FirstSequence /\ offset = 0 /\ chunks = <<>> /\ ~opened /\ cleanup = NotPending
  BY <1>1 DEF NothingYet
<1>3. Position(nextSeq) = 0 /\ nextSeq \in Numbers
  BY <1>2, FirstIsAtStart
<1>4. AsksFor(work, opcode) /\ opcode \in {"list", "open", "create", "make-directory"}
  BY <1>1 DEF FtpWorks, FirstOpcode, AsksFor
<1>5. request.opcode = opcode /\ request.seq = nextSeq /\ request.ofs = 0 /\ request.size = 0
  BY DEF NextRequest, Request
<1> HIDE DEF opcode, request
<1>6. IsRequest(request)
  BY <1>2, <1>3, <1>4, <1>5 DEF IsRequest, InSession
<1>7. ASSUME IsAwaited(request, NoSession) /\ (opened' <=> opened \/ NoSession # NoSession)
      PROVE  OutstandingIsNext'
  <2>1. /\ session' = NoSession /\ step' = request /\ cleanup' = NotPending
        /\ Position(nextSeq') = 2 /\ ~opened'
    BY <1>2, <1>3, <1>7 DEF IsAwaited
  <2>2. offset' = 0 /\ chunks' = <<>> /\ chunks' = FirstOf(0)
    BY <1>1, <1>2, FirstNone
  <2>3. FirstOf(0) = FirstOf(offset')
    BY <2>2
  <2>4. Position(nextSeq') <= 2 * (offset' + 2)
    BY <2>1, <2>2
  <2>5. FirstOf(offset)' = FirstOf(offset')
    BY DEF FirstOf
  <2> QED BY <1>4, <1>5, <2>1, <2>2, <2>3, <2>4, <2>5 DEF OutstandingIsNext
<1>8. offset' \in 0..FileSize /\ fileSize' \in Nat /\ 0 \in Nat
  BY <1>1, <1>2 DEF FtpInv
<1>9. Position(nextSeq) + 4 <= 2 * (FileSize + 3)
  BY <1>3
<1>10. /\ request = NextRequest(opcode, NoSession, 0, 0) /\ phase # "settled"
       /\ (NoSession = OurSession => work \in {"download", "upload"} /\ FirstSequence \in handled)
  BY <1>1 DEF request, NoSession, OurSession
<1> QED BY <1>1, <1>2, <1>6, <1>7, <1>8, <1>9, <1>10, GoingOnKeeps

\* A page of the listing, and the next.
LEMMA PageKeeps ==
  ASSUME NumbersSuffice, FtpInv, VehicleWaits, Running,
         NEW m, Answered(step, m), m.says = "ack", m.opcode = "list", OnPage(m)
  PROVE  FtpInv'
<1> USE FtpAssumption
<1> DEFINE request == NextRequest("list", NoSession, offset', 0)
<1>1. step.opcode = "list" /\ step.ofs = m.ofs /\ m.file = OurFile
  BY DEF Answered, TellsTheTruth
<1>2. m.n \in Nat /\ m.n > 0 /\ m.ofs + m.n <= FileSize
  BY DEF Answered, TellsTheTruth
<1>3. /\ session = NoSession /\ cleanup = NotPending /\ ~opened
      /\ Position(nextSeq) <= 2 * (offset + 2)
      /\ m.ofs = offset /\ chunks = FirstOf(offset)
  BY <1>1 DEF FtpInv, ConversationStands, OutstandingIsNext
<1>4. /\ offset \in Nat /\ Position(nextSeq) \in Nat /\ nextSeq \in Numbers /\ AsksFor(work, "list")
  BY <1>1, OutstandingIs DEF IsRequest, FtpInv
<1>5. /\ offset' = offset + m.n /\ offset' \in 0..FileSize /\ offset + 1 <= offset'
      /\ offset + 1 <= FileSize
  BY <1>2, <1>3, <1>4 DEF OnPage
<1>6. chunks' = FirstOf(offset') /\ FirstOf(offset)' = FirstOf(offset')
  <2>1. chunks' = FirstOf(offset) \o Content(m)
    BY <1>3 DEF OnPage
  <2>2. FirstOf(offset) \o Content(m) = FirstOf(offset + m.n)
    BY <1>1, <1>2, <1>3, <1>4, FirstGoOn
  <2> QED BY <1>5, <2>1, <2>2 DEF FirstOf
<1>7. /\ request.opcode = "list" /\ request.seq = nextSeq /\ request.ofs = offset' /\ request.size = 0
      /\ request = NextRequest("list", NoSession, offset', 0)
  BY DEF NextRequest, Request
<1> HIDE DEF request
<1>8. IsRequest(request)
  BY <1>4, <1>5, <1>7 DEF IsRequest, InSession, Opens
<1>9. ASSUME IsAwaited(request, NoSession) /\ (opened' <=> opened \/ NoSession # NoSession)
      PROVE  OutstandingIsNext'
  <2>1. /\ session' = NoSession /\ step' = request /\ cleanup' = NotPending
        /\ Position(nextSeq') = Position(nextSeq) + 2 /\ ~opened'
    BY <1>3, <1>9 DEF IsAwaited
  <2>2. Position(nextSeq') <= 2 * (offset' + 2)
    BY <1>3, <1>4, <1>5, <2>1
  <2> QED BY <1>6, <1>7, <2>1, <2>2 DEF OutstandingIsNext
<1>10. Position(nextSeq) + 4 <= 2 * (FileSize + 3)
  BY <1>3, <1>4, <1>5
<1>11. /\ SendRequest("list", NoSession, offset', 0) /\ fileSize' \in Nat /\ 0 \in Nat /\ offset' \in Nat
       /\ phase # "settled"
       /\ (NoSession = OurSession => work \in {"download", "upload"} /\ FirstSequence \in handled)
  BY <1>5 DEF OnPage, FtpInv, Running, NoSession, OurSession
<1> QED BY <1>3, <1>5, <1>7, <1>8, <1>9, <1>10, <1>11, GoingOnKeeps

\* The size of a read, and of a write within the file.
LEMMA SizesAre ==
  ASSUME NEW size \in Nat, NEW ofs \in Nat
  PROVE  /\ (IF ofs < size THEN Min({MaxData, size - ofs}) ELSE MaxData) \in Nat
         /\ ofs <= FileSize => /\ Min({MaxData, FileSize - ofs}) \in Nat
                               /\ ofs + Min({MaxData, FileSize - ofs}) <= FileSize
<1> USE FtpAssumption
<1>1. /\ Min({MaxData, size - ofs}) \in {MaxData, size - ofs}
      /\ Min({MaxData, FileSize - ofs}) \in {MaxData, FileSize - ofs}
      /\ Min({MaxData, FileSize - ofs}) <= FileSize - ofs
  BY MinOfPair
<1> QED BY <1>1

\* A request in the session, where the last reply got to, keeps the invariant.
LEMMA InSessionKeeps ==
  ASSUME NumbersSuffice, FtpInv, VehicleWaits, Running, cleanup = NotPending,
         NEW opcode \in {"read", "write"}, NEW size \in Nat,
         SendRequest(opcode, OurSession, offset', size),
         AsksFor(work, opcode), FirstSequence \in handled,
         fileSize' \in Nat, offset' \in 0..FileSize,
         Position(nextSeq) <= 2 * (offset' + 1), Position(nextSeq) <= 2 * (FileSize + 1),
         opcode = "read" => chunks' = FirstOf(offset'),
         opcode = "write" => offset' + size <= FileSize /\ 0..(offset' - 1) \subseteq written
  PROVE  FtpInv'
<1> USE FtpAssumption
<1> DEFINE request == NextRequest(opcode, OurSession, offset', size)
<1>1. Position(nextSeq) \in Nat /\ nextSeq \in Numbers /\ offset' \in Nat
  BY OutstandingIs
<1>2. /\ request.opcode = opcode /\ request.seq = nextSeq /\ request.ofs = offset' /\ request.size = size
      /\ request.session = OurSession /\ request = NextRequest(opcode, OurSession, offset', size)
  BY DEF NextRequest, Request, OurSession, NoSession
<1> HIDE DEF request
<1>3. IsRequest(request)
  BY <1>1, <1>2 DEF IsRequest, InSession, Opens
<1>4. ASSUME IsAwaited(request, OurSession) /\ (opened' <=> opened \/ OurSession # NoSession)
      PROVE  OutstandingIsNext'
  <2>1. /\ session' = OurSession /\ step' = request /\ cleanup' = NotPending
        /\ Position(nextSeq') = Position(nextSeq) + 2
    BY <1>4 DEF IsAwaited
  <2>2. Position(nextSeq') <= 2 * (offset' + 2)
    BY <1>1, <2>1
  <2>3. FirstOf(offset)' = FirstOf(offset')
    BY DEF FirstOf
  <2>4. written' = written
    BY DEF VehicleWaits
  <2> QED BY <1>2, <2>1, <2>2, <2>3, <2>4 DEF OutstandingIsNext
<1>5. Position(nextSeq) + 4 <= 2 * (FileSize + 3)
  BY <1>1
<1>6. work \in {"download", "upload"}
  BY DEF AsksFor
<1>7. phase # "settled" /\ OurSession # NoSession
  BY DEF Running, OurSession, NoSession
<1> QED BY <1>1, <1>2, <1>3, <1>4, <1>5, <1>6, <1>7, GoingOnKeeps

\* The session is there, and the first units are read.
LEMMA OpenedKeeps ==
  ASSUME NumbersSuffice, FtpInv, VehicleWaits, Running,
         NEW m, Answered(step, m), m.says = "ack", m.opcode = "open", OnOpened(m)
  PROVE  FtpInv'
<1> USE FtpAssumption
<1> DEFINE size == IF 0 < m.n THEN Min({MaxData, m.n - 0}) ELSE MaxData
<1>1. /\ step.opcode = "open" /\ m.session = OurSession /\ m.n \in Nat /\ step.seq \in handled
  BY DEF Answered, TellsTheTruth, Opens
<1>2. /\ IsRequest(step) /\ Position(nextSeq) = 2
  BY <1>1, OutstandingIs DEF Opens
<1>3. cleanup = NotPending
  BY <1>1, OutstandingIs
<1>4. AsksFor(work, "read") /\ FirstSequence \in handled
  BY <1>1, <1>2 DEF IsRequest, AsksFor, Opens
<1>5. fileSize' \in Nat /\ offset' = 0 /\ chunks' = <<>>
  BY <1>1 DEF OnOpened
<1>6. chunks' = FirstOf(offset')
  BY <1>5, FirstNone
<1>7. SendRequest("read", OurSession, offset', size)
  <2>1. SendRead(OurSession, m.n, 0)
    BY <1>1 DEF OnOpened
  <2>2. SendRequest("read", OurSession, 0, size)
    BY <2>1 DEF SendRead
  <2> QED BY <1>5, <2>2
<1>8. size \in Nat
  BY <1>1, SizesAre, 0 \in Nat
<1> HIDE DEF size
<1>9. /\ offset' \in 0..FileSize /\ Position(nextSeq) <= 2 * (offset' + 1)
      /\ Position(nextSeq) <= 2 * (FileSize + 1)
  BY <1>2, <1>5
<1> QED BY <1>3, <1>4, <1>5, <1>6, <1>7, <1>8, <1>9, InSessionKeeps

\* What is known when a reply in the session arrives.
LEMMA InSessionIs ==
  ASSUME FtpInv, Running, NEW m, Answered(step, m), m.says = "ack", m.opcode \in {"read", "write"}
  PROVE  /\ step.opcode = m.opcode /\ m.ofs = offset /\ m.file = OurFile
         /\ m.n \in Nat /\ m.n > 0 /\ offset + m.n <= FileSize
         /\ session = OurSession /\ cleanup = NotPending
         /\ offset \in Nat /\ Position(nextSeq) \in Nat /\ Position(nextSeq) <= 2 * (offset + 2)
         /\ AsksFor(work, m.opcode) /\ FirstSequence \in handled
         /\ m.opcode = "read" => chunks = FirstOf(offset)
         /\ m.opcode = "write" => /\ 0..(offset - 1) \subseteq written
                                  /\ offset..(offset + m.n - 1) \subseteq written
<1> USE FtpAssumption
<1>1. /\ step.opcode = m.opcode /\ m.ofs = step.ofs /\ m.file = OurFile
      /\ m.n \in Nat /\ m.n > 0 /\ m.ofs + m.n <= FileSize
      /\ m.opcode = "write" => m.ofs..(m.ofs + m.n - 1) \subseteq written
  BY DEF Answered, TellsTheTruth
<1>2. /\ session = OurSession /\ cleanup = NotPending /\ step.ofs = offset
      /\ Position(nextSeq) <= 2 * (offset + 2)
      /\ m.opcode = "read" => chunks = FirstOf(offset)
      /\ m.opcode = "write" => 0..(offset - 1) \subseteq written
  BY <1>1 DEF FtpInv, ConversationStands, OutstandingIsNext
<1>3. /\ IsRequest(step) /\ Position(nextSeq) \in Nat /\ offset \in Nat
  BY OutstandingIs DEF FtpInv
<1>4. AsksFor(work, m.opcode) /\ FirstSequence \in handled
  BY <1>1, <1>3 DEF IsRequest, InSession
<1> QED BY <1>1, <1>2, <1>3, <1>4

\* Units of the file, and the next.
LEMMA ReadsKeep ==
  ASSUME NumbersSuffice, FtpInv, VehicleWaits, Running,
         NEW m, Answered(step, m), m.says = "ack", m.opcode = "read", OnRead(m)
  PROVE  FtpInv'
<1> USE FtpAssumption
<1> DEFINE size == IF offset' < fileSize THEN Min({MaxData, fileSize - offset'}) ELSE MaxData
<1>1. /\ m.ofs = offset /\ m.file = OurFile /\ m.n \in Nat /\ m.n > 0 /\ offset + m.n <= FileSize
      /\ session = OurSession /\ cleanup = NotPending
      /\ offset \in Nat /\ Position(nextSeq) \in Nat /\ Position(nextSeq) <= 2 * (offset + 2)
      /\ AsksFor(work, "read") /\ FirstSequence \in handled /\ chunks = FirstOf(offset)
  BY InSessionIs
<1>2. offset' = offset + m.n /\ UNCHANGED fileSize /\ chunks' = chunks \o Content(m)
  BY DEF OnRead
<1>3. chunks' = FirstOf(offset')
  BY <1>1, <1>2, FirstGoOn
<1>4. fileSize' \in Nat
  BY <1>2 DEF FtpInv
<1>5. SendRequest("read", OurSession, offset', size)
  <2>1. SendRead(session, fileSize, offset')
    BY DEF OnRead
  <2> QED BY <1>1, <2>1 DEF SendRead
<1>6. /\ offset' \in 0..FileSize /\ Position(nextSeq) <= 2 * (offset' + 1)
      /\ Position(nextSeq) <= 2 * (FileSize + 1)
  BY <1>1, <1>2
<1>7. size \in Nat
  <2>1. fileSize \in Nat /\ offset' \in Nat
    BY <1>6 DEF FtpInv
  <2> QED BY <2>1, SizesAre
<1> HIDE DEF size
<1> QED BY <1>1, <1>3, <1>4, <1>5, <1>6, <1>7, InSessionKeeps

\* The file is there, and the first units are written; or it is empty, and done.
LEMMA CreatedKeeps ==
  ASSUME NumbersSuffice, FtpInv, VehicleWaits, Running,
         NEW m, Answered(step, m), m.says = "ack", m.opcode = "create", OnCreated(m)
  PROVE  FtpInv'
<1> USE FtpAssumption
<1>1. /\ step.opcode = "create" /\ m.session = OurSession /\ step.seq \in handled
  BY DEF Answered, TellsTheTruth, Opens
<1>2. /\ IsRequest(step) /\ Position(nextSeq) = 2 /\ cleanup = NotPending
  BY <1>1, OutstandingIs DEF Opens
<1>3. AsksFor(work, "write") /\ FirstSequence \in handled /\ work = "upload"
  BY <1>1, <1>2 DEF IsRequest, AsksFor, Opens
<1>4. fileSize' \in Nat /\ offset' = 0
  BY DEF OnCreated, FtpInv
<1>5. 0..(0 - 1) = {}
  OBVIOUS
<1>6. CASE FileSize = 0
  <2>1. SettleThen("succeeded", 0, OurSession) /\ opened' = TRUE
    BY <1>1, <1>6 DEF OnCreated
  <2>2. /\ Position(nextSeq) + 2 * 0 + 2 <= 2 * (FileSize + 3) /\ 0 \in {0, 1}
        /\ Position(nextSeq) + 2 * 0 + 2 < 65536
        /\ OurSession \in {NoSession, OurSession} /\ OurSession # NoSession
    BY <1>2 DEF OurSession, NoSession
  <2>3. EndsOrCloses("succeeded", 0, OurSession)
    BY <1>3, <2>1, <2>2, SettlingEnds
  <2>4. Transferred'
    <3>1. written = {} /\ written' = written /\ work' = work
      BY <1>3, <1>5, <1>6 DEF FtpInv, ServerIsSound, VehicleWaits
    <3> QED BY <1>3, <1>5, <1>6, <3>1 DEF Transferred
  <2>5. phase # "settled" /\ "succeeded" \notin {NotPending} /\ offset' \in 0..FileSize
    BY <1>4, <1>6 DEF Running, NotPending
  <2>6. opened' \in BOOLEAN
    BY <2>1
  <2> QED BY <1>4, <2>2, <2>3, <2>4, <2>5, <2>6, EndKeeps
<1>7. CASE FileSize # 0
  <2> DEFINE size == Min({MaxData, FileSize - 0})
  <2>1. SendRequest("write", OurSession, offset', size)
    <3>1. SendWrite(OurSession, 0)
      BY <1>1, <1>7 DEF OnCreated
    <3> QED BY <1>4, <3>1 DEF SendWrite
  <2>2. size \in Nat /\ 0 + size <= FileSize
    BY SizesAre, 0 \in Nat, 0 <= FileSize
  <2> HIDE DEF size
  <2>3. /\ offset' \in 0..FileSize /\ Position(nextSeq) <= 2 * (offset' + 1)
        /\ Position(nextSeq) <= 2 * (FileSize + 1)
        /\ offset' + size <= FileSize /\ 0..(offset' - 1) \subseteq written
    BY <1>2, <1>4, <1>5, <2>2
  <2> QED BY <1>2, <1>3, <1>4, <2>1, <2>2, <2>3, InSessionKeeps
<1> QED BY <1>6, <1>7

\* Units are written, and the next follow; or it was the last.
LEMMA WritesKeep ==
  ASSUME NumbersSuffice, FtpInv, VehicleWaits, Running,
         NEW m, Answered(step, m), m.says = "ack", m.opcode = "write", OnWritten(m)
  PROVE  FtpInv'
<1> USE FtpAssumption
<1>1. /\ m.n \in Nat /\ m.n > 0 /\ offset + m.n <= FileSize
      /\ session = OurSession /\ cleanup = NotPending
      /\ offset \in Nat /\ Position(nextSeq) \in Nat /\ Position(nextSeq) <= 2 * (offset + 2)
      /\ AsksFor(work, "write") /\ FirstSequence \in handled
      /\ 0..(offset - 1) \subseteq written /\ offset..(offset + m.n - 1) \subseteq written
  BY InSessionIs
<1>2. offset' = offset + m.n /\ UNCHANGED <<fileSize, chunks>>
  BY DEF OnWritten
<1>3. 0..(offset' - 1) \subseteq written
  <2> SUFFICES ASSUME NEW i \in 0..(offset' - 1)
               PROVE  i \in written
    OBVIOUS
  <2>1. i \in 0..(offset - 1) \/ i \in offset..(offset + m.n - 1)
    BY <1>1, <1>2
  <2> QED BY <1>1, <2>1
<1>4. offset' \in 0..FileSize /\ fileSize' \in Nat
  BY <1>1, <1>2 DEF FtpInv
<1>5. CASE offset' >= FileSize
  <2>1. SettleThen("succeeded", 0, session) /\ UNCHANGED opened
    BY <1>5 DEF OnWritten, Finish
  <2>2. work = "upload"
    BY <1>1 DEF AsksFor
  <2>3. written = 0..(FileSize - 1) /\ written' = written /\ work' = work
    <3>1. offset' = FileSize
      BY <1>4, <1>5
    <3>2. written \subseteq 0..(FileSize - 1) /\ written' = written /\ work' = work
      BY <2>2 DEF FtpInv, ServerIsSound, VehicleWaits
    <3> QED BY <1>3, <3>1, <3>2
  <2>4. Transferred'
    BY <2>2, <2>3 DEF Transferred
  <2>5. "succeeded" # NotPending /\ session # NoSession
    BY <1>1 DEF NotPending, OurSession, NoSession
  <2> QED BY <1>1, <1>2, <1>4, <2>1, <2>4, <2>5, SettlingKeeps
<1>6. CASE ~(offset' >= FileSize)
  <2> DEFINE size == Min({MaxData, FileSize - offset'})
  <2>1. SendRequest("write", OurSession, offset', size)
    BY <1>1, <1>6 DEF OnWritten, SendWrite
  <2>2. offset' \in Nat /\ offset' <= FileSize
    BY <1>4
  <2>3. size \in Nat /\ offset' + size <= FileSize
    BY <2>2, SizesAre
  <2> HIDE DEF size
  <2>4. Position(nextSeq) <= 2 * (offset' + 1) /\ Position(nextSeq) <= 2 * (FileSize + 1)
    BY <1>1, <1>2
  <2> QED BY <1>1, <1>3, <1>4, <2>1, <2>3, <2>4, InSessionKeeps
<1> QED BY <1>5, <1>6

\* The end of a listing or of a file is where the last page or read got to.
LEMMA EofKeeps ==
  ASSUME NumbersSuffice, FtpInv, VehicleWaits, Running,
         NEW m, Answered(step, m), m.says = "eof", m.opcode \in {"list", "read"},
         Finish, UNCHANGED contentVars
  PROVE  FtpInv'
<1> USE FtpAssumption
<1>1. step.opcode = m.opcode /\ m.ofs = step.ofs /\ m.ofs >= FileSize
  BY DEF Answered, TellsTheTruth
<1>2. /\ cleanup = NotPending /\ step.ofs = offset /\ chunks = FirstOf(offset)
      /\ m.opcode = "read" => session = OurSession
  BY <1>1 DEF FtpInv, ConversationStands, OutstandingIsNext
<1>3. offset \in 0..FileSize /\ AsksFor(work, m.opcode)
  BY <1>1, OutstandingIs DEF FtpInv, IsRequest
<1>4. offset = FileSize
  BY <1>1, <1>2, <1>3
<1>5. chunks = FirstOf(FileSize) /\ UNCHANGED <<chunks, offset, fileSize, work>>
  BY <1>2, <1>4 DEF contentVars, VehicleWaits
<1>6. work \in {"list", "download"} /\ (m.opcode = "list" => work = "list")
  BY <1>3 DEF AsksFor
<1>7. Transferred'
  <2>1. FirstOf(FileSize)' = FirstOf(FileSize)
    BY DEF FirstOf
  <2> QED BY <1>5, <1>6, <2>1 DEF Transferred
<1>8. SettleThen("succeeded", 0, session) /\ UNCHANGED opened /\ "succeeded" # NotPending
  BY DEF Finish, NotPending
<1>9. session = NoSession => work \in {"list", "create-directory"}
  BY <1>2, <1>6 DEF NoSession, OurSession
<1>10. offset' \in 0..FileSize /\ UNCHANGED <<fileSize, opened>>
  BY <1>3, <1>5, <1>8
<1> QED BY <1>2, <1>7, <1>8, <1>9, <1>10, SettlingKeeps

\* The directory is there.
LEMMA MadeKeeps ==
  ASSUME NumbersSuffice, FtpInv, VehicleWaits, Running,
         NEW m, Answered(step, m), m.says = "ack", m.opcode = "make-directory",
         Finish, UNCHANGED contentVars
  PROVE  FtpInv'
<1>1. step.opcode = "make-directory" /\ written = {0}
  BY DEF Answered, TellsTheTruth
<1>2. cleanup = NotPending /\ offset \in 0..FileSize /\ AsksFor(work, "make-directory")
  BY <1>1, OutstandingIs DEF FtpInv, IsRequest
<1>3. work = "create-directory" /\ UNCHANGED <<work, written, offset, fileSize>>
  BY <1>2 DEF AsksFor, VehicleWaits, contentVars
<1>4. Transferred'
  BY <1>1, <1>3 DEF Transferred
<1>5. SettleThen("succeeded", 0, session) /\ UNCHANGED opened /\ "succeeded" # NotPending
  BY DEF Finish, NotPending
<1> QED BY <1>2, <1>3, <1>4, <1>5, SettlingKeeps

\* Whatever reply arrives, the conversation keeps its invariant.
LEMMA HearingKeeps ==
  ASSUME NumbersSuffice, FtpInv, VehicleWaits, FtpHears
  PROVE  FtpInv'
<1>1. PICK m \in down : /\ ResponseMatches(m)
                        /\ \/ m.says = "ack" /\ OnAck(m)
                           \/ m.says = "malformed" /\ Fail("protocol-error")
                           \/ m.says \in Refusals /\ OnNak(m)
  BY DEF FtpHears
<1>2. Running
  BY DEF FtpHears
<1>3. Answered(step, m)
  BY <1>1, <1>2, HeardIs
<1>4. CASE m.says = "ack" /\ OnAck(m)
  <2>1. ASSUME m.opcode = "terminate", CleanupEnds(cleanup), UNCHANGED <<contentVars, opened>>
        PROVE  FtpInv'
    <3>1. step.opcode = "terminate" /\ served = NoSession
      BY <1>3, <1>4, <2>1 DEF Answered, TellsTheTruth
    <3>2. cleanup # NotPending
      BY <1>2, <3>1 DEF FtpInv, ConversationStands, OutstandingIsNext
    <3> QED BY <1>2, <2>1, <3>1, <3>2, CleanupKeeps
  <2> QED BY <1>2, <1>3, <1>4, <2>1, PageKeeps, OpenedKeeps, ReadsKeep, CreatedKeeps, WritesKeep, MadeKeeps
          DEF OnAck
<1>5. CASE m.says = "malformed" /\ Fail("protocol-error")
  <2>1. "protocol-error" \notin {"succeeded", NotPending}
    BY DEF NotPending
  <2> QED BY <1>2, <1>5, <2>1, FailKeeps
<1>6. CASE m.says \in Refusals /\ OnNak(m)
  <2>1. "refused" \notin {"succeeded", NotPending}
    BY DEF NotPending
  <2> QED BY <1>2, <1>3, <1>6, <2>1, FailKeeps, EofKeeps DEF OnNak
<1> QED BY <1>1, <1>4, <1>5, <1>6

\* Unanswered, the request goes out again or the conversation fails.
LEMMA TimingOutKeeps ==
  ASSUME NumbersSuffice, FtpInv, VehicleWaits, FtpTimesOut
  PROVE  FtpInv'
<1>1. Running
  BY DEF FtpTimesOut, TimedOut
<1>2. CASE Transmit(step, Unarmed) /\ UNCHANGED <<step, conversationVars>>
  <2>1. up' = up
    BY <1>1, <1>2, OutstandingIs DEF Transmit
  <2>2. FtpStill
    BY <1>1, <1>2, <2>1 DEF Transmit, Running, FtpStill, conversationVars, VehicleWaits
  <2> QED BY <2>2, StillKeeps
<1>3. CASE Fail("send-failed") \/ Fail("timed-out")
  <2>1. "send-failed" \notin {"succeeded", NotPending} /\ "timed-out" \notin {"succeeded", NotPending}
    BY DEF NotPending
  <2> QED BY <1>1, <1>3, <2>1, FailKeeps
<1> QED BY <1>2, <1>3 DEF FtpTimesOut

\* A cancel asks for the session to be terminated and waits for nothing.
LEMMA CancellingKeeps ==
  ASSUME NumbersSuffice, FtpInv, VehicleWaits, FtpCancelled
  PROVE  FtpInv'
<1> DEFINE request == Request("terminate", session, 0, 0, nextSeq)
<1>1. /\ Running /\ phase' = "settled" /\ outcome' = "cancelled" /\ cleanup' = NotPending
      /\ session' = NoSession /\ UNCHANGED <<fileSize, offset, chunks, opened>>
  BY DEF FtpCancelled, Settle, contentVars
<1>2. /\ nextSeq \in Numbers /\ Position(nextSeq) \in Nat /\ Position(nextSeq) <= 2 * (FileSize + 3)
      /\ session \in {NoSession, OurSession}
      /\ session = OurSession => work \in {"download", "upload"} /\ FirstSequence \in handled
  BY <1>1, OutstandingIs
<1>3. /\ request.opcode = "terminate" /\ request.seq = nextSeq /\ request.ofs = 0 /\ request.size = 0
      /\ request.session = session
  BY DEF Request
<1>4. session = OurSession => IsRequest(request)
  BY <1>2, <1>3 DEF IsRequest, AsksFor, Opens, InSession
<1> HIDE DEF request
<1>5. CASE session # NoSession
  <2>1. Position(nextSeq) + 2 * 1 < 65536 /\ 1 \in Nat
    <3>1. FileSize + 3 < 32768
      BY DEF NumbersSuffice
    <3>2. cleanup = NotPending
      BY <1>1, <1>5, OutstandingIs
    <3>3. Position(nextSeq) <= 2 * (offset + 2) /\ offset \in 0..FileSize
      BY <1>1, <3>2, OutstandingIs DEF FtpInv
    <3> QED BY <1>2, <3>1, <3>3, FtpAssumption
  <2>2. nextSeq' \in Numbers /\ Position(nextSeq') = Position(nextSeq) + 2
    BY <1>2, <1>5, <2>1, LaterMovesOn DEF FtpCancelled
  <2>3. \/ up' = up \cup {request}
        \/ untold' = TRUE /\ UNCHANGED up
    BY <1>5 DEF FtpCancelled, request
  <2>4. IsRequest(request)
    BY <1>2, <1>4, <1>5
  <2>5. RequestsAreNumbered' /\ RepliesAreTrue' /\ ServerIsSound'
    BY <1>2, <1>3, <2>2, <2>3, <2>4, RequestsKeep
  <2>6. untold' \in BOOLEAN /\ SessionsAreTold'
    BY <1>1, <1>3, <1>5, <2>3 DEF FtpCancelled, FtpInv, SessionsAreTold
  <2> QED BY <1>1, <2>5, <2>6 DEF FtpInv, OutcomesComeLast, Running, EndIsTrue, VehicleWaits
<1>6. CASE session = NoSession
  <2>1. UNCHANGED <<up, nextSeq, untold>>
    BY <1>6 DEF FtpCancelled
  <2>2. RequestsAreNumbered' /\ RepliesAreTrue' /\ ServerIsSound'
    BY <1>2, <2>1, RequestsKeep
  <2>3. SessionsAreTold'
    BY <1>1, <1>6, <2>1 DEF FtpInv, SessionsAreTold
  <2> QED BY <1>1, <2>1, <2>2, <2>3 DEF FtpInv, OutcomesComeLast, Running, EndIsTrue, VehicleWaits
<1> QED BY <1>5, <1>6

-----------------------------------------------------------------------------
(* Conversations about files: steps of the vehicle *)

\* What the machine keeps while the vehicle answers.
MachineWaits ==
  UNCHANGED <<phase, outcome, step, up, work, nextSeq, session, fileSize, offset, chunks,
              cleanup, opened, untold>>

\* What is said of a session and of what was written stays so.
ServerGoesOn ==
  /\ served' \in {NoSession, OurSession} /\ (work \in {"list", "create-directory"} => served' = NoSession)
  /\ work = "upload" => written' \subseteq 0..(FileSize - 1)
  /\ work = "create-directory" => written' \in {written, {0}}
  /\ FirstSequence \in handled => /\ served' \in {served, NoSession}
                                  /\ work = "upload" => written \subseteq written'
  /\ work = "download" => written' = written

\* A request is executed for the first time and answered with the truth, or the
\* vehicle forgets its session.
LEMMA ServingKeeps ==
  ASSUME FtpInv, MachineWaits, ServerGoesOn,
         \/ /\ handled' = handled /\ down' = down
         \/ \E r \in up : \E m :
              /\ handled' = handled \cup {r.seq} /\ down' = down \cup {m}
              /\ m.seq = (r.seq + 1) % SeqSpace /\ m.opcode = r.opcode /\ m.ofs = r.ofs
              /\ TellsTheTruth(m)'
  PROVE  FtpInv'
<1> USE FtpAssumption
<1>1. /\ UNCHANGED <<phase, outcome, step, up, work, nextSeq, session, fileSize, offset, chunks,
                     cleanup, opened, untold>>
      /\ handled \subseteq handled'
  BY DEF MachineWaits
<1>2. \A r \in up : IsRequest(r)'
  BY <1>1 DEF FtpInv, RequestsAreNumbered, IsRequest
<1>3. RequestsAreNumbered'
  BY <1>1, <1>2 DEF FtpInv, RequestsAreNumbered
<1>4. ServerIsSound'
  BY <1>1 DEF ServerGoesOn, ServerIsSound
<1>5. ASSUME NEW r \in up, NEW m, Answered(r, m)
      PROVE  Answered(r, m)'
  <2>1. IsRequest(r) /\ r.opcode = m.opcode /\ TellsTheTruth(m) /\ r.seq \in handled'
    BY <1>1, <1>5 DEF Answered, FtpInv, RequestsAreNumbered
  <2>2. m.opcode \in InSession => FirstSequence \in handled
    BY <2>1 DEF IsRequest
  <2>3. m.opcode = "terminate" /\ served = NoSession => served' = NoSession
    BY <2>2 DEF InSession, ServerGoesOn
  <2>4. m.opcode = "write" => written \subseteq written'
    <3>1. m.opcode = "write" => work = "upload"
      BY <2>1 DEF IsRequest, AsksFor
    <3> QED BY <2>2, <3>1 DEF InSession, ServerGoesOn
  <2>5. m.opcode = "make-directory" /\ written = {0} => written' = {0}
    <3>1. m.opcode = "make-directory" => work = "create-directory"
      BY <2>1 DEF IsRequest, AsksFor
    <3> QED BY <3>1 DEF ServerGoesOn
  <2>6. TellsTheTruth(m)'
    BY <2>1, <2>3, <2>4, <2>5 DEF TellsTheTruth
  <2> QED BY <1>5, <2>1, <2>6 DEF Answered
<1>6. RepliesAreTrue'
  <2>1. CASE handled' = handled /\ down' = down
    BY <1>1, <1>5, <2>1 DEF FtpInv, RepliesAreTrue
  <2>2. ASSUME NEW r \in up, NEW m, handled' = handled \cup {r.seq}, down' = down \cup {m},
               m.seq = (r.seq + 1) % SeqSpace, m.opcode = r.opcode, m.ofs = r.ofs, TellsTheTruth(m)'
        PROVE  RepliesAreTrue'
    <3>1. Answered(r, m)'
      BY <2>2 DEF Answered
    <3> QED BY <1>1, <1>5, <2>2, <3>1 DEF FtpInv, RepliesAreTrue
  <2> QED BY <2>1, <2>2
<1>7. Transferred /\ (work \in {"download", "upload"} => FirstSequence \in handled) => Transferred'
  <2>1. work = "upload" /\ written = 0..(FileSize - 1) /\ FirstSequence \in handled
          => written' = 0..(FileSize - 1)
    BY DEF ServerGoesOn
  <2>2. work = "create-directory" /\ written = {0} => written' = {0}
    BY DEF ServerGoesOn
  <2>3. UNCHANGED <<work, chunks>> /\ FirstOf(FileSize)' = FirstOf(FileSize)
    BY <1>1 DEF FirstOf
  <2> QED BY <2>1, <2>2, <2>3 DEF Transferred
<1>8. ASSUME Running
      PROVE  ConversationStands'
  <2>1. IsRequest(step) /\ ConversationStands
    BY <1>8, OutstandingIs DEF FtpInv
  <2>2. step.opcode \in InSession => FirstSequence \in handled
    BY <2>1 DEF IsRequest
  <2>3. step.opcode = "write" => written \subseteq written'
    <3>1. step.opcode = "write" => work = "upload"
      BY <2>1 DEF IsRequest, AsksFor
    <3> QED BY <2>2, <3>1 DEF InSession, ServerGoesOn
  <2>4. FirstOf(offset)' = FirstOf(offset)
    BY <1>1 DEF FirstOf
  <2>5. Transferred /\ step.opcode = "terminate" => Transferred'
    BY <1>7, <2>2 DEF InSession
  <2>6. OutstandingIsNext'
    BY <1>1, <2>1, <2>3, <2>4, <2>5 DEF ConversationStands, OutstandingIsNext
  <2> QED BY <1>1, <2>1, <2>6 DEF ConversationStands
<1>9. EndIsTrue'
  <2>1. ASSUME outcome = "succeeded"
        PROVE  served' = NoSession
    <3>1. served = NoSession /\ (work \in {"download", "upload"} => FirstSequence \in handled)
      BY <2>1 DEF FtpInv, EndIsTrue
    <3>2. work \in {"list", "create-directory"} \/ work \in {"download", "upload"}
      BY DEF FtpInv, FtpWorks
    <3> QED BY <3>1, <3>2 DEF ServerGoesOn
  <2> QED BY <1>1, <1>7, <2>1 DEF FtpInv, EndIsTrue
<1>10. NothingYet' <=> NothingYet
  BY <1>1 DEF NothingYet
<1>11. SessionsAreTold'
  BY <1>1 DEF FtpInv, SessionsAreTold
<1> HIDE DEF MachineWaits
<1> QED BY <1>1, <1>3, <1>4, <1>6, <1>8, <1>9, <1>10, <1>11 DEF FtpInv, OutcomesComeLast, Running

\* A vehicle that leaves alone what it has goes on.
LEMMA ServerStays ==
  ASSUME FtpInv, UNCHANGED <<served, written>>
  PROVE  ServerGoesOn
BY DEF FtpInv, ServerIsSound, ServerGoesOn

\* What a reply consists of.
LEMMA ReplyIs ==
  ASSUME NEW request, NEW of, NEW says, NEW file, NEW n
  PROVE  LET m == Reply(request, of, says, file, n) IN
           /\ m.seq = (request.seq + 1) % SeqSpace /\ m.opcode = request.opcode /\ m.session = of
           /\ m.ofs = request.ofs /\ m.says = says /\ m.file = file /\ m.n = n
BY DEF Reply

\* A request that is executed and answered with the truth keeps the invariant.
LEMMA AnsweringKeeps ==
  ASSUME FtpInv, ServerGoesOn, NEW r \in up, NEW of, NEW says, NEW n,
         Executes(r, Reply(r, of, says, OurFile, n)),
         NEW m, m = Reply(r, of, says, OurFile, n),
         m.seq = (r.seq + 1) % SeqSpace /\ m.opcode = r.opcode /\ m.session = of
         /\ m.ofs = r.ofs /\ m.says = says /\ m.file = OurFile /\ m.n = n
           => TellsTheTruth(m)'
  PROVE  FtpInv'
<1>1. /\ handled' = handled \cup {r.seq} /\ down' = down \cup {m}
      /\ UNCHANGED <<transferVars, work, conversationVars>>
  BY DEF Executes, Answers, Says
<1>2. MachineWaits
  BY <1>1 DEF MachineWaits, transferVars, stepVars, conversationVars
<1>3. TellsTheTruth(m)' /\ m.seq = (r.seq + 1) % SeqSpace /\ m.opcode = r.opcode /\ m.ofs = r.ofs
  BY ReplyIs
<1> QED BY <1>1, <1>2, <1>3, ServingKeeps

\* What a request asks for tells what the conversation is, and when it was sent.
LEMMA AskedIs ==
  ASSUME FtpInv, NEW r \in up
  PROVE  /\ IsRequest(r) /\ AsksFor(work, r.opcode) /\ r.ofs \in Nat /\ r.size \in Nat
         /\ r.opcode \in Opens => r.seq = FirstSequence
         /\ r.opcode \in InSession => r.session = OurSession /\ FirstSequence \in handled
         /\ r.opcode = "write" => r.ofs + r.size <= FileSize
BY DEF FtpInv, RequestsAreNumbered, IsRequest

\* Refusing says nothing of what the vehicle has.
LEMMA RefusingKeeps ==
  ASSUME FtpInv, VehicleRefuses
  PROVE  FtpInv'
<1>1. PICK r \in up, says \in {"refused", "malformed"} : Executes(r, Reply(r, r.session, says, OurFile, 0))
  BY DEF VehicleRefuses
<1>2. ServerGoesOn
  BY ServerStays DEF VehicleRefuses
<1>3. ASSUME NEW m, m.says = says, m.file = OurFile
      PROVE  TellsTheTruth(m)'
  BY <1>3 DEF TellsTheTruth, Refusals
<1> QED BY <1>1, <1>2, <1>3, AnsweringKeeps

\* A page, or units, from where it was asked for and within what there is.
LEMMA PartIs ==
  ASSUME NEW ofs \in Nat, NEW most \in Nat, NEW n \in 1..Min({most, FileSize - ofs})
  PROVE  n \in Nat /\ n > 0 /\ ofs + n <= FileSize
<1> USE FtpAssumption
<1>1. /\ Min({most, FileSize - ofs}) <= FileSize - ofs
      /\ Min({most, FileSize - ofs}) \in {most, FileSize - ofs}
  BY MinOfPair
<1> QED BY <1>1

\* Listing and reading tell what is there, and that there is no more.
LEMMA TellingKeeps ==
  ASSUME FtpInv, UNCHANGED <<served, written>>,
         NEW r \in up, r.opcode \in {"list", "read"}, NEW most \in Nat,
         \/ \E n \in 1..Min({most, FileSize - r.ofs}) : Executes(r, Acks(r, n))
         \/ r.ofs >= FileSize /\ Executes(r, Reply(r, r.session, "eof", OurFile, 0))
  PROVE  FtpInv'
<1>1. ServerGoesOn
  BY ServerStays
<1>2. r.ofs \in Nat
  BY AskedIs
<1>3. ASSUME NEW n \in 1..Min({most, FileSize - r.ofs}), Executes(r, Acks(r, n))
      PROVE  FtpInv'
  <2>1. n \in Nat /\ n > 0 /\ r.ofs + n <= FileSize
    BY <1>2, PartIs
  <2>2. ASSUME NEW m, m.opcode = r.opcode, m.ofs = r.ofs, m.says = "ack", m.file = OurFile, m.n = n
        PROVE  TellsTheTruth(m)'
    BY <2>1, <2>2 DEF TellsTheTruth, Opens
  <2> QED BY <1>1, <1>3, <2>2, AnsweringKeeps DEF Acks
<1>4. ASSUME r.ofs >= FileSize, Executes(r, Reply(r, r.session, "eof", OurFile, 0))
      PROVE  FtpInv'
  <2>1. ASSUME NEW m, m.opcode = r.opcode, m.ofs = r.ofs, m.says = "eof", m.file = OurFile
        PROVE  TellsTheTruth(m)'
    BY <1>4, <2>1 DEF TellsTheTruth, Refusals
  <2> QED BY <1>1, <1>4, <2>1, AnsweringKeeps
<1> QED BY <1>3, <1>4

\* A listing is a part of what there is.
LEMMA ListingKeeps ==
  ASSUME FtpInv, VehicleLists
  PROVE  FtpInv'
<1>1. PICK r \in Asked("list") :
        \/ \E n \in 1..Min({MaxData, FileSize - r.ofs}) : Executes(r, Acks(r, n))
        \/ r.ofs >= FileSize /\ Executes(r, Reply(r, r.session, "eof", OurFile, 0))
  BY DEF VehicleLists
<1>2. r \in up /\ r.opcode = "list" /\ MaxData \in Nat /\ UNCHANGED <<served, written>>
  BY FtpAssumption DEF Asked, VehicleLists
<1> QED BY <1>1, <1>2, TellingKeeps

\* So is a read.
LEMMA ReadingKeeps ==
  ASSUME FtpInv, VehicleReads
  PROVE  FtpInv'
<1>1. PICK r \in Asked("read") :
        \/ \E n \in 1..Min({r.size, FileSize - r.ofs}) : Executes(r, Acks(r, n))
        \/ r.ofs >= FileSize /\ Executes(r, Reply(r, r.session, "eof", OurFile, 0))
  BY DEF VehicleReads
<1>2. r \in up /\ r.opcode = "read" /\ UNCHANGED <<served, written>>
  BY DEF Asked, VehicleReads
<1>3. r.size \in Nat
  BY <1>2, AskedIs
<1> QED BY <1>1, <1>2, <1>3, TellingKeeps

\* Opening and creating are executed before anything is asked in the session.
LEMMA OpeningKeeps ==
  ASSUME FtpInv, VehicleOpens \/ VehicleCreates
  PROVE  FtpInv'
<1>1. PICK r \in up, n \in Nat :
        /\ r.opcode \in Opens /\ r.seq \notin handled
        /\ Executes(r, Reply(r, OurSession, "ack", OurFile, n))
        /\ served' = OurSession /\ (r.opcode = "open" => written' = written)
        /\ (r.opcode = "create" => written' = {})
  <2>1. CASE VehicleOpens
    <3>1. \A size \in {0, FileSize, FileSize + 1} : size \in Nat
      BY FtpAssumption
    <3> QED BY <2>1, <3>1 DEF VehicleOpens, Asked, Opens
  <2>2. CASE VehicleCreates
    BY <2>2, 0 \in Nat DEF VehicleCreates, Asked, Opens
  <2> QED BY <2>1, <2>2
<1>2. AsksFor(work, r.opcode) /\ FirstSequence \notin handled
  BY <1>1, AskedIs
<1>3. \/ r.opcode = "open" /\ work = "download"
      \/ r.opcode = "create" /\ work = "upload"
  <2>1. r.opcode = "open" \/ r.opcode = "create"
    BY <1>1 DEF Opens
  <2> QED BY <1>2, <2>1 DEF AsksFor
<1>4. ServerGoesOn
  BY <1>1, <1>2, <1>3 DEF ServerGoesOn
<1>5. ASSUME NEW m, m.opcode = r.opcode, m.says = "ack", m.file = OurFile, m.n = n, m.session = OurSession
      PROVE  TellsTheTruth(m)'
  BY <1>1, <1>3, <1>5 DEF TellsTheTruth
<1> QED BY <1>1, <1>4, <1>5, AnsweringKeeps

\* Writing adds what was sent.
LEMMA WritingKeeps ==
  ASSUME FtpInv, VehicleWrites
  PROVE  FtpInv'
<1> USE FtpAssumption
<1>1. PICK r \in Asked("write") :
        \E n \in 1..r.size : Executes(r, Acks(r, n)) /\ written' = written \cup r.ofs..(r.ofs + n - 1)
  BY DEF VehicleWrites
<1>2. PICK n \in 1..r.size : Executes(r, Acks(r, n)) /\ written' = written \cup r.ofs..(r.ofs + n - 1)
  BY <1>1
<1>3. r \in up /\ r.opcode = "write" /\ served' = served
  BY <1>1 DEF Asked, VehicleWrites
<1>4. r.ofs \in Nat /\ r.size \in Nat /\ r.ofs + r.size <= FileSize /\ AsksFor(work, "write")
  BY <1>3, AskedIs
<1>5. n \in Nat /\ n > 0 /\ r.ofs + n <= FileSize /\ work = "upload"
  BY <1>2, <1>4 DEF AsksFor
<1>6. r.ofs..(r.ofs + n - 1) \subseteq 0..(FileSize - 1)
  BY <1>4, <1>5
<1>7. ServerGoesOn
  BY <1>2, <1>3, <1>5, <1>6 DEF FtpInv, ServerIsSound, ServerGoesOn
<1>8. ASSUME NEW m, m.opcode = r.opcode, m.ofs = r.ofs, m.says = "ack", m.file = OurFile, m.n = n
      PROVE  TellsTheTruth(m)'
  BY <1>2, <1>3, <1>5, <1>8 DEF TellsTheTruth, Opens
<1> QED BY <1>2, <1>3, <1>7, <1>8, AnsweringKeeps DEF Acks

\* A directory is made.
LEMMA MakingKeeps ==
  ASSUME FtpInv, VehicleMakesDirectory
  PROVE  FtpInv'
<1>1. PICK r \in Asked("make-directory") : Executes(r, Acks(r, 0))
  BY DEF VehicleMakesDirectory
<1>2. r \in up /\ r.opcode = "make-directory" /\ served' = served /\ written' = {0}
  BY DEF Asked, VehicleMakesDirectory
<1>3. work = "create-directory"
  BY <1>2, AskedIs DEF AsksFor
<1>4. ServerGoesOn
  BY <1>2, <1>3 DEF FtpInv, ServerIsSound, ServerGoesOn
<1>5. ASSUME NEW m, m.opcode = r.opcode, m.says = "ack", m.file = OurFile, m.n = 0
      PROVE  TellsTheTruth(m)'
  BY <1>2, <1>5 DEF TellsTheTruth, Opens
<1> QED BY <1>1, <1>2, <1>4, <1>5, AnsweringKeeps DEF Acks

\* A session is terminated.
LEMMA TerminatingKeeps ==
  ASSUME FtpInv, VehicleTerminates
  PROVE  FtpInv'
<1>1. PICK r \in Asked("terminate") : Executes(r, Acks(r, 0))
  BY DEF VehicleTerminates
<1>2. r \in up /\ r.opcode = "terminate" /\ served' = NoSession /\ written' = written
  BY DEF Asked, VehicleTerminates
<1>3. ServerGoesOn
  BY <1>2 DEF FtpInv, ServerIsSound, ServerGoesOn
<1>4. ASSUME NEW m, m.opcode = r.opcode, m.says = "ack", m.file = OurFile, m.n = 0
      PROVE  TellsTheTruth(m)'
  BY <1>2, <1>4 DEF TellsTheTruth, Opens
<1> QED BY <1>1, <1>2, <1>3, <1>4, AnsweringKeeps DEF Acks

\* A session is forgotten.
LEMMA ForgettingKeeps ==
  ASSUME FtpInv, VehicleForgets
  PROVE  FtpInv'
<1>1. /\ served' = NoSession /\ written' = written /\ handled' = handled /\ down' = down
      /\ MachineWaits
  BY DEF VehicleForgets, MachineWaits, transferVars, stepVars, linkVars, conversationVars
<1>2. ServerGoesOn
  BY <1>1 DEF FtpInv, ServerIsSound, ServerGoesOn
<1> QED BY <1>1, <1>2, ServingKeeps

\* A conversation's steps, and the vehicle's, keep the invariant.
LEMMA FtpKeeps ==
  ASSUME NumbersSuffice, FtpInv,
         \/ FtpNext
         \/ FtpTimesOut
         \/ Tick /\ UNCHANGED ftpVars
         \/ UNCHANGED <<transferVars, linkVars, ftpVars>>
  PROVE  FtpInv'
<1>1. CASE FtpStarts \/ FtpHears \/ FtpTimesOut \/ FtpCancelled
  <2>1. VehicleWaits
    BY <1>1 DEF FtpStarts, FtpHears, FtpTimesOut, FtpCancelled, linkVars, serverVars, VehicleWaits
  <2> QED BY <1>1, <2>1, StartKeeps, HearingKeeps, TimingOutKeeps, CancellingKeeps
<1>2. CASE (Tick /\ UNCHANGED ftpVars) \/ UNCHANGED <<transferVars, linkVars, ftpVars>>
  <2>1. FtpStill
    BY <1>2 DEF Tick, ftpVars, transferVars, stepVars, linkVars, conversationVars, serverVars, FtpStill
  <2> QED BY <2>1, StillKeeps
<1> QED BY <1>1, <1>2, RefusingKeeps, ListingKeeps, OpeningKeeps, ReadingKeeps, WritingKeeps,
          MakingKeeps, TerminatingKeeps, ForgettingKeeps DEF FtpNext

-----------------------------------------------------------------------------
(* How long a transfer waits *)

\* What n budgets come to, and what r retries that are spent leave of one.
Budgets(n) == n * Budget
Left(r) == (MaxRetries - r) * StepTimeout

\* Budgets add up, and more of them last longer.
LEMMA BudgetsAre ==
  /\ Budget \in Nat \ {0} /\ Budgets(0) = 0
  /\ \A n \in Nat : Budgets(n) \in Nat /\ Budgets(n + 1) = Budgets(n) + Budget
  /\ \A m, n \in Nat : m <= n => Budgets(m) <= Budgets(n)
<1> USE BudgetAssumption
<1>1. Budget \in Nat \ {0}
  <2>1. StepTimeout \in Nat /\ MaxRetries + 1 \in Nat /\ StepTimeout > 0 /\ MaxRetries + 1 > 0
    OBVIOUS
  <2> QED BY <2>1 DEF Budget
<1>2. \A b \in Nat : /\ 0 * b = 0
                     /\ \A n \in Nat : n * b \in Nat /\ (n + 1) * b = n * b + b
                     /\ \A m, n \in Nat : m <= n => m * b <= n * b
  OBVIOUS
<1> HIDE DEF Budget
<1> QED BY <1>1, <1>2 DEF Budgets

\* Each retry takes one timeout of what is left.
LEMMA LeftIs ==
  /\ \A r \in 0..MaxRetries : Left(r) \in Nat
  /\ Left(0) + StepTimeout = Budget
  /\ \A r \in 0..MaxRetries : r < MaxRetries => Left(r + 1) + StepTimeout = Left(r)
<1> USE BudgetAssumption
<1>1. \A m, t \in Nat : /\ \A r \in 0..m : (m - r) * t \in Nat
                        /\ (m - 0) * t + t = t * (m + 1)
                        /\ \A r \in 0..m : r < m => (m - (r + 1)) * t + t = (m - r) * t
  OBVIOUS
<1> QED BY <1>1 DEF Left, Budget

\* A transfer that is not over by limit waits under a timer, and so long that
\* its retries end with limit.
Waits(limit) ==
  /\ phase \in {"idle", "running", "settled"}
  /\ phase = "settled" <=> outcome # "none"
  /\ stepRetries \in 0..MaxRetries
  /\ deadline = Unarmed /\ now \in Nat /\ refused \in BOOLEAN
  /\ ~Running => timer = Unarmed
  /\ Running => timer \in Nat /\ now <= timer /\ timer + Left(stepRetries) <= limit
  /\ now <= limit

\* The same after a step.
WaitsThen(limit) ==
  /\ phase' \in {"idle", "running", "settled"}
  /\ phase' = "settled" <=> outcome' # "none"
  /\ stepRetries' \in 0..MaxRetries
  /\ deadline' = Unarmed /\ now' \in Nat /\ refused' \in BOOLEAN
  /\ phase' # "running" => timer' = Unarmed
  /\ phase' = "running" => timer' \in Nat /\ now' <= timer' /\ timer' + Left(stepRetries') <= limit
  /\ now' <= limit

\* What a step does to the wait: a budget begins anew, a retry is spent, it is
\* over, time passes, or nothing.
Begins ==
  /\ phase' = "running" /\ outcome' = outcome /\ stepRetries' = 0
  /\ timer' = now + StepTimeout /\ deadline' = Unarmed /\ now' = now
\* A retry of what is awaited takes a timeout of its budget.
Spends ==
  /\ TimedOut /\ Retries
  /\ phase' = "running" /\ outcome' = outcome
  /\ timer' = now + StepTimeout /\ deadline' = Unarmed /\ now' = now
\* The transfer is over, and its timer with it.
Ends ==
  /\ phase' = "settled" /\ outcome' # "none" /\ stepRetries' \in 0..MaxRetries
  /\ timer' = Unarmed /\ deadline' = Unarmed /\ now' = now
\* Nothing is asked, and no time passes.
Still == UNCHANGED <<phase, outcome, stepRetries, timer, deadline, now>>

\* A budget that begins anew is one more; whatever else happens takes no longer.
LEMMA WaitsGoOn ==
  ASSUME NEW l \in Nat, NEW k \in Nat, Waits(l), l <= k, refused' \in BOOLEAN,
         \/ Begins /\ phase # "settled" /\ l + Budget <= k
         \/ Spends
         \/ Ends
         \/ Tick
         \/ Still
  PROVE  WaitsThen(k)
<1> USE BudgetAssumption, LeftIs DEF Waits, WaitsThen, Running
<1>1. CASE Begins /\ phase # "settled" /\ l + Budget <= k
  BY <1>1 DEF Begins, Unarmed
<1>2. CASE Spends
  BY <1>2 DEF Spends, TimedOut, Retries, Unarmed
<1>3. CASE Ends
  BY <1>3 DEF Ends
<1>4. CASE Tick
  BY <1>4 DEF Tick, Due, transferVars, stepVars, Unarmed
<1>5. CASE Still
  BY <1>5 DEF Still
<1> QED BY <1>1, <1>2, <1>3, <1>4, <1>5

\* Who waits under limits has the types and the timers of a transfer.
LEMMA WaitsIsTyped ==
  ASSUME NEW l \in Nat, Waits(l)
  PROVE  TransferTypeOK /\ TimersFollowThePhase
BY DEF Waits, TransferTypeOK, TimersFollowThePhase, Running, Unarmed

-----------------------------------------------------------------------------
(* Uploads end *)

UploadEnds ==
  /\ TransferTypeOK /\ UploadTypeOK
  /\ TimersFollowThePhase /\ DeadlineIsArmed
  /\ phase = "idle" => now = 0
  /\ Running => step \in UploadFrames /\ now <= deadline /\ deadline <= Budgets(Cardinality(answered) + 1)
  /\ now <= Budgets(UploadCount + 1)
  /\ \A m \in down : m.kind = "request" => m.form \in Forms

\* There are as many declared sequences as the upload declares.
LEMMA DeclaredAreCounted == IsFiniteSet(UploadSeqs) /\ Cardinality(UploadSeqs) = UploadCount
<1> USE UploadAssumption
<1>1. CASE UploadCount = 0
  <2>1. UploadSeqs = {}
    BY <1>1 DEF UploadSeqs
  <2> QED BY <1>1, <2>1, FS_EmptySet
<1>2. CASE UploadCount # 0
  BY <1>2, FS_Interval, 0 \in Int, UploadCount - 1 \in Int DEF UploadSeqs
<1> QED BY <1>1, <1>2

\* No more are answered than were declared, and one that was not is one more.
LEMMA AnsweredAreCounted ==
  ASSUME answered \subseteq UploadSeqs
  PROVE  /\ IsFiniteSet(answered) /\ Cardinality(answered) \in 0..UploadCount
         /\ \A seq : Cardinality(answered \cup {seq}) = IF seq \in answered THEN Cardinality(answered)
                                                        ELSE Cardinality(answered) + 1
<1> USE UploadAssumption
<1>1. IsFiniteSet(UploadSeqs) /\ Cardinality(UploadSeqs) = UploadCount
  BY DeclaredAreCounted
<1>2. IsFiniteSet(answered) /\ Cardinality(answered) \in Nat /\ Cardinality(answered) <= UploadCount
  BY <1>1, FS_Subset, FS_CardinalityType
<1>3. \A seq : Cardinality(answered \cup {seq}) = IF seq \in answered THEN Cardinality(answered)
                                                  ELSE Cardinality(answered) + 1
  BY <1>2, FS_AddElement
<1> QED BY <1>2, <1>3

\* The budgets of what has been answered grow with it, up to those of the whole.
LEMMA UploadBudgets ==
  ASSUME answered \subseteq UploadSeqs
  PROVE  /\ Budget \in Nat /\ Budgets(Cardinality(answered) + 1) \in Nat
         /\ Budget <= Budgets(Cardinality(answered) + 1)
         /\ Budgets(Cardinality(answered) + 1) <= Budgets(UploadCount + 1)
         /\ \A seq \in UploadSeqs \ answered :
              /\ Budgets(Cardinality(answered) + 1) + Budget <= Budgets(UploadCount + 1)
              /\ Budgets(Cardinality(answered \cup {seq}) + 1) = Budgets(Cardinality(answered) + 1) + Budget
<1> DEFINE n == Cardinality(answered)
<1>1. n \in 0..UploadCount /\ UploadCount \in Nat /\ Budget \in Nat
  BY AnsweredAreCounted, UploadAssumption, BudgetsAre
<1>2. \A seq \in UploadSeqs \ answered : Cardinality(answered \cup {seq}) = n + 1 /\ n + 1 <= UploadCount
  <2> SUFFICES ASSUME NEW seq \in UploadSeqs \ answered
               PROVE  Cardinality(answered \cup {seq}) = n + 1 /\ n + 1 <= UploadCount
    OBVIOUS
  <2>1. Cardinality(answered \cup {seq}) = n + 1
    BY AnsweredAreCounted
  <2>2. answered \cup {seq} \subseteq UploadSeqs /\ IsFiniteSet(UploadSeqs) /\ Cardinality(UploadSeqs) = UploadCount
    BY DeclaredAreCounted
  <2>3. Cardinality(answered \cup {seq}) <= UploadCount
    BY <2>2, FS_Subset
  <2> QED BY <2>1, <2>3
<1> HIDE DEF n
<1>3. /\ Budgets(n + 1) = Budgets(n) + Budget /\ Budgets(n) \in Nat
      /\ Budgets(n + 1 + 1) = Budgets(n + 1) + Budget /\ Budgets(n + 1) \in Nat
  <2>1. n \in Nat /\ n + 1 \in Nat
    BY <1>1
  <2> QED BY <2>1, BudgetsAre
<1>4. Budgets(n + 1) <= Budgets(UploadCount + 1)
  <2>1. n + 1 \in Nat /\ UploadCount + 1 \in Nat /\ n + 1 <= UploadCount + 1
    BY <1>1
  <2> QED BY <2>1, BudgetsAre
<1>5. n + 1 <= UploadCount => Budgets(n + 1 + 1) <= Budgets(UploadCount + 1)
  <2>1. n + 1 + 1 \in Nat /\ UploadCount + 1 \in Nat /\ (n + 1 <= UploadCount => n + 1 + 1 <= UploadCount + 1)
    BY <1>1
  <2> QED BY <2>1, BudgetsAre
<1>6. \A seq \in UploadSeqs \ answered :
        Budgets(Cardinality(answered \cup {seq}) + 1) = Budgets(n + 1 + 1)
  BY <1>2
<1>7. Budget <= Budgets(n + 1)
  BY <1>1, <1>3
<1> QED BY <1>1, <1>2, <1>3, <1>4, <1>5, <1>6, <1>7 DEF n

\* An item answered for the first time moves the deadline by a budget at most, and
\* nothing else moves it.
LEMMA UploadEndsKeeps ==
  ASSUME UploadEnds,
         \/ UploadNext
         \/ TimerSteps /\ UNCHANGED uploadVars
         \/ UploadDeadline
         \/ UNCHANGED <<transferVars, linkVars, uploadVars>>
  PROVE  UploadEnds'
<1> USE BudgetAssumption
    DEF UploadEnds, TransferTypeOK, TimersFollowThePhase, DeadlineIsArmed, UploadTypeOK,
        transferVars, linkVars, uploadVars, stepVars, Running, Unarmed
<1>1. /\ Budget \in Nat /\ Budgets(Cardinality(answered) + 1) \in Nat
      /\ Budget <= Budgets(Cardinality(answered) + 1)
      /\ Budgets(Cardinality(answered) + 1) <= Budgets(UploadCount + 1)
      /\ \A seq \in UploadSeqs \ answered :
           /\ Budgets(Cardinality(answered) + 1) + Budget <= Budgets(UploadCount + 1)
           /\ Budgets(Cardinality(answered \cup {seq}) + 1) = Budgets(Cardinality(answered) + 1) + Budget
  BY UploadBudgets
<1>2. /\ CountFrame \in UploadFrames /\ CancelFrame \in UploadFrames
      /\ \A seq \in UploadSeqs, form \in Forms : ItemFrame(seq, form) \in UploadFrames
  BY DEF UploadFrames
<1>3. CASE UploadStarts
  BY <1>1, <1>2, <1>3 DEF UploadStarts, Step, SendStep, Transmit, Settle
<1>4. CASE UploadHears
  <2>1. UNCHANGED <<linkVars, held>> /\ phase = "running" /\ now \in Nat /\ deadline \in Nat
    BY <1>4 DEF UploadHears
  <2>2. ASSUME NEW r \in down, r.kind = "request", AnswerItem(r.seq, r.form)
        PROVE  UploadEnds'
    <3>1. CASE /\ r.seq \notin UploadSeqs
               /\ Settle("out-of-range")
               /\ UNCHANGED <<answered, stepVars, up>>
      BY <2>1, <3>1 DEF Settle
    <3>2. ASSUME r.seq \in UploadSeqs, answered' = answered \cup {r.seq},
                 Step(ItemFrame(r.seq, r.form), ProgressBy(r.seq))
          PROVE  UploadEnds'
      <4>1. ItemFrame(r.seq, r.form) \in UploadFrames
        BY <1>2, <2>2, <3>2
      <4>2. CASE r.seq \in answered
        <5>1. answered' = answered /\ ProgressBy(r.seq) = deadline
          BY <3>2, <4>2 DEF ProgressBy
        <5> QED BY <1>1, <2>1, <2>2, <3>2, <4>1, <5>1 DEF Step, SendStep, Transmit, Settle
      <4>3. CASE r.seq \notin answered
        <5>1. ProgressBy(r.seq) = now + Budget
          BY <4>3 DEF ProgressBy
        <5>2. /\ Budgets(Cardinality(answered) + 1) + Budget <= Budgets(UploadCount + 1)
              /\ Budgets(Cardinality(answered') + 1) = Budgets(Cardinality(answered) + 1) + Budget
          BY <1>1, <3>2, <4>3
        <5>3. now + Budget \in Nat /\ now <= now + Budget
              /\ now + Budget <= Budgets(Cardinality(answered') + 1)
          BY <1>1, <2>1, <5>2
        <5>4. answered' \subseteq UploadSeqs
          BY <3>2
        <5> QED BY <1>1, <2>1, <3>2, <4>1, <5>1, <5>3, <5>4 DEF Step, SendStep, Transmit, Settle
      <4> QED BY <4>2, <4>3
    <3> QED BY <2>2, <3>1, <3>2 DEF AnswerItem
  <2>3. ASSUME NEW a \in down, OnUploadAck(a.type)
        PROVE  UploadEnds'
    BY <2>1, <2>3 DEF OnUploadAck, Settle
  <2> QED BY <1>4, <2>2, <2>3 DEF UploadHears
<1>5. CASE MissionCancelled /\ UNCHANGED uploadVars
  BY <1>2, <1>5 DEF MissionCancelled, Settle
<1>6. CASE VehicleRequests
  BY <1>6 DEF VehicleRequests, Answers, Says, ItemRequest
<1>7. CASE VehicleStores
  <2>1. \A m \in UploadFrames : m.kind = "item" => m.seq \in UploadSeqs
    BY DEF UploadFrames, CountFrame, CancelFrame, ItemFrame
  <2> QED BY <1>7, <2>1 DEF VehicleStores
<1>8. CASE VehicleAcksUpload
  <2>1. PICK type : down' = down \cup {UploadAck(type)}
    BY <1>8 DEF VehicleAcksUpload, Answers, Says
  <2>2. UNCHANGED <<transferVars, now, uploadVars>> /\ refused' \in BOOLEAN
    BY <1>8 DEF VehicleAcksUpload, Answers, Says
  <2> QED BY <2>1, <2>2 DEF UploadAck
<1>9. CASE TimerSteps /\ UNCHANGED uploadVars
  <2>1. CASE StepTimesOut
    <3>1. phase = "running" /\ step' = step /\ now' = now /\ down' = down /\ refused' = refused
      BY <2>1 DEF StepTimesOut, TimedOut
    <3>2. CASE Retries /\ SendStep(step, deadline)
      <4>1. step \in UploadFrames \cup {NoStep}
        OBVIOUS
      <4> QED BY <1>9, <3>1, <3>2 DEF SendStep, Transmit, Retries, Settle
    <3>3. CASE Exhausted /\ Settle("stalled") /\ UNCHANGED <<up, stepRetries>>
      BY <1>9, <3>1, <3>3 DEF Settle
    <3> QED BY <2>1, <3>2, <3>3 DEF StepTimesOut
  <2>2. CASE Tick
    <3>1. now' = now + 1 /\ UNCHANGED <<transferVars, down, refused, answered, held>>
      BY <1>9, <2>2 DEF Tick
    <3>2. phase = "running" /\ deadline \in Nat /\ now < deadline
      BY <2>2 DEF Tick, Due
    <3>3. now' <= deadline /\ now' \in Nat /\ now' <= Budgets(UploadCount + 1)
      <4>1. Budgets(UploadCount + 1) \in Nat
        BY BudgetsAre, UploadAssumption, UploadCount + 1 \in Nat
      <4> QED BY <1>1, <3>1, <3>2, <4>1
    <3> QED BY <3>1, <3>2, <3>3
  <2> QED BY <1>9, <2>1, <2>2 DEF TimerSteps
<1>10. CASE UploadDeadline
  BY <1>10 DEF UploadDeadline, Settle
<1>11. CASE UNCHANGED <<transferVars, linkVars, uploadVars>>
  BY <1>11
<1> QED BY <1>3, <1>4, <1>5, <1>6, <1>7, <1>8, <1>9, <1>10, <1>11 DEF UploadNext

\* What the steps of the skeleton do to the wait.
LEMMA SettleEnds ==
  ASSUME NEW how, how # "none", Settle(how), stepRetries' \in 0..MaxRetries, now' = now
  PROVE  Ends
BY DEF Settle, Ends

\* A frame that is sent begins a budget, or could not be sent.
LEMMA SendBegins ==
  ASSUME NEW frame, SendStep(frame, Unarmed), stepRetries' = 0, now' = now
  PROVE  Begins \/ Ends
BY BudgetAssumption DEF SendStep, Transmit, Settle, Begins, Ends

\* A step that times out is retried, or is the end.
LEMMA TimesOutSpends ==
  ASSUME StepTimesOut, deadline = Unarmed, stepRetries \in 0..MaxRetries
  PROVE  Spends \/ Ends
<1>1. now' = now /\ TimedOut
  BY DEF StepTimesOut, linkVars
<1>2. CASE Retries /\ SendStep(step, deadline)
  BY <1>1, <1>2, BudgetAssumption DEF SendStep, Transmit, Settle, Spends, Ends, Retries
<1>3. CASE Exhausted /\ Settle("stalled") /\ UNCHANGED <<up, stepRetries>>
  BY <1>1, <1>3 DEF Settle, Ends
<1> QED BY <1>2, <1>3 DEF StepTimesOut

-----------------------------------------------------------------------------
(* Transfers of one step end *)

OnceEnds == Waits(Budget) /\ (phase = "idle" => now = 0)

\* A single step has one budget.
LEMMA OnceGoesOn ==
  ASSUME OnceEnds, refused' \in BOOLEAN,
         \/ Begins /\ phase = "idle"
         \/ Spends
         \/ Ends
         \/ Tick
         \/ Still
  PROVE  OnceEnds'
<1>1. Budget \in Nat /\ 0 \in Nat /\ 0 + Budget <= Budget /\ Budget <= Budget /\ 0 <= Budget
  BY BudgetsAre
<1>2. CASE Begins /\ phase = "idle"
  <2>1. Waits(0)
    BY <1>1, <1>2 DEF OnceEnds, Waits, Running
  <2>2. WaitsThen(Budget)
    BY <1>1, <1>2, <2>1, WaitsGoOn
  <2> QED BY <1>2, <2>2 DEF OnceEnds, Waits, WaitsThen, Running, Begins
<1>3. CASE Spends \/ Ends \/ Tick \/ Still
  <2>1. WaitsThen(Budget)
    BY <1>1, <1>3, WaitsGoOn DEF OnceEnds
  <2>2. phase' = "idle" => now' = 0
    BY <1>3 DEF OnceEnds, Spends, Ends, Tick, Still, Waits, Running, Unarmed, transferVars
  <2> QED BY <2>1, <2>2 DEF OnceEnds, Waits, WaitsThen, Running, Budget
<1> QED BY <1>2, <1>3

\* A clear or a selection has one budget.
SingleEnds == OnceEnds /\ MissionTypeOK /\ (Running => step \in MissionFrames)

\* A clear and a selection keep the walk of a download as it is.
LEMMA SingleEndsKeeps ==
  ASSUME SingleEnds,
         \/ ClearNext
         \/ SetCurrentNext
         \/ TimerSteps /\ UNCHANGED missionVars
         \/ UNCHANGED <<transferVars, linkVars, missionVars>>
  PROVE  SingleEnds'
<1> USE DEF SingleEnds, missionVars, walkVars, linkVars, transferVars, stepVars
<1>1. /\ ClearAll \in MissionFrames /\ SetCurrent(1) \in MissionFrames /\ CancelFrame \in MissionFrames
      /\ MissionFrames' = MissionFrames
  BY DEF MissionFrames
<1>2. OnceEnds /\ stepRetries \in 0..MaxRetries /\ deadline = Unarmed /\ refused \in BOOLEAN
  BY DEF OnceEnds, Waits
<1>3. 0 \in 0..MaxRetries
  BY BudgetAssumption
<1> HIDE DEF SingleEnds
<1>4. ASSUME NEW frame \in MissionFrames, MissionStarts(frame)
      PROVE  SingleEnds'
  <2>1. Begins \/ Ends
    BY <1>4, SendBegins DEF MissionStarts, Step
  <2>2. OnceEnds'
    BY <1>2, <1>4, <2>1, OnceGoesOn DEF MissionStarts
  <2>3. step' = frame /\ up' \subseteq up \cup {frame} /\ UNCHANGED missionVars
    BY <1>4 DEF MissionStarts, Step, SendStep, Transmit
  <2> QED BY <1>1, <2>2, <2>3 DEF SingleEnds, MissionTypeOK
<1>5. ASSUME NEW how, how # "none", Settle(how), up' \subseteq up \cup {CancelFrame},
             UNCHANGED <<stepVars, linkVars, missionVars>>
      PROVE  SingleEnds'
  <2>1. Ends
    BY <1>2, <1>5, SettleEnds
  <2>2. OnceEnds'
    BY <1>2, <1>5, <2>1, OnceGoesOn
  <2>3. ~Running'
    BY <1>5 DEF Settle, Running
  <2> QED BY <1>1, <1>5, <2>2, <2>3 DEF SingleEnds, MissionTypeOK
<1>6. ASSUME UNCHANGED <<transferVars, now, count, expectedSeq, items>>, refused' \in BOOLEAN, done' \in BOOLEAN
      PROVE  SingleEnds'
  <2>1. OnceEnds'
    BY <1>2, <1>6, OnceGoesOn DEF Still
  <2> QED BY <1>1, <1>6, <2>1 DEF SingleEnds, MissionTypeOK, Running
<1>7. done \in BOOLEAN
  BY DEF SingleEnds, MissionTypeOK
<1>8. CASE MissionStarts(ClearAll) \/ MissionStarts(SetCurrent(1))
  BY <1>1, <1>4, <1>8
<1>9. CASE ClearHears \/ SetCurrentHears
  <2>1. PICK how \in {"succeeded", "rejected"} : Settle(how)
    BY <1>9 DEF ClearHears, SetCurrentHears
  <2> QED BY <1>5, <1>9, <2>1 DEF ClearHears, SetCurrentHears
<1>10. CASE VehicleClears \/ VehicleAcks \/ VehicleReportsCurrent
  <2>1. done' \in BOOLEAN
    BY <1>7, <1>10 DEF VehicleClears, VehicleAcks, VehicleReportsCurrent
  <2>2. refused' \in BOOLEAN
    BY <1>2, <1>10 DEF VehicleClears, VehicleAcks, VehicleReportsCurrent, Answers, Says
  <2>3. UNCHANGED <<transferVars, now, count, expectedSeq, items>>
    BY <1>10 DEF VehicleClears, VehicleAcks, VehicleReportsCurrent, Answers, Says
  <2> QED BY <1>6, <2>1, <2>2, <2>3
<1>11. CASE (MissionCancelled \/ Cancelled) /\ UNCHANGED missionVars
  BY <1>5, <1>11 DEF MissionCancelled, Cancelled
<1>12. CASE TimerSteps /\ UNCHANGED missionVars
  <2>1. CASE StepTimesOut
    <3>1. OnceEnds'
      BY <1>2, <2>1, TimesOutSpends, OnceGoesOn DEF StepTimesOut
    <3>2. step' = step /\ up' \subseteq up \cup {step} /\ Running
      BY <2>1 DEF StepTimesOut, SendStep, Transmit, TimedOut
    <3> QED BY <1>1, <1>12, <3>1, <3>2 DEF SingleEnds, MissionTypeOK
  <2>2. CASE Tick
    <3>1. OnceEnds'
      BY <1>2, <2>2, OnceGoesOn DEF Tick
    <3> QED BY <1>1, <1>12, <2>2, <3>1 DEF SingleEnds, MissionTypeOK, Tick, Running
  <2> QED BY <1>12, <2>1, <2>2 DEF TimerSteps
<1>13. CASE UNCHANGED <<transferVars, linkVars, missionVars>>
  BY <1>2, <1>6, <1>7, <1>13
<1> QED BY <1>8, <1>9, <1>10, <1>11, <1>12, <1>13 DEF ClearNext, SetCurrentNext

-----------------------------------------------------------------------------
(* Downloads end *)

\* Requests that a download that runs has made.
Requested == IF count = Unknown THEN 1 ELSE expectedSeq + 2
\* Budgets that a download has had: those of its requests, or one more than what it held.
DownloadBudget ==
  IF phase = "idle" THEN 0 ELSE IF Running THEN Budgets(Requested) ELSE Budgets(HeldCount + 1)

\* A download waits for what it has asked.
DownloadEnds == Waits(DownloadBudget) /\ MissionTypeOK /\ (Running => step \in MissionFrames)

\* A walk asks once for each item and once for the count.
LEMMA WalkIsBounded ==
  ASSUME DownloadInv, DownloadEnds
  PROVE  /\ DownloadBudget \in Nat /\ DownloadBudget <= Budgets(HeldCount + 1)
         /\ Budgets(HeldCount + 1) \in Nat /\ Budget \in Nat
         /\ Running => Requested \in 1..(HeldCount + 1)
<1> USE DownloadAssumption
<1>1. Running => Requested \in 1..(HeldCount + 1)
  BY DEF DownloadInv, WalkIsExact, Running, Requested, Unknown
<1>2. 0 \in Nat /\ HeldCount + 1 \in Nat /\ 0 <= HeldCount + 1
  OBVIOUS
<1>3. Running => Budgets(Requested) \in Nat /\ Budgets(Requested) <= Budgets(HeldCount + 1)
  <2> HAVE Running
  <2>1. Requested \in Nat /\ Requested <= HeldCount + 1
    BY <1>1
  <2> QED BY <1>2, <2>1, BudgetsAre
<1>4. Budgets(HeldCount + 1) \in Nat /\ Budget \in Nat
  BY <1>2, BudgetsAre
<1> QED BY <1>1, <1>3, <1>4 DEF DownloadBudget

\* Items and counts that are not awaited start no step, and the others one.
LEMMA DownloadEndsKeeps ==
  ASSUME DownloadInv, DownloadInv', DownloadEnds,
         \/ DownloadNext
         \/ TimerSteps /\ UNCHANGED missionVars
         \/ UNCHANGED <<transferVars, linkVars, missionVars>>
  PROVE  DownloadEnds'
<1> USE DownloadAssumption DEF missionVars, walkVars, linkVars, transferVars, stepVars
<1>1. /\ \A seq \in 0..HeldCount : RequestItem(seq) \in MissionFrames
      /\ RequestList \in MissionFrames /\ CancelFrame \in MissionFrames /\ ClosingAck \in MissionFrames
      /\ MissionFrames' = MissionFrames
  BY DEF MissionFrames
<1>2. /\ DownloadBudget \in Nat /\ DownloadBudget <= Budgets(HeldCount + 1)
      /\ Budgets(HeldCount + 1) \in Nat /\ Budget \in Nat
      /\ Running => Requested \in 1..(HeldCount + 1)
  BY WalkIsBounded
<1>3. /\ Waits(DownloadBudget) /\ MissionTypeOK /\ (Running => step \in MissionFrames)
      /\ stepRetries \in 0..MaxRetries /\ deadline = Unarmed /\ refused \in BOOLEAN
  BY DEF DownloadEnds, Waits
<1>4. 0 \in 0..MaxRetries
  BY BudgetAssumption
<1>5. ASSUME WaitsThen(DownloadBudget'), MissionTypeOK', Running' => step' \in MissionFrames
      PROVE  DownloadEnds'
  BY <1>1, <1>5 DEF DownloadEnds, Waits, WaitsThen, Running
<1>6. ASSUME Ends, refused' = refused, MissionTypeOK'
      PROVE  DownloadEnds'
  <2>1. DownloadBudget' = Budgets(HeldCount + 1) /\ phase' = "settled"
    BY <1>6 DEF DownloadBudget, Ends, Running, Budgets, Budget
  <2>2. WaitsThen(DownloadBudget')
    BY <1>2, <1>3, <1>6, <2>1, WaitsGoOn
  <2> QED BY <1>5, <1>6, <2>1, <2>2 DEF Running
<1>7. ASSUME NEW n \in Nat, (phase = "idle" /\ n = 0) \/ (Running /\ n = Requested),
             Begins, Requested' = n + 1, n + 1 <= HeldCount + 1,
             refused' = refused, MissionTypeOK', step' \in MissionFrames
      PROVE  DownloadEnds'
  <2>1. DownloadBudget = Budgets(n) /\ DownloadBudget' = Budgets(n + 1)
    <3>1. Budgets(0) = 0
      BY BudgetsAre
    <3> QED BY <1>7, <3>1 DEF DownloadBudget, Begins, Running, Budgets, Budget
  <2>2. Budgets(n + 1) = Budgets(n) + Budget /\ Budgets(n) \in Nat /\ Budgets(n + 1) \in Nat
    <3>1. n + 1 \in Nat
      OBVIOUS
    <3> QED BY <3>1, BudgetsAre
  <2>3. WaitsThen(Budgets(n + 1))
    <3>1. Budgets(n) <= Budgets(n + 1) /\ Budgets(n) + Budget <= Budgets(n + 1) /\ phase # "settled"
      BY <1>2, <1>7, <2>2 DEF Running
    <3>2. Waits(Budgets(n)) /\ refused' \in BOOLEAN
      BY <1>3, <1>7, <2>1
    <3> HIDE DEF Running
    <3> QED BY <1>7, <2>2, <3>1, <3>2, WaitsGoOn
  <2> QED BY <1>5, <1>7, <2>1, <2>3
<1>8. ASSUME UNCHANGED <<transferVars, now, count, expectedSeq, items>>, refused' \in BOOLEAN, done' \in BOOLEAN
      PROVE  DownloadEnds'
  <2>1. DownloadBudget' = DownloadBudget
    BY <1>8 DEF DownloadBudget, Running, Requested, Budgets, Budget
  <2>2. WaitsThen(DownloadBudget')
    BY <1>2, <1>8, <1>3, <2>1, WaitsGoOn DEF Still
  <2> QED BY <1>3, <1>5, <1>8, <2>2 DEF MissionTypeOK, Running, MissionFrames
<1>9. CASE MissionStarts(RequestList)
  <2>1. /\ phase = "idle" /\ step' = RequestList /\ up' \subseteq up \cup {RequestList}
        /\ UNCHANGED <<linkVars, missionVars>> /\ (Begins \/ Ends)
    BY <1>9, SendBegins DEF MissionStarts, Step, SendStep, Transmit, Settle
  <2>2. count = Unknown
    BY <2>1 DEF DownloadInv
  <2>3. MissionTypeOK'
    BY <1>1, <1>3, <2>1 DEF MissionTypeOK
  <2>4. 0 \in Nat /\ Requested' = 0 + 1 /\ 0 + 1 <= HeldCount + 1
    BY <2>1, <2>2 DEF Requested
  <2>5. CASE Begins
    <3>1. phase = "idle" /\ refused' = refused /\ step' \in MissionFrames
      BY <1>1, <2>1
    <3> DEFINE n == 0
    <3>2. n \in Nat /\ n = 0 /\ Requested' = n + 1 /\ n + 1 <= HeldCount + 1
      BY <2>4
    <3> HIDE DEF n
    <3> QED BY <1>7, <2>3, <2>5, <3>1, <3>2
  <2>6. CASE Ends
    BY <1>6, <2>1, <2>3, <2>6
  <2> QED BY <2>1, <2>5, <2>6
<1>10. CASE DownloadHears
  <2>1. PICK m \in {r \in down : TypeMatches(r)} :
          \/ m.kind = "count" /\ OnCount(m.type)
          \/ m.kind = "item" /\ OnItem(m.type, m.seq)
          \/ /\ m.kind = "ack" /\ m.result = "error" /\ Settle("rejected")
             /\ UNCHANGED <<up, stepVars, walkVars>>
    BY <1>10 DEF DownloadHears
  <2>2. phase = "running" /\ UNCHANGED linkVars /\ m.type = OurType /\ SizeOf(m.type) = HeldCount /\ done' = done
    BY <1>10, <2>1 DEF DownloadHears, TypeMatches, SizeOf, Running
  <2>3. ASSUME CloseDownload, count' = HeldCount,
               items' \subseteq items \cup {<<expectedSeq, OurType>>}
        PROVE  DownloadEnds'
    <3>1. Ends
      BY <1>3, <2>2, <2>3 DEF CloseDownload, Settle, Ends
    <3>2. MissionTypeOK'
      BY <1>1, <1>3, <2>2, <2>3 DEF CloseDownload, MissionTypeOK, Types, OurType
    <3> QED BY <1>6, <2>2, <3>1, <3>2
  <2>4. ASSUME NEW seq \in 0..(HeldCount - 1), WalkTo(seq), seq + 1 = Requested, count' = HeldCount,
               items' \subseteq items \cup {<<expectedSeq, OurType>>}
        PROVE  DownloadEnds'
    <3>1. Begins \/ Ends
      BY <2>2, <2>4, SendBegins DEF WalkTo, Step
    <3>2. step' = RequestItem(seq) /\ up' \subseteq up \cup {RequestItem(seq)} /\ expectedSeq' = seq
      BY <2>4 DEF WalkTo, Step, SendStep, Transmit
    <3>3. seq \in 0..HeldCount
      BY <2>4
    <3>4. MissionTypeOK'
      BY <1>1, <1>3, <2>2, <2>4, <3>2, <3>3 DEF MissionTypeOK, Types, OurType
    <3>5. Requested \in Nat /\ Requested' = Requested + 1 /\ Requested + 1 <= HeldCount + 1
      BY <2>4, <3>2 DEF Requested, Unknown
    <3> QED BY <1>1, <1>6, <1>7, <2>2, <3>1, <3>2, <3>3, <3>4, <3>5 DEF Running
  <2>5. CASE m.kind = "count" /\ OnCount(m.type)
    <3>1. count = Unknown /\ count' = HeldCount /\ items' = items /\ Requested = 1
      BY <2>2, <2>5 DEF OnCount, Requested
    <3>2. CASE HeldCount = 0
      BY <2>2, <2>3, <2>5, <3>1, <3>2 DEF OnCount
    <3>3. CASE HeldCount # 0
      <4>1. WalkTo(0) /\ 0 \in 0..(HeldCount - 1) /\ 0 + 1 = Requested
        BY <2>2, <2>5, <3>1, <3>3 DEF OnCount
      <4> QED BY <2>4, <3>1, <4>1
    <3> QED BY <3>2, <3>3
  <2>6. CASE m.kind = "item" /\ OnItem(m.type, m.seq)
    <3>1. /\ count # Unknown /\ m.seq = expectedSeq /\ count' = count
          /\ items' = items \cup {<<expectedSeq, OurType>>}
      BY <2>2, <2>6 DEF OnItem
    <3>2. count = HeldCount /\ expectedSeq \in Nat /\ expectedSeq < HeldCount
      BY <2>2, <3>1 DEF DownloadInv, WalkIsExact
    <3>3. CASE expectedSeq = count - 1
      BY <2>3, <2>6, <3>1, <3>2, <3>3 DEF OnItem
    <3>4. CASE expectedSeq # count - 1
      <4>1. WalkTo(expectedSeq + 1)
        BY <2>6, <3>1, <3>4 DEF OnItem
      <4>2. expectedSeq + 1 \in 0..(HeldCount - 1) /\ expectedSeq + 1 + 1 = Requested
        BY <3>1, <3>2, <3>4 DEF Requested
      <4> QED BY <2>4, <3>1, <3>2, <4>1, <4>2
    <3> QED BY <3>3, <3>4
  <2>7. CASE /\ m.kind = "ack" /\ m.result = "error" /\ Settle("rejected")
             /\ UNCHANGED <<up, stepVars, walkVars>>
    <3>1. Ends
      BY <1>3, <2>2, <2>7, SettleEnds
    <3>2. MissionTypeOK'
      BY <1>1, <1>3, <2>2, <2>7 DEF MissionTypeOK
    <3> QED BY <1>6, <2>2, <3>1, <3>2
  <2> QED BY <2>1, <2>5, <2>6, <2>7
<1>11. CASE VehicleCounts \/ VehicleServes \/ VehicleAcks
  <2>1. UNCHANGED <<transferVars, now, missionVars>> /\ refused' \in BOOLEAN
    BY <1>3, <1>11 DEF VehicleCounts, VehicleServes, VehicleAcks, Answers, Says
  <2> QED BY <1>3, <1>8, <2>1 DEF MissionTypeOK
<1>12. CASE MissionCancelled /\ UNCHANGED missionVars
  <2>1. Ends
    BY <1>3, <1>12, SettleEnds DEF MissionCancelled
  <2>2. MissionTypeOK'
    BY <1>1, <1>3, <1>12 DEF MissionTypeOK, MissionCancelled
  <2> QED BY <1>6, <1>12, <2>1, <2>2 DEF MissionCancelled
<1>13. CASE TimerSteps /\ UNCHANGED missionVars
  <2>1. Spends \/ Ends \/ Tick
    BY <1>3, <1>13, TimesOutSpends DEF TimerSteps
  <2>2. Running /\ step' = step /\ up' \subseteq up \cup {step} /\ refused' = refused
    BY <1>3, <1>13 DEF TimerSteps, StepTimesOut, SendStep, Transmit, TimedOut, Tick, Waits
  <2>3. MissionTypeOK'
    BY <1>1, <1>3, <1>13, <2>2 DEF MissionTypeOK
  <2>4. CASE Spends \/ Tick
    <3>1. DownloadBudget' = DownloadBudget
      BY <1>13, <2>2, <2>4 DEF Spends, Tick, DownloadBudget, Running, Requested, Budgets, Budget
    <3>2. WaitsThen(DownloadBudget')
      BY <1>2, <1>3, <2>2, <2>4, <3>1, WaitsGoOn
    <3> QED BY <1>3, <1>5, <2>2, <2>3, <3>2
  <2> QED BY <1>6, <2>1, <2>2, <2>3, <2>4
<1>14. CASE UNCHANGED <<transferVars, linkVars, missionVars>>
  BY <1>3, <1>8, <1>14 DEF MissionTypeOK
<1> QED BY <1>9, <1>10, <1>11, <1>12, <1>13, <1>14 DEF DownloadNext
-----------------------------------------------------------------------------
(* Transfers that count *)

\* A transfer that has made n of its most requests at least.
Counted(n, most) ==
  IF phase = "idle" THEN 0 ELSE IF Running THEN Budgets(n) ELSE Budgets(most)

\* A budget that begins anew is one that has not been counted.
LEMMA CountedGoesOn ==
  ASSUME NEW n \in Nat, NEW k \in Nat, NEW most \in Nat, Waits(Counted(n, most)),
         Running => n <= most, refused' \in BOOLEAN,
         \/ Begins /\ 1 <= k /\ ((phase = "idle") \/ (Running /\ n < k))
         \/ Ends
         \/ (Spends \/ Tick \/ Still) /\ (Running => n <= k)
  PROVE  WaitsThen(IF phase' = "idle" THEN 0 ELSE IF phase' = "running" THEN Budgets(k) ELSE Budgets(most))
<1>1. /\ Budget \in Nat /\ Budgets(n) \in Nat /\ Budgets(k) \in Nat /\ Budgets(most) \in Nat
      /\ n <= most => Budgets(n) <= Budgets(most)
      /\ n <= k => Budgets(n) <= Budgets(k)
      /\ 1 <= k => 0 + Budget <= Budgets(k)
      /\ n < k => Budgets(n) + Budget <= Budgets(k)
  <2>1. \A m \in Nat : m + 1 \in Nat
    OBVIOUS
  <2>2. Budgets(0) = 0 /\ Budgets(0 + 1) = Budgets(0) + Budget /\ 0 \in Nat /\ 1 \in Nat /\ 0 + 1 = 1
    BY BudgetsAre
  <2>3. Budgets(n + 1) = Budgets(n) + Budget /\ n + 1 \in Nat /\ (n < k => n + 1 <= k)
    BY <2>1, BudgetsAre
  <2>4. 1 <= k => Budgets(1) <= Budgets(k)
    BY <2>2, BudgetsAre
  <2>5. n < k => Budgets(n + 1) <= Budgets(k)
    BY <2>3, BudgetsAre
  <2> QED BY <2>2, <2>3, <2>4, <2>5, BudgetsAre
<1>2. phase \in {"idle", "running", "settled"}
  BY DEF Waits
<1>3. CASE Begins /\ 1 <= k /\ ((phase = "idle") \/ (Running /\ n < k))
  <2>1. phase' = "running"
    BY <1>3 DEF Begins
  <2>2. CASE phase = "idle"
    <3>1. Waits(0)
      BY <2>2 DEF Counted
    <3>2. WaitsThen(Budgets(k))
      BY <1>1, <1>3, <2>2, <3>1, WaitsGoOn, 0 \in Nat
    <3> QED BY <2>1, <3>2
  <2>3. CASE Running /\ n < k
    <3>1. Waits(Budgets(n)) /\ phase # "settled"
      BY <2>3 DEF Counted, Running
    <3>2. Budgets(n) <= Budgets(k)
      BY <1>1, <2>3
    <3>3. WaitsThen(Budgets(k))
      BY <1>1, <1>3, <2>3, <3>1, <3>2, WaitsGoOn
    <3> QED BY <2>1, <3>3
  <2> QED BY <1>3, <2>2, <2>3
<1>4. CASE Ends
  <2>1. phase' = "settled" /\ Counted(n, most) \in Nat /\ Counted(n, most) <= Budgets(most)
    BY <1>1, <1>4 DEF Ends, Counted
  <2>2. WaitsThen(Budgets(most))
    BY <1>1, <1>4, <2>1, WaitsGoOn
  <2> QED BY <2>1, <2>2
<1>5. CASE (Spends \/ Tick \/ Still) /\ (Running => n <= k)
  <2>1. phase' = phase
    BY <1>5 DEF Spends, Tick, Still, TimedOut, Running, transferVars
  <2>2. CASE phase = "running"
    <3>1. Waits(Budgets(n)) /\ Budgets(n) <= Budgets(k)
      BY <1>1, <1>5, <2>2 DEF Counted, Running
    <3>2. WaitsThen(Budgets(k))
      BY <1>1, <1>5, <3>1, WaitsGoOn
    <3> QED BY <2>1, <2>2, <3>2
  <2>3. CASE phase # "running"
    <3>1. WaitsThen(Counted(n, most)) /\ Counted(n, most) \in Nat
      BY <1>1, <1>5, <2>3, WaitsGoOn DEF Counted
    <3> QED BY <2>1, <2>3, <3>1 DEF Counted, Running
  <2> QED BY <2>2, <2>3
<1> QED BY <1>3, <1>4, <1>5


\* So it is over within its most budgets.
LEMMA CountedIsOver ==
  ASSUME NEW n \in Nat, NEW most \in Nat, Waits(Counted(n, most)), Running => n <= most
  PROVE  TransferTypeOK /\ TimersFollowThePhase /\ now <= most * Budget
<1>1. Budgets(n) \in Nat /\ Budgets(most) \in Nat /\ (n <= most => Budgets(n) <= Budgets(most))
  BY BudgetsAre
<1>2. Counted(n, most) \in Nat /\ Counted(n, most) <= Budgets(most)
  BY <1>1 DEF Counted
<1>3. TransferTypeOK /\ TimersFollowThePhase
  BY <1>2, WaitsIsTyped
<1>4. now \in Nat /\ now <= Counted(n, most)
  BY DEF Waits
<1> QED BY <1>1, <1>2, <1>3, <1>4 DEF Budgets

-----------------------------------------------------------------------------
(* Parameters end *)

\* What the vehicle says of its values keeps a transfer of parameters as it is.
LEMMA StoreIsTyped ==
  ASSUME ParamTypeOK, VehicleTakes \/ VehicleHolds \/ VehicleTells
  PROVE  ParamTypeOK' /\ Still /\ UNCHANGED <<step, up, refused, index>>
<1>1. PICK id \in Ids, v \in Values : Holds(id, v)
  <2>1. Wire(Wanted) \in Values
    BY DEF Wire, Wanted, Float, Values
  <2>2. \A id \in Ids : store[id] \in Values
    BY DEF ParamTypeOK
  <2> QED BY <2>1, <2>2 DEF VehicleTakes, VehicleHolds, VehicleTells
<1>2. /\ UNCHANGED <<transferVars, now, refused>>
      /\ UNCHANGED <<bytewise, tableVars, index, readValue>>
      /\ store' = [store EXCEPT ![id] = v] /\ everHeld' = everHeld \cup {<<id, v>>}
  BY <1>1 DEF Holds, Answers, Says
<1> QED BY <1>2 DEF ParamTypeOK, Still, transferVars, stepVars, linkVars, tableVars, ParamFrames

\* A read has one budget.
ReadEnds == OnceEnds /\ ParamTypeOK /\ (Running => step \in ParamFrames)

\* A read asks once.
LEMMA ReadEndsKeeps ==
  ASSUME ReadInv, ReadEnds,
         \/ ParamReadNext
         \/ TimerSteps /\ UNCHANGED paramVars
         \/ UNCHANGED <<transferVars, linkVars, paramVars>>
  PROVE  ReadEnds'
<1>1. ReadRequest(1) \in ParamFrames /\ ParamFrames' = ParamFrames
  BY DEF ParamFrames
<1>2. /\ OnceEnds /\ ParamTypeOK /\ (Running => step \in ParamFrames)
      /\ stepRetries \in 0..MaxRetries /\ deadline = Unarmed /\ refused \in BOOLEAN
  BY DEF ReadEnds, OnceEnds, Waits
<1>3. 0 \in 0..MaxRetries
  BY BudgetAssumption
<1>4. CASE ParamReadStarts
  <2>1. Begins \/ Ends
    BY <1>4, SendBegins DEF ParamReadStarts, Step, linkVars
  <2>2. OnceEnds'
    BY <1>2, <1>4, <2>1, OnceGoesOn DEF ParamReadStarts, linkVars
  <2>3. step' = ReadRequest(1) /\ up' \subseteq up \cup {ReadRequest(1)} /\ UNCHANGED paramVars
    BY <1>4 DEF ParamReadStarts, Step, SendStep, Transmit
  <2> QED BY <1>1, <1>2, <2>2, <2>3 DEF ReadEnds, ParamTypeOK, paramVars, tableVars, storeVars
<1>5. CASE ParamReadHears
  <2>1. PICK m \in down : m.id = 1 /\ readValue' = m.value
    BY <1>5 DEF ParamReadHears
  <2>2. m.value \in Values
    <3>1. PICK v \in Values : m.value = Wire(v)
      BY DEF ReadInv, EchoesAreHeld
    <3> QED BY <3>1 DEF Wire, Float, Values
  <2>3. Ends /\ ~Running'
    BY <1>2, <1>5 DEF ParamReadHears, Settle, Ends, stepVars, linkVars, Running
  <2>4. OnceEnds'
    BY <1>2, <1>5, <2>3, OnceGoesOn DEF ParamReadHears, linkVars
  <2> QED BY <1>1, <1>2, <1>5, <2>1, <2>2, <2>3, <2>4
          DEF ReadEnds, ParamReadHears, ParamTypeOK, tableVars, storeVars, stepVars
<1>6. CASE VehicleHolds \/ VehicleTells
  <2>1. ParamTypeOK' /\ Still /\ UNCHANGED <<step, refused>>
    BY <1>2, <1>6, StoreIsTyped
  <2>2. OnceEnds'
    BY <1>2, <2>1, OnceGoesOn
  <2> QED BY <1>1, <1>2, <2>1, <2>2 DEF ReadEnds, Still, Running
<1>7. CASE Cancelled /\ UNCHANGED paramVars
  <2>1. Ends /\ ~Running'
    BY <1>2, <1>7 DEF Cancelled, Settle, Ends, stepVars, linkVars, Running
  <2>2. OnceEnds'
    BY <1>2, <1>7, <2>1, OnceGoesOn DEF Cancelled, linkVars
  <2> QED BY <1>1, <1>2, <1>7, <2>1, <2>2
          DEF ReadEnds, Cancelled, ParamTypeOK, paramVars, tableVars, storeVars, stepVars
<1>8. CASE TimerSteps /\ UNCHANGED paramVars
  <2>1. Spends \/ Ends \/ Tick
    BY <1>2, <1>8, TimesOutSpends DEF TimerSteps
  <2>2. Running /\ step' = step /\ up' \subseteq up \cup {step} /\ refused' = refused
    BY <1>2, <1>8 DEF TimerSteps, StepTimesOut, SendStep, Transmit, TimedOut, Tick, OnceEnds, Waits,
                      transferVars, stepVars, linkVars
  <2>3. OnceEnds'
    BY <1>2, <2>1, <2>2, OnceGoesOn
  <2> QED BY <1>1, <1>2, <1>8, <2>2, <2>3 DEF ReadEnds, ParamTypeOK, paramVars, tableVars, storeVars
<1>9. CASE UNCHANGED <<transferVars, linkVars, paramVars>>
  <2>1. OnceEnds'
    BY <1>2, <1>9, OnceGoesOn DEF Still, transferVars, stepVars, linkVars
  <2> QED BY <1>1, <1>2, <1>9, <2>1
          DEF ReadEnds, ParamTypeOK, paramVars, tableVars, storeVars, transferVars, stepVars, Running
<1> QED BY <1>4, <1>5, <1>6, <1>7, <1>8, <1>9 DEF ParamReadNext
\* A restore has a budget for each parameter it has come to.
RestoreEnds ==
  Waits(Counted(index + 1, RestoreCount)) /\ ParamTypeOK /\ (Running => step \in ParamFrames)

\* A restore asks once for each parameter.
LEMMA RestoreEndsKeeps ==
  ASSUME RestoreInv, RestoreInv', RestoreEnds,
         \/ ParamRestoreNext
         \/ ParamRestoreTimesOut
         \/ Tick /\ UNCHANGED paramVars
         \/ UNCHANGED <<transferVars, linkVars, paramVars>>
  PROVE  RestoreEnds'
<1> USE ParamAssumption
<1>1. /\ \A id \in Ids : SetRequest(id) \in ParamFrames
      /\ ParamFrames' = ParamFrames
  BY DEF ParamFrames
<1>2. /\ Waits(Counted(index + 1, RestoreCount)) /\ ParamTypeOK /\ (Running => step \in ParamFrames)
      /\ stepRetries \in 0..MaxRetries /\ deadline = Unarmed /\ refused \in BOOLEAN
  BY DEF RestoreEnds, Waits
<1>3. /\ index \in 0..RestoreCount /\ index' \in 0..RestoreCount
      /\ index + 1 \in Nat /\ index' + 1 \in Nat /\ RestoreCount \in Nat
      /\ 1 <= index' + 1
      /\ Running => index + 1 <= RestoreCount
  <2>1. index \in 0..RestoreCount /\ index' \in 0..RestoreCount /\ (Running => index < RestoreCount)
    BY DEF RestoreInv
  <2>2. \A i \in 0..RestoreCount :
          i \in Nat /\ i + 1 \in Nat /\ 1 <= i + 1 /\ (i < RestoreCount => i + 1 <= RestoreCount)
    OBVIOUS
  <2> QED BY <2>1, <2>2
<1>4. ASSUME ParamTypeOK', Running' => step' \in ParamFrames, refused' \in BOOLEAN,
             \/ Begins /\ (phase = "idle" \/ (Running /\ index' = index + 1))
             \/ Ends
             \/ (Spends \/ Tick \/ Still) /\ index' = index
      PROVE  RestoreEnds'
  <2>1. \/ Begins /\ 1 <= index' + 1 /\ (phase = "idle" \/ (Running /\ index + 1 < index' + 1))
        \/ Ends
        \/ (Spends \/ Tick \/ Still) /\ (Running => index + 1 <= index' + 1)
    <3>1. index \in Nat /\ index' \in Nat
      BY <1>3
    <3>2. /\ index' = index => index + 1 <= index' + 1
          /\ index' = index + 1 => index + 1 < index' + 1
      <4>1. \A i, j \in Nat : (j = i => i + 1 <= j + 1) /\ (j = i + 1 => i + 1 < j + 1)
        OBVIOUS
      <4> QED BY <3>1, <4>1
    <3> QED BY <1>3, <1>4, <3>2
  <2>2. WaitsThen(IF phase' = "idle" THEN 0 ELSE IF phase' = "running" THEN Budgets(index' + 1)
                  ELSE Budgets(RestoreCount))
    BY <1>2, <1>3, <1>4, <2>1, CountedGoesOn
  <2>3. Waits(Counted(index + 1, RestoreCount))'
    BY <2>2 DEF Waits, WaitsThen, Counted, Running, Budgets, Budget, Left
  <2> QED BY <1>1, <1>4, <2>3 DEF RestoreEnds
<1>5. ASSUME UNCHANGED <<bytewise, tableVars, readValue, storeVars>>,
             step' \in ParamFrames \cup {NoStep}, up' \subseteq up \cup ParamFrames
      PROVE  ParamTypeOK'
  BY <1>1, <1>2, <1>3, <1>5 DEF ParamTypeOK, tableVars, storeVars
<1>6. ASSUME NEW id \in Ids, Step(SetRequest(id), Unarmed), UNCHANGED linkVars
      PROVE  /\ Begins \/ Ends
             /\ step' = SetRequest(id) /\ up' \subseteq up \cup {SetRequest(id)}
  BY <1>6, SendBegins DEF Step, SendStep, Transmit, linkVars
<1>7. CASE ParamRestoreStarts
  <2>1. UNCHANGED paramVars /\ UNCHANGED linkVars /\ phase = "idle"
    BY <1>7 DEF ParamRestoreStarts
  <2>2. CASE RestoreCount = 0
    <3>1. Settle("succeeded") /\ UNCHANGED <<up, stepVars>>
      BY <1>7, <2>2 DEF ParamRestoreStarts
    <3>2. Ends /\ ~Running'
      BY <1>2, <2>1, <3>1 DEF Settle, Ends, Running, stepVars, linkVars
    <3>3. ParamTypeOK'
      BY <1>2, <1>5, <2>1, <3>1 DEF ParamTypeOK, paramVars, stepVars
    <3> QED BY <1>2, <1>4, <2>1, <3>2, <3>3 DEF linkVars
  <2>3. CASE RestoreCount # 0
    <3>1. 1 \in Ids /\ Step(SetRequest(1), Unarmed)
      BY <1>7, <2>3 DEF ParamRestoreStarts, Ids
    <3>2. ParamTypeOK' /\ step' \in ParamFrames
      BY <1>1, <1>5, <1>6, <2>1, <3>1 DEF paramVars
    <3> QED BY <1>2, <1>4, <1>6, <2>1, <3>1, <3>2 DEF linkVars
  <2> QED BY <2>2, <2>3
<1>8. CASE ParamRestoreHears
  <2>1. /\ UNCHANGED <<linkVars, bytewise, tableVars, readValue, storeVars>>
        /\ Running /\ index' = index + 1
    BY <1>8 DEF ParamRestoreHears
  <2>2. CASE index' = RestoreCount
    <3>1. Settle("succeeded") /\ UNCHANGED <<up, stepVars>>
      BY <1>8, <2>2 DEF ParamRestoreHears
    <3>2. Ends /\ ~Running'
      BY <1>2, <2>1, <3>1 DEF Settle, Ends, Running, stepVars, linkVars
    <3>3. ParamTypeOK'
      BY <1>2, <1>5, <2>1, <3>1 DEF ParamTypeOK, stepVars
    <3> QED BY <1>2, <1>4, <2>1, <3>2, <3>3 DEF linkVars
  <2>3. CASE index' # RestoreCount
    <3>1. Step(SetRequest(index' + 1), Unarmed)
      BY <1>8, <2>3 DEF ParamRestoreHears
    <3>2. index' + 1 \in Ids
      <4>1. \A i \in 0..RestoreCount : i # RestoreCount => i + 1 \in 1..RestoreCount
        OBVIOUS
      <4> QED BY <1>3, <2>3, <4>1 DEF Ids
    <3>3. /\ Begins \/ Ends
          /\ step' = SetRequest(index' + 1) /\ up' \subseteq up \cup {SetRequest(index' + 1)}
      BY <2>1, <3>1, SendBegins DEF Step, SendStep, Transmit, linkVars
    <3>4. SetRequest(index' + 1) \in ParamFrames
      BY <1>1, <3>2
    <3>5. ParamTypeOK' /\ step' \in ParamFrames
      BY <1>5, <2>1, <3>3, <3>4
    <3> QED BY <1>2, <1>4, <2>1, <3>3, <3>5 DEF linkVars
  <2> QED BY <2>2, <2>3
<1>9. CASE VehicleTakes \/ VehicleHolds \/ VehicleTells
  <2>1. ParamTypeOK' /\ Still /\ UNCHANGED <<step, refused, index>>
    BY <1>2, <1>9, StoreIsTyped
  <2> QED BY <1>1, <1>2, <1>4, <2>1 DEF Still, Running
<1>10. CASE Cancelled /\ UNCHANGED paramVars
  <2>1. Ends /\ ~Running'
    BY <1>2, <1>10 DEF Cancelled, Settle, Ends, stepVars, linkVars, Running
  <2>2. ParamTypeOK'
    BY <1>2, <1>5, <1>10 DEF Cancelled, ParamTypeOK, paramVars, stepVars
  <2> QED BY <1>2, <1>4, <1>10, <2>1, <2>2 DEF Cancelled, linkVars
<1>11. CASE ParamRestoreTimesOut
  <2>1. /\ Running /\ step' = step /\ up' \subseteq up \cup {step} /\ UNCHANGED <<linkVars, paramVars>>
        /\ Spends \/ Ends
    BY <1>2, <1>11, BudgetAssumption
       DEF ParamRestoreTimesOut, TimedOut, Retries, SendStep, Transmit, Settle, Spends, Ends, linkVars
  <2>2. ParamTypeOK' /\ step' \in ParamFrames
    BY <1>1, <1>2, <1>5, <2>1 DEF paramVars
  <2> QED BY <1>2, <1>4, <2>1, <2>2 DEF linkVars, paramVars
<1>12. CASE (Tick /\ UNCHANGED paramVars) \/ UNCHANGED <<transferVars, linkVars, paramVars>>
  <2>1. /\ UNCHANGED paramVars /\ UNCHANGED <<phase, step, up, refused>>
        /\ Tick \/ Still
    BY <1>12 DEF Tick, Still, transferVars, stepVars, linkVars
  <2>2. ParamTypeOK'
    BY <1>2, <1>5, <2>1 DEF ParamTypeOK, paramVars
  <2> QED BY <1>1, <1>2, <1>4, <2>1, <2>2 DEF paramVars, Running
<1> QED BY <1>7, <1>8, <1>9, <1>10, <1>11, <1>12 DEF ParamRestoreNext

\* What a backup may wait: for each request, and again for each frame of a stream.
Waited(n) == (MaxRetries + 1 + n) * StepTimeout
\* A backup that has not begun has not waited.
Backup == IF phase = "idle" THEN 0 ELSE Waited(Cardinality(streamed))

\* A backup waits no longer than the frames that came let it.
BackupEnds ==
  /\ Waits(Backup) /\ ParamTypeOK
  /\ Running => step \in ParamFrames
  /\ phase = "idle" => streamed = {}

\* A frame that restarts the wait leaves the retries as they are.
Extends ==
  /\ phase' = "running" /\ outcome' = outcome /\ stepRetries' = stepRetries
  /\ timer' = now + StepTimeout /\ deadline' = deadline /\ now' = now

\* A restarted wait is longer by one timeout at most.
LEMMA ExtendsByATimeout ==
  ASSUME NEW l \in Nat, NEW k \in Nat, Waits(l), Running, Extends, refused' \in BOOLEAN,
         l + StepTimeout <= k
  PROVE  WaitsThen(k)
BY BudgetAssumption, LeftIs DEF Waits, WaitsThen, Extends, Running

\* Each frame adds a timeout, and the most that a table makes wait is bounded.
LEMMA WaitedIs ==
  /\ Waited(0) = 0 + Budget
  /\ \A n \in Nat : Waited(n) \in Nat /\ Waited(n + 1) = Waited(n) + StepTimeout
  /\ \A n, t \in Nat : n <= (MaxRetries + 1) * (t + 1) => Waited(n) <= (MaxRetries + 1) * (t + 2) * StepTimeout
<1> USE BudgetAssumption
<1> DEFINE m == MaxRetries + 1
<1>1. m \in Nat /\ StepTimeout \in Nat
  OBVIOUS
<1>2. Budget = m * StepTimeout
  <2>1. \A x, y \in Nat : x * y = y * x
    OBVIOUS
  <2> QED BY <1>1, <2>1 DEF Budget
<1> HIDE DEF m
<1>3. \A x, n, t \in Nat : (x + n) * t \in Nat /\ (x + (n + 1)) * t = (x + n) * t + t /\ (x + 0) * t = 0 + x * t
  OBVIOUS
<1>4. \A x, t \in Nat : x + x * (t + 1) = x * (t + 2) /\ x * (t + 1) \in Nat /\ x * (t + 2) \in Nat
  OBVIOUS
<1>5. \A x, y, t \in Nat : x <= y => x * t <= y * t
  OBVIOUS
<1>6. \A n, t \in Nat : n <= m * (t + 1) => (m + n) * StepTimeout <= m * (t + 2) * StepTimeout
  <2> SUFFICES ASSUME NEW n \in Nat, NEW t \in Nat, n <= m * (t + 1)
               PROVE  (m + n) * StepTimeout <= m * (t + 2) * StepTimeout
    OBVIOUS
  <2> DEFINE y == m * (t + 2)
  <2>1. m + n <= y /\ m + n \in Nat /\ y \in Nat
    BY <1>1, <1>4
  <2> HIDE DEF y
  <2>2. (m + n) * StepTimeout <= y * StepTimeout
    BY <1>1, <1>5, <2>1
  <2> QED BY <2>2 DEF y
<1>7. \A n : Waited(n) = (m + n) * StepTimeout
  BY DEF Waited, m
<1>8. Waited(0) = 0 + Budget
  BY <1>1, <1>2, <1>3, <1>7, 0 \in Nat
<1>9. \A n \in Nat : Waited(n) \in Nat /\ Waited(n + 1) = Waited(n) + StepTimeout
  BY <1>1, <1>3, <1>7
<1>10. \A n, t \in Nat : n <= m * (t + 1) => Waited(n) <= m * (t + 2) * StepTimeout
  BY <1>6, <1>7
<1> QED BY <1>8, <1>9, <1>10 DEF m

\* No more frames are streamed than there are members for each request.
LEMMA StreamsAreCounted ==
  ASSUME NEW size \in Nat, NEW frames \in SUBSET ((0..MaxRetries) \X (0..size))
  PROVE  /\ IsFiniteSet(frames) /\ Cardinality(frames) \in Nat
         /\ Cardinality(frames) <= (MaxRetries + 1) * (size + 1)
<1>1. /\ IsFiniteSet(0..MaxRetries) /\ Cardinality(0..MaxRetries) = MaxRetries + 1
      /\ IsFiniteSet(0..size) /\ Cardinality(0..size) = size + 1
  <2>1. MaxRetries \in Int /\ size \in Int /\ 0 \in Int /\ 0 <= MaxRetries /\ 0 <= size
    BY BudgetAssumption
  <2>2. MaxRetries - 0 + 1 = MaxRetries + 1 /\ size - 0 + 1 = size + 1
    BY <2>1
  <2> QED BY <2>1, <2>2, FS_Interval
<1>2. /\ IsFiniteSet((0..MaxRetries) \X (0..size))
      /\ Cardinality((0..MaxRetries) \X (0..size)) = (MaxRetries + 1) * (size + 1)
  BY <1>1, FS_Product
<1>3. IsFiniteSet(frames) /\ Cardinality(frames) <= Cardinality((0..MaxRetries) \X (0..size))
  BY <1>2, FS_Subset
<1> QED BY <1>2, <1>3, FS_CardinalityType

\* A backup is over by the time that is allowed it.
LEMMA BackupIsOver ==
  ASSUME BackupInv, BackupEnds
  PROVE  ParamBackupIsBounded
<1> USE BudgetAssumption
<1>1. tableSize \in Nat /\ streamed \in SUBSET ((0..MaxRetries) \X (0..tableSize))
  BY DEF BackupInv, BackupEnds, ParamTypeOK
<1>2. Cardinality(streamed) \in Nat /\ Cardinality(streamed) <= (MaxRetries + 1) * (tableSize + 1)
  BY <1>1, StreamsAreCounted
<1>3. Waited(Cardinality(streamed)) <= (MaxRetries + 1) * (tableSize + 2) * StepTimeout
  BY <1>1, <1>2, WaitedIs
<1>4. (MaxRetries + 1) * (tableSize + 2) * StepTimeout \in Nat
  <2>1. \A x, y, z \in Nat : x * (y + 2) * z \in Nat
    OBVIOUS
  <2> QED BY <1>1, <2>1, MaxRetries + 1 \in Nat
<1>5. now \in Nat /\ now <= Backup /\ Waited(Cardinality(streamed)) \in Nat
  BY <1>2, WaitedIs DEF BackupEnds, Waits
<1> DEFINE most == (MaxRetries + 1) * (tableSize + 2) * StepTimeout
<1>6. most \in Nat /\ Waited(Cardinality(streamed)) <= most
  BY <1>3, <1>4
<1> HIDE DEF most
<1>7. now <= most
  BY <1>5, <1>6 DEF Backup
<1> QED BY <1>7 DEF most, ParamBackupIsBounded

\* Frames and requests are all that restarts the wait of a backup.
LEMMA BackupEndsKeeps ==
  ASSUME BackupInv, BackupEnds,
         \/ ParamBackupNext
         \/ TimerSteps /\ UNCHANGED paramVars
         \/ UNCHANGED <<transferVars, linkVars, paramVars>>
  PROVE  BackupEnds'
<1>1. TableRequest \in ParamFrames /\ ParamFrames' = ParamFrames
  BY DEF ParamFrames
<1>2. /\ Waits(Backup) /\ ParamTypeOK /\ (Running => step \in ParamFrames)
      /\ stepRetries \in 0..MaxRetries /\ deadline = Unarmed /\ refused \in BOOLEAN
      /\ phase = "idle" => streamed = {}
  BY DEF BackupEnds, Waits
<1>3. /\ tableSize \in Nat /\ streamed \in SUBSET ((0..MaxRetries) \X (0..tableSize))
      /\ IsFiniteSet(streamed) /\ Cardinality(streamed) \in Nat
  <2>1. tableSize \in Nat /\ streamed \in SUBSET ((0..MaxRetries) \X (0..tableSize))
    BY DEF BackupInv, BackupEnds, ParamTypeOK
  <2> QED BY <2>1, StreamsAreCounted
<1>4. Backup \in Nat /\ Budget \in Nat /\ StepTimeout \in Nat
  BY <1>3, WaitedIs, BudgetsAre, BudgetAssumption DEF Backup
<1>5. ASSUME WaitsThen(Backup'), ParamTypeOK', Running' => step' \in ParamFrames, phase' # "idle" \/ streamed' = {}
      PROVE  BackupEnds'
  BY <1>1, <1>5 DEF BackupEnds, Waits, WaitsThen, Running
<1>6. ASSUME Spends \/ Ends \/ Tick \/ Still, streamed' = streamed, refused' \in BOOLEAN
      PROVE  WaitsThen(Backup') /\ (phase' = "idle" => streamed' = {})
  <2>1. Backup' \in Nat /\ Backup <= Backup'
    BY <1>2, <1>3, <1>4, <1>6, WaitedIs
       DEF Spends, Ends, Tick, Still, Backup, TimedOut, Running, transferVars, Waited
  <2>2. WaitsThen(Backup')
    BY <1>2, <1>4, <1>6, <2>1, WaitsGoOn
  <2> QED BY <1>2, <1>6, <2>2 DEF Spends, Ends, Tick, Still, transferVars
<1>7. ASSUME UNCHANGED paramVars, step' \in ParamFrames \cup {NoStep}, up' \subseteq up \cup ParamFrames
      PROVE  ParamTypeOK'
  BY <1>1, <1>2, <1>7 DEF ParamTypeOK, paramVars, tableVars, storeVars
<1>8. CASE ParamBackupStarts
  <2>1. /\ phase = "idle" /\ UNCHANGED <<linkVars, paramVars>> /\ (Begins \/ Ends)
        /\ step' = TableRequest /\ up' \subseteq up \cup {TableRequest}
    BY <1>8, SendBegins DEF ParamBackupStarts, Step, SendStep, Transmit, linkVars
  <2>2. ParamTypeOK'
    BY <1>1, <1>7, <2>1
  <2>3. phase' # "idle" /\ Backup' = Waited(0) /\ Backup = 0
    <3>1. streamed' = {} /\ Cardinality({}) = 0
      BY <1>2, <2>1, FS_EmptySet DEF paramVars, tableVars
    <3> QED BY <2>1, <3>1 DEF Begins, Ends, Backup, Waited
  <2>4. WaitsThen(Backup')
    BY <1>2, <1>4, <2>1, <2>3, WaitsGoOn, WaitedIs, 0 \in Nat DEF linkVars
  <2> QED BY <1>1, <1>5, <2>1, <2>2, <2>3, <2>4
<1>9. CASE ParamBackupHears
  <2>1. /\ phase = "running" /\ Running
        /\ UNCHANGED <<up, step, stepRetries, linkVars, bytewise, tableSize, grown, index, readValue, storeVars>>
    BY <1>9 DEF ParamBackupHears, Running, stepVars
  <2>2. PICK advertised \in {tableSize} \cup (IF grown THEN {tableSize + 1} ELSE {}), i \in Nat :
          /\ OnParamValue(i, advertised)
          /\ \/ \E n \in 0..stepRetries :
                  i \in 0..(advertised - 1) /\ <<n, i>> \notin streamed /\ streamed' = streamed \cup {<<n, i>>}
             \/ i = Unlisted /\ streamed' = streamed
    <3>1. Unlisted \in Nat /\ \A a : \A i \in 0..(a - 1) : i \in Nat
      BY DEF Unlisted
    <3> QED BY <1>9, <3>1 DEF ParamBackupHears
  <2>3. /\ advertised \in {tableSize, tableSize + 1} /\ advertised \in Nat
        /\ expected' \in {NoCount, tableSize, tableSize + 1}
        /\ byIndex' \subseteq 0..tableSize
    <3>1. advertised \in {tableSize, tableSize + 1}
      BY <2>2
    <3>2. \A size \in {tableSize, tableSize + 1} : MemberOf(i, size) => i \in 0..tableSize
      BY <1>3, <2>2 DEF MemberOf
    <3>3. expected' \in {tableSize, tableSize + 1}
      BY <1>2, <2>2, <3>1 DEF OnParamValue, ParamTypeOK
    <3>4. byIndex' \subseteq 0..tableSize
      <4>1. byIndex' = byIndex \/ (MemberOf(i, expected') /\ byIndex' = byIndex \cup {i})
        BY <2>2 DEF OnParamValue
      <4>2. byIndex \subseteq 0..tableSize
        BY <1>2 DEF ParamTypeOK
      <4> QED BY <3>2, <3>3, <4>1, <4>2
    <3> QED BY <1>3, <3>1, <3>3, <3>4
  <2>4. (Extends /\ i # Unlisted) \/ Ends \/ Still
    BY <1>2, <2>1, <2>2 DEF OnParamValue, MemberOf, Settle, Extends, Ends, Still, linkVars
  <2>5. CASE streamed' = streamed
    <3>1. ParamTypeOK'
      BY <1>1, <1>2, <2>1, <2>3, <2>5 DEF ParamTypeOK, storeVars
    <3>2. Ends \/ Still
      BY <2>2, <2>4, <2>5
    <3>3. WaitsThen(Backup') /\ (phase' = "idle" => streamed' = {})
      BY <1>2, <1>6, <2>1, <2>5, <3>2 DEF linkVars
    <3> QED BY <1>1, <1>2, <1>5, <2>1, <3>1, <3>3
  <2>6. ASSUME NEW n \in 0..stepRetries, i \in 0..(advertised - 1),
               <<n, i>> \notin streamed, streamed' = streamed \cup {<<n, i>>}
        PROVE  BackupEnds'
    <3>1. n \in 0..MaxRetries /\ i \in 0..tableSize
      BY <1>2, <1>3, <2>3, <2>6, BudgetAssumption
    <3>2. streamed' \in SUBSET ((0..MaxRetries) \X (0..tableSize))
      BY <1>3, <2>6, <3>1
    <3>3. ParamTypeOK'
      BY <1>1, <1>2, <2>1, <2>3, <3>2 DEF ParamTypeOK, storeVars
    <3>4. Cardinality(streamed') = Cardinality(streamed) + 1
      BY <1>3, <2>6, FS_AddElement
    <3>5. /\ phase' # "idle" /\ Backup' = Waited(Cardinality(streamed) + 1)
          /\ Backup = Waited(Cardinality(streamed))
      BY <2>1, <2>4, <3>4 DEF Backup, Waited, Extends, Ends, Still
    <3>6. /\ Backup' \in Nat /\ Backup + StepTimeout <= Backup' /\ Backup <= Backup'
      BY <1>3, <1>4, <3>5, WaitedIs, Cardinality(streamed) + 1 \in Nat
    <3>7. WaitsThen(Backup')
      <4>1. refused' \in BOOLEAN
        BY <1>2, <2>1 DEF linkVars
      <4>2. CASE Extends
        BY <1>2, <1>4, <2>1, <3>6, <4>1, <4>2, ExtendsByATimeout
      <4>3. CASE Ends \/ Still
        BY <1>2, <1>4, <3>6, <4>1, <4>3, WaitsGoOn
      <4> QED BY <2>4, <4>2, <4>3
    <3> QED BY <1>1, <1>2, <1>5, <2>1, <3>3, <3>5, <3>7
  <2> QED BY <2>2, <2>5, <2>6
<1>10. CASE TableGrows
  <2>1. /\ UNCHANGED <<transferVars, linkVars, bytewise, expected, byIndex, tableSize, streamed,
                       index, readValue, store, everHeld>>
        /\ grown' = TRUE
    BY <1>10 DEF TableGrows, storeVars
  <2>2. Still /\ UNCHANGED <<step, up, refused>>
    BY <2>1 DEF Still, transferVars, stepVars, linkVars
  <2>3. ParamTypeOK'
    BY <1>1, <1>2, <2>1, <2>2 DEF ParamTypeOK
  <2> QED BY <1>1, <1>2, <1>5, <1>6, <2>1, <2>2, <2>3 DEF Still, Running
<1>11. CASE Cancelled /\ UNCHANGED paramVars
  <2>1. Ends /\ ~Running' /\ UNCHANGED <<step, up, refused, streamed>>
    BY <1>2, <1>11 DEF Cancelled, Settle, Ends, stepVars, linkVars, Running, paramVars, tableVars
  <2>2. ParamTypeOK'
    BY <1>2, <1>7, <1>11, <2>1 DEF ParamTypeOK
  <2> QED BY <1>2, <1>5, <1>6, <2>1, <2>2
<1>12. CASE TimerSteps /\ UNCHANGED paramVars
  <2>1. Spends \/ Ends \/ Tick
    BY <1>2, <1>12, TimesOutSpends DEF TimerSteps
  <2>2. Running /\ step' = step /\ up' \subseteq up \cup {step} /\ UNCHANGED <<refused, streamed>>
    BY <1>2, <1>12 DEF TimerSteps, StepTimesOut, SendStep, Transmit, TimedOut, Tick, Waits,
                      transferVars, stepVars, linkVars, paramVars, tableVars
  <2>3. ParamTypeOK'
    BY <1>2, <1>7, <1>12, <2>2
  <2> QED BY <1>1, <1>2, <1>5, <1>6, <2>1, <2>2, <2>3
<1>13. CASE UNCHANGED <<transferVars, linkVars, paramVars>>
  <2>1. Still /\ UNCHANGED <<step, up, refused, streamed>>
    BY <1>13 DEF Still, transferVars, stepVars, linkVars, paramVars, tableVars
  <2>2. ParamTypeOK'
    BY <1>2, <1>7, <1>13, <2>1 DEF ParamTypeOK
  <2> QED BY <1>1, <1>2, <1>5, <1>6, <2>1, <2>2 DEF Still, Running
<1> QED BY <1>8, <1>9, <1>10, <1>11, <1>12, <1>13 DEF ParamBackupNext
-----------------------------------------------------------------------------
(* Lists of logs end *)

\* What settling and sending do to the wait of a log transfer.
LEMMA LogSettleEnds ==
  ASSUME NEW how, how # "none", LogSettle(how), stepRetries' \in 0..MaxRetries, now' = now
  PROVE  Ends /\ ~Running' /\ up' \subseteq up \cup {EndRequest} /\ (endError \in BOOLEAN => endError' \in BOOLEAN)
BY DEF LogSettle, Settle, Ends, Running

\* A request of a log transfer begins a budget, or could not be sent.
LEMMA LogSendBegins ==
  ASSUME NEW frame, LogSend(frame), stepRetries' \in 0..MaxRetries, now' = now
  PROVE  /\ \/ phase' = "running" /\ outcome' = outcome /\ timer' = now + StepTimeout /\ deadline' = Unarmed
            \/ Ends
         /\ up' \subseteq up \cup {frame, EndRequest} /\ (endError \in BOOLEAN => endError' \in BOOLEAN)
<1>1. CASE Transmit(frame, Unarmed) /\ UNCHANGED endError
  BY <1>1 DEF Transmit
<1>2. CASE LogSettle("send-failed")
  BY <1>2, LogSettleEnds
<1> QED BY <1>1, <1>2 DEF LogSend

\* A list has a budget for its request and one for each log it hears of.
ListEnds == Waits(Counted(Cardinality(entries) + 1, LogCount + 1)) /\ LogTypeOK

\* No more logs are heard of than there are.
LEMMA EntriesAreCounted ==
  ASSUME NEW got, got \subseteq 1..LogCount
  PROVE  /\ IsFiniteSet(got) /\ Cardinality(got) \in Nat /\ Cardinality(got) <= LogCount
         /\ \A id : id \notin got => Cardinality(got \cup {id}) = Cardinality(got) + 1
<1>1. IsFiniteSet(1..LogCount) /\ Cardinality(1..LogCount) = LogCount
  <2>1. CASE LogCount = 0
    <3>1. 1..LogCount = {}
      BY <2>1
    <3> QED BY <2>1, <3>1, FS_EmptySet
  <2>2. CASE LogCount # 0
    <3>1. LogCount \in Int /\ 1 \in Int /\ 1 <= LogCount /\ LogCount - 1 + 1 = LogCount
      BY <2>2, LogAssumption
    <3> QED BY <3>1, FS_Interval
  <2> QED BY <2>1, <2>2
<1>2. IsFiniteSet(got) /\ Cardinality(got) <= LogCount
  BY <1>1, FS_Subset
<1> QED BY <1>2, FS_CardinalityType, FS_AddElement

\* A list asks again for each entry at most.
LEMMA ListEndsKeeps ==
  ASSUME ListInv, ListInv', ListEnds,
         \/ LogListNext
         \/ LogListTimesOut
         \/ Tick /\ UNCHANGED logVars
         \/ UNCHANGED <<transferVars, linkVars, logVars>>
  PROVE  ListEnds'
<1>1. /\ Waits(Counted(Cardinality(entries) + 1, LogCount + 1)) /\ LogTypeOK
      /\ stepRetries \in 0..MaxRetries /\ deadline = Unarmed /\ refused \in BOOLEAN
  BY DEF ListEnds, Waits
<1>2. entries \subseteq 1..LogCount /\ entries' \subseteq 1..LogCount
  BY DEF ListInv
<1>3. /\ Cardinality(entries) \in Nat /\ Cardinality(entries) <= LogCount
      /\ Cardinality(entries') \in Nat /\ Cardinality(entries') <= LogCount
      /\ \A id : id \notin entries => Cardinality(entries \cup {id}) = Cardinality(entries) + 1
  BY <1>2, EntriesAreCounted
<1>4. ASSUME UNCHANGED <<logSize, sized, dataVars>>, endError' \in BOOLEAN, refused' = refused,
             step' \in {step, ListRequest}, up' \subseteq up \cup {ListRequest, EndRequest},
             \/ Begins /\ (phase = "idle" \/ (Running /\ Cardinality(entries') = Cardinality(entries) + 1))
             \/ Ends
             \/ (Spends \/ Tick \/ Still) /\ entries' = entries
      PROVE  ListEnds'
  <2>1. LogTypeOK'
    <3>1. LogFrames' = LogFrames /\ ListRequest \in LogFrames /\ EndRequest \in LogFrames
      BY <1>4 DEF LogFrames
    <3>2. /\ step' \in LogFrames \cup {NoStep} /\ up' \subseteq LogFrames
          /\ sized \in BOOLEAN /\ logSize \in LogSizes
          /\ received \subseteq 0..(logSize - 1) /\ eofSize \in (0..logSize) \cup {NoEnd}
          /\ windowStart \in 0..logSize /\ requestEnd \in 1..(logSize + WindowSize)
      BY <1>1, <1>4, <3>1 DEF LogTypeOK
    <3>3. /\ sized' = sized /\ logSize' = logSize /\ received' = received /\ eofSize' = eofSize
          /\ windowStart' = windowStart /\ requestEnd' = requestEnd
      BY <1>4 DEF dataVars
    <3> QED BY <1>2, <1>4, <3>1, <3>2, <3>3 DEF LogTypeOK
  <2> DEFINE n == Cardinality(entries) + 1
             k == Cardinality(entries') + 1
             most == LogCount + 1
  <2>2. n \in Nat /\ k \in Nat /\ most \in Nat /\ n <= most /\ 1 <= k
    <3>1. \A a, m \in Nat : a <= m => a + 1 \in Nat /\ m + 1 \in Nat /\ a + 1 <= m + 1 /\ 1 <= a + 1
      OBVIOUS
    <3>2. LogCount \in Nat
      BY LogAssumption
    <3> QED BY <1>3, <3>1, <3>2
  <2>3. \/ Begins /\ 1 <= k /\ ((phase = "idle") \/ (Running /\ n < k))
        \/ Ends
        \/ (Spends \/ Tick \/ Still) /\ (Running => n <= k)
    <3>1. /\ Cardinality(entries') = Cardinality(entries) + 1 => n < k
          /\ entries' = entries => n <= k
      BY <1>3
    <3> QED BY <1>4, <2>2, <3>1
  <2>4. Waits(Counted(n, most))
    BY <1>1
  <2> HIDE DEF n, k, most
  <2>5. WaitsThen(IF phase' = "idle" THEN 0 ELSE IF phase' = "running" THEN Budgets(k) ELSE Budgets(most))
    BY <1>1, <1>4, <2>2, <2>3, <2>4, CountedGoesOn
  <2>6. Waits(Counted(Cardinality(entries) + 1, LogCount + 1))'
    BY <2>5 DEF Waits, WaitsThen, Counted, Running, Budgets, Budget, Left, k, most
  <2> QED BY <2>1, <2>6 DEF ListEnds
<1>5. endError \in BOOLEAN /\ 0 \in 0..MaxRetries
  BY <1>1, BudgetAssumption DEF LogTypeOK
<1>6. CASE LogListStarts
  <2>1. /\ phase = "idle" /\ step' = ListRequest /\ stepRetries' = 0 /\ LogSend(ListRequest)
        /\ now' = now /\ refused' = refused /\ UNCHANGED <<logSize, sized, dataVars, entries>>
    BY <1>6 DEF LogListStarts, LogStep, linkVars
  <2>2. /\ Begins \/ Ends
        /\ up' \subseteq up \cup {ListRequest, EndRequest} /\ endError' \in BOOLEAN
    BY <1>5, <2>1, LogSendBegins DEF Begins
  <2> QED BY <1>4, <2>1, <2>2
<1>7. CASE LogListHears
  <2>1. PICK id \in 1..Max({LogCount, 1}) : OnEntry(id)
    BY <1>7 DEF LogListHears
  <2>2. Running /\ now' = now /\ refused' = refused /\ UNCHANGED <<logSize, sized, dataVars>>
    BY <1>7 DEF LogListHears, linkVars
  <2>3. ASSUME LogSettle("succeeded"), UNCHANGED stepVars
        PROVE  ListEnds'
    <3>1. stepRetries' = stepRetries /\ step' = step
      BY <2>3 DEF stepVars
    <3>2. Ends /\ up' \subseteq up \cup {EndRequest} /\ endError' \in BOOLEAN
      BY <1>1, <1>5, <2>2, <2>3, <3>1, LogSettleEnds
    <3> QED BY <1>4, <2>2, <3>1, <3>2
  <2>4. ASSUME id \notin entries, entries' = entries \cup {id}, NoteProgress
        PROVE  ListEnds'
    <3>1. Begins /\ UNCHANGED <<step, up, endError>>
      BY <1>1, <2>2, <2>4 DEF NoteProgress, Begins, Running
    <3>2. Cardinality(entries') = Cardinality(entries) + 1
      BY <1>3, <2>4
    <3> QED BY <1>4, <1>5, <2>2, <3>1, <3>2
  <2> QED BY <2>1, <2>3, <2>4 DEF OnEntry
<1>8. CASE LogCancelled
  <2>1. /\ LogSettle("cancelled") /\ now' = now /\ refused' = refused /\ stepRetries' = stepRetries /\ step' = step
        /\ UNCHANGED <<logSize, sized, dataVars, entries>>
    BY <1>8 DEF LogCancelled, linkVars, stepVars
  <2>2. Ends /\ up' \subseteq up \cup {EndRequest} /\ endError' \in BOOLEAN
    BY <1>1, <1>5, <2>1, LogSettleEnds
  <2> QED BY <1>4, <2>1, <2>2
<1>9. CASE LogListTimesOut
  <2>1. /\ TimedOut /\ step' = step /\ now' = now /\ refused' = refused
        /\ UNCHANGED <<logSize, sized, dataVars, entries>>
    BY <1>9 DEF LogListTimesOut, linkVars
  <2>2. CASE Retries /\ LogSend(ListRequest)
    <3>1. stepRetries' \in 0..MaxRetries
      BY <1>1, <2>2, BudgetAssumption DEF Retries
    <3>2. /\ Spends \/ Ends
          /\ up' \subseteq up \cup {ListRequest, EndRequest} /\ endError' \in BOOLEAN
      BY <1>5, <2>1, <2>2, <3>1, LogSendBegins DEF Spends
    <3> QED BY <1>4, <2>1, <3>2
  <2>3. CASE LogSettle("stalled") /\ UNCHANGED stepRetries
    <3>1. Ends /\ up' \subseteq up \cup {EndRequest} /\ endError' \in BOOLEAN
      BY <1>1, <1>5, <2>1, <2>3, LogSettleEnds
    <3> QED BY <1>4, <2>1, <3>1
  <2> QED BY <1>9, <2>2, <2>3 DEF LogListTimesOut
<1>10. CASE (Tick /\ UNCHANGED logVars) \/ UNCHANGED <<transferVars, linkVars, logVars>>
  <2>1. /\ UNCHANGED <<logSize, sized, dataVars, entries, endError, step, up, refused>>
        /\ Tick \/ Still
    BY <1>10 DEF Tick, Still, transferVars, stepVars, linkVars, logVars
  <2> QED BY <1>4, <1>5, <2>1
<1> QED BY <1>6, <1>7, <1>8, <1>9, <1>10 DEF LogListNext

-----------------------------------------------------------------------------
(* Packets, windows and what is kept of a log *)

\* An offset between two whole packets.
Aligned(o) == o % PacketSize = 0

\* Division by whole packets.
LEMMA DivisionIs ==
  ASSUME NEW p \in Nat \ {0}
  PROVE  /\ \A a \in Nat : a \div p \in Nat /\ a % p \in 0..(p - 1) /\ a = p * (a \div p) + (a % p)
         /\ \A a \in Nat : (p * a) % p = 0
         /\ \A a, b \in Nat : a <= b => a \div p <= b \div p
         /\ \A a \in Nat : (a + p) \div p = a \div p + 1
<1>1. \A a \in Nat : a \div p \in Nat /\ a % p \in 0..(p - 1) /\ a = p * (a \div p) + (a % p)
  OBVIOUS
<1>2. \A a \in Nat : (p * a) % p = 0
  <2> SUFFICES ASSUME NEW a \in Nat
               PROVE  (p * a) % p = 0
    OBVIOUS
  <2> DEFINE x == p * a
             q == x \div p
             r == x % p
  <2>1. x \in Nat /\ q \in Nat /\ r \in 0..(p - 1) /\ x = p * q + r
    BY <1>1
  <2>2. x = p * a
    OBVIOUS
  <2> HIDE DEF x, q, r
  <2>3. \A m \in Nat : /\ m < a => p * m + p <= p * a
                       /\ a < m => p * a + p <= p * m
    <3> SUFFICES ASSUME NEW m \in Nat
                 PROVE  (m < a => p * m + p <= p * a) /\ (a < m => p * a + p <= p * m)
      OBVIOUS
    <3>1. \A i, j \in Nat : i <= j => p * i <= p * j
      OBVIOUS
    <3>2. p * (m + 1) = p * m + p /\ p * (a + 1) = p * a + p
      OBVIOUS
    <3>3. m < a => p * (m + 1) <= p * a
      BY <3>1
    <3>4. a < m => p * (a + 1) <= p * m
      BY <3>1
    <3> QED BY <3>2, <3>3, <3>4
  <2>4. q = a
    BY <2>1, <2>2, <2>3
  <2>5. r = 0
    BY <2>1, <2>2, <2>4
  <2> QED BY <2>5 DEF x, r
<1>3. \A a, b \in Nat : a <= b => a \div p <= b \div p
  OBVIOUS
<1>4. \A a \in Nat : (a + p) \div p = a \div p + 1
  OBVIOUS
<1> QED BY <1>1, <1>2, <1>3, <1>4

\* Whole packets stay whole when they are put together or taken apart.
LEMMA PacketsAre ==
  /\ Aligned(0) /\ Aligned(PacketSize) /\ Aligned(WindowSize) /\ WindowSize \in Nat \ {0} /\ PacketSize <= WindowSize
  /\ \A a, b \in Nat : Aligned(a) /\ Aligned(b) => Aligned(a + b)
  /\ \A a, b \in Nat : a <= b /\ Aligned(a) /\ Aligned(b) => Aligned(b - a)
  /\ \A a, b \in Nat : a < b /\ Aligned(a) /\ Aligned(b) => a + PacketSize <= b
<1> DEFINE p == PacketSize
<1>1. p \in Nat \ {0} /\ WindowPackets \in Nat \ {0}
  BY LogAssumption
<1> HIDE DEF p
<1>2. \A a \in Nat : a \div p \in Nat /\ (a % p = 0 => a = p * (a \div p)) /\ (p * a) % p = 0
  BY <1>1, DivisionIs
<1>3. \A x, y \in Nat : /\ p * x \in Nat /\ p * x + p * y = p * (x + y) /\ (x <= y => p * y - p * x = p * (y - x))
                        /\ (p * x < p * y => x + 1 <= y) /\ (x + 1 <= y => p * x + p <= p * y)
                        /\ (x <= y => p * x <= p * y) /\ (p * x <= p * y => x <= y)
  <2>1. \A x, y \in Nat : p * x \in Nat /\ p * x + p * y = p * (x + y)
    BY <1>1
  <2>2. \A x, y \in Nat : x <= y => p * x <= p * y
    BY <1>1
  <2>3. \A x, y \in Nat : x + 1 <= y => p * x + p <= p * y
    <3> SUFFICES ASSUME NEW x \in Nat, NEW y \in Nat, x + 1 <= y
                 PROVE  p * x + p <= p * y
      OBVIOUS
    <3>1. p * (x + 1) <= p * y /\ p * (x + 1) = p * x + p
      BY <1>1, <2>2, x + 1 \in Nat
    <3> QED BY <3>1
  <2>4. \A x, y \in Nat : p * x < p * y => x + 1 <= y
    <3> SUFFICES ASSUME NEW x \in Nat, NEW y \in Nat, ~(x + 1 <= y)
                 PROVE  ~(p * x < p * y)
      OBVIOUS
    <3>1. y <= x
      OBVIOUS
    <3> QED BY <2>1, <2>2, <3>1
  <2>5. \A x, y \in Nat : p * x <= p * y => x <= y
    <3> SUFFICES ASSUME NEW x \in Nat, NEW y \in Nat, ~(x <= y)
                 PROVE  ~(p * x <= p * y)
      OBVIOUS
    <3>1. y + 1 <= x
      OBVIOUS
    <3> QED BY <1>1, <2>1, <2>3, <3>1
  <2>6. \A x, y \in Nat : x <= y => p * y - p * x = p * (y - x)
    BY <1>1
  <2> QED BY <2>1, <2>2, <2>3, <2>4, <2>5, <2>6
<1>4. \A a \in Nat : a % p = 0 <=> \E x \in Nat : a = p * x
  BY <1>2
<1>5. 0 % p = 0 /\ p % p = 0
  <2>1. 0 = p * 0 /\ p = p * 1
    BY <1>1
  <2> QED BY <1>1, <1>4, <2>1, 0 \in Nat, 1 \in Nat
<1>6. (p * WindowPackets) % p = 0 /\ p * WindowPackets \in Nat \ {0} /\ p <= p * WindowPackets
  <2>1. \A x \in Nat \ {0} : x * WindowPackets \in Nat \ {0} /\ x <= x * WindowPackets
    BY <1>1
  <2> QED BY <1>1, <1>2, <2>1
<1>7. \A a, b \in Nat : a % p = 0 /\ b % p = 0 => (a + b) % p = 0
  <2> SUFFICES ASSUME NEW a \in Nat, NEW b \in Nat, a % p = 0, b % p = 0
               PROVE  (a + b) % p = 0
    OBVIOUS
  <2>1. PICK x \in Nat, y \in Nat : a = p * x /\ b = p * y
    BY <1>4
  <2>2. a + b = p * (x + y) /\ x + y \in Nat /\ a + b \in Nat
    BY <1>3, <2>1
  <2> QED BY <1>4, <2>2
<1>8. \A a, b \in Nat : a <= b /\ a % p = 0 /\ b % p = 0 => (b - a) % p = 0
  <2> SUFFICES ASSUME NEW a \in Nat, NEW b \in Nat, a <= b, a % p = 0, b % p = 0
               PROVE  (b - a) % p = 0
    OBVIOUS
  <2>1. PICK x \in Nat, y \in Nat : a = p * x /\ b = p * y
    BY <1>4
  <2>2. x <= y
    BY <1>3, <2>1
  <2>3. b - a = p * (y - x) /\ y - x \in Nat /\ b - a \in Nat
    BY <1>3, <2>1, <2>2
  <2> QED BY <1>4, <2>3
<1>9. \A a, b \in Nat : a < b /\ a % p = 0 /\ b % p = 0 => a + p <= b
  <2> SUFFICES ASSUME NEW a \in Nat, NEW b \in Nat, a < b, a % p = 0, b % p = 0
               PROVE  a + p <= b
    OBVIOUS
  <2>1. PICK x \in Nat, y \in Nat : a = p * x /\ b = p * y
    BY <1>4
  <2>2. x + 1 <= y
    BY <1>3, <2>1
  <2> QED BY <1>3, <2>1, <2>2
<1> QED BY <1>1, <1>5, <1>6, <1>7, <1>8, <1>9 DEF Aligned, WindowSize, p

\* What is kept of an unsized log is whole packets, the last of which names the end.
Whole(got) == \A o \in 1..(logSize - 1) : ~Aligned(o) => (o \in got <=> (o - 1) \in got)
\* Offsets that a download keeps, and what it takes for the end, are the log's.
Held(got, eof) ==
  /\ got \subseteq 0..(logSize - 1) /\ eof \in {NoEnd, logSize}
  /\ ~sized => Whole(got)
  /\ ~sized /\ (logSize - 1) \in got /\ ~Aligned(logSize) => eof = logSize

\* A request begins in the log and, where the end is not known from elsewhere, is
\* for whole packets or up to the end.
Within(ofs, size) ==
  /\ ofs \in 0..logSize /\ size \in 1..WindowSize
  /\ ~sized => Aligned(ofs) /\ (Aligned(size) \/ ofs + size = logSize)

\* The data of a download.
LogData ==
  /\ sized \in BOOLEAN /\ logSize \in LogSizes
  /\ Held(received, eofSize)
  /\ windowStart \in 0..logSize /\ Aligned(windowStart)
  /\ requestEnd \in 1..(logSize + WindowSize)
  /\ \A r \in up : r.kind \in {"log-window", "log-hole"} => Within(r.ofs, r.size)

\* A window reaches as far as the end that is known.
LEMMA LimitIs ==
  ASSUME LogData, NEW got, NEW eof, Held(got, eof)
  PROVE  /\ logSize \in Nat /\ windowStart \in Nat /\ windowEnd \in Nat /\ windowEnd = windowStart + WindowSize
         /\ Aligned(windowEnd)
         /\ Limit(eof) \in {windowEnd, logSize} /\ Limit(eof) <= windowEnd
         /\ eof = logSize => Limit(eof) <= logSize
<1>1. /\ logSize \in Nat /\ windowStart \in Nat /\ WindowSize \in Nat \ {0} /\ Aligned(windowStart)
      /\ windowStart + WindowSize \in Nat /\ Aligned(windowStart + WindowSize)
  <2>1. logSize \in Nat
    BY LogAssumption DEF LogData
  <2>2. windowStart \in Nat
    BY <2>1 DEF LogData
  <2> QED BY <2>1, <2>2, PacketsAre DEF LogData
<1>2. KnownEnd(eof) = logSize \/ (KnownEnd(eof) = NoEnd /\ eof = NoEnd)
  BY DEF KnownEnd, Held
<1>3. logSize # NoEnd
  BY <1>1 DEF NoEnd
<1>4. CASE KnownEnd(eof) = logSize
  <2>1. Limit(eof) = Min({logSize, windowEnd})
    BY <1>3, <1>4 DEF Limit
  <2>2. Min({logSize, windowEnd}) \in {logSize, windowEnd} /\ Min({logSize, windowEnd}) <= logSize
        /\ Min({logSize, windowEnd}) <= windowEnd
    BY <1>1, MinOfPair DEF windowEnd
  <2> QED BY <1>1, <2>1, <2>2 DEF windowEnd
<1>5. CASE KnownEnd(eof) = NoEnd /\ eof = NoEnd
  BY <1>1, <1>3, <1>5 DEF Limit, windowEnd
<1> QED BY <1>2, <1>4, <1>5

\* A set of numbers has a least one.
LEMMA LeastOf ==
  ASSUME NEW S, S \subseteq Nat, S # {}
  PROVE  Min(S) \in S /\ \A y \in S : Min(S) <= y
<1>1. PICK x \in S : \A y \in S : ~(<<y, x>> \in OpToRel(<, Nat))
  BY WFMin, NatLessThanWellFounded
<1>2. \A y \in S : y < x => <<y, x>> \in OpToRel(<, Nat)
  BY <1>1 DEF OpToRel
<1>3. x \in S /\ \A y \in S : ~(y < x)
  BY <1>1, <1>2, Zenon
<1>4. \A y \in S : x <= y
  BY <1>3
<1>5. \E z \in S : \A y \in S : z <= y
  BY <1>3, <1>4, Zenon
<1> QED BY <1>5, Zenon DEF Min

\* A hole begins where something is missing and ends where something is again, or
\* where the window does.
LEMMA HoleIs ==
  ASSUME LogData, NEW got, NEW eof, Held(got, eof), Missing(got, eof) # {}
  PROVE  \E start, end \in Nat :
           /\ Hole(got, eof) = HoleRequest(start, end - start)
           /\ start \notin got /\ windowStart <= start /\ start < end /\ end <= Limit(eof)
           /\ start = windowStart \/ (start - 1) \in got
           /\ end = Limit(eof) \/ (end \in got /\ (end - 1) \notin got)
<1>1. /\ logSize \in Nat /\ windowStart \in Nat /\ Limit(eof) \in Nat
  BY LimitIs
<1> DEFINE start == Min(Missing(got, eof))
           stops == {o \in (start + 1)..Limit(eof) : o = Limit(eof) \/ o \in got}
           end == Min(stops)
<1>2. Hole(got, eof) = HoleRequest(start, end - start)
  BY DEF Hole
<1>3. start \in Missing(got, eof) /\ \A y \in Missing(got, eof) : start <= y
  <2>1. Missing(got, eof) \subseteq Nat
    BY <1>1 DEF Missing
  <2> QED BY <2>1, LeastOf
<1> HIDE DEF start
<1>4. /\ start \in Nat /\ start \notin got /\ windowStart <= start /\ start < Limit(eof)
      /\ start = windowStart \/ (start - 1) \in got
  <2>1. start \in windowStart..(Limit(eof) - 1) /\ start \notin got
    BY <1>3 DEF Missing
  <2>2. start \in Nat /\ windowStart <= start /\ start < Limit(eof)
    BY <1>1, <2>1
  <2>3. ASSUME start # windowStart
        PROVE  (start - 1) \in got
    <3>1. start - 1 \in windowStart..(Limit(eof) - 1) /\ ~(start <= start - 1)
      BY <1>1, <2>2, <2>3
    <3>2. start - 1 \notin Missing(got, eof)
      BY <1>3, <3>1
    <3> QED BY <3>1, <3>2 DEF Missing
  <2> QED BY <2>1, <2>2, <2>3
<1>5. end \in stops /\ \A y \in stops : end <= y
  <2>1. stops \subseteq Nat /\ Limit(eof) \in stops
    BY <1>1, <1>4
  <2> QED BY <2>1, LeastOf
<1>6. /\ end \in (start + 1)..Limit(eof)
      /\ end = Limit(eof) \/ end \in got
  BY <1>5
<1>7. \A o \in (start + 1)..Limit(eof) : o \in got => end <= o
  BY <1>5
<1> HIDE DEF end, stops
<1>8. end \in Nat /\ start < end /\ end <= Limit(eof)
  BY <1>1, <1>4, <1>6
<1>9. (end - 1) \notin got
  <2>1. CASE end - 1 = start
    BY <1>4, <2>1
  <2>2. CASE end - 1 # start
    <3>1. end - 1 \in (start + 1)..Limit(eof) /\ ~(end <= end - 1)
      BY <1>1, <1>4, <1>8, <2>2
    <3> QED BY <1>7, <3>1
  <2> QED BY <2>1, <2>2
<1> QED BY <1>2, <1>4, <1>6, <1>8, <1>9

\* A hole is asked for within the log, in whole packets.
LEMMA HoleIsWithin ==
  ASSUME LogData, NEW got, NEW eof, Held(got, eof), Missing(got, eof) # {}
  PROVE  \E start, end \in Nat :
           /\ Hole(got, eof) = HoleRequest(start, end - start) /\ Within(start, end - start)
           /\ start + (end - start) = end /\ end \in 1..(logSize + WindowSize)
<1>1. PICK start \in Nat, end \in Nat :
           /\ Hole(got, eof) = HoleRequest(start, end - start)
           /\ start \notin got /\ windowStart <= start /\ start < end /\ end <= Limit(eof)
           /\ start = windowStart \/ (start - 1) \in got
           /\ end = Limit(eof) \/ (end \in got /\ (end - 1) \notin got)
  BY HoleIs
<1>2. /\ logSize \in Nat /\ windowStart \in Nat /\ windowEnd \in Nat /\ windowEnd = windowStart + WindowSize
      /\ Aligned(windowEnd) /\ WindowSize \in Nat /\ windowStart <= logSize /\ Aligned(windowStart)
      /\ Limit(eof) \in {windowEnd, logSize} /\ Limit(eof) <= windowEnd
      /\ eof = logSize => Limit(eof) <= logSize
  BY LimitIs, PacketsAre DEF LogData
<1>3. \A o \in got : o \in Nat /\ o < logSize
  BY <1>2 DEF Held
<1>4. start \in 0..logSize
  <2>1. CASE start = windowStart
    BY <1>2, <2>1
  <2>2. CASE (start - 1) \in got
    <3>1. start - 1 < logSize
      BY <1>3, <2>2
    <3> QED BY <1>2, <3>1
  <2> QED BY <1>1, <2>1, <2>2
<1>5. end - start \in 1..WindowSize /\ start + (end - start) = end /\ end \in 1..(logSize + WindowSize)
  BY <1>1, <1>2
<1>6. ASSUME ~sized
      PROVE  Aligned(start)
  <2>1. CASE start = windowStart
    BY <1>2, <2>1
  <2>2. CASE (start - 1) \in got /\ start < logSize
    <3>1. start - 1 \in Nat /\ start \in 1..(logSize - 1)
      BY <1>2, <1>3, <2>2
    <3> QED BY <1>1, <1>6, <2>2, <3>1 DEF Held, Whole
  <2>3. CASE (start - 1) \in got /\ start = logSize
    <3>1. ~(eof = logSize)
      BY <1>1, <1>2, <2>3
    <3> QED BY <1>6, <2>3, <3>1 DEF Held
  <2> QED BY <1>1, <1>2, <1>4, <2>1, <2>2, <2>3
<1>7. ASSUME ~sized
      PROVE  Aligned(end) \/ end = logSize
  <2>1. CASE end = Limit(eof)
    BY <1>2, <2>1
  <2>2. CASE end \in got /\ (end - 1) \notin got
    <3>1. end \in 1..(logSize - 1)
      BY <1>1, <1>2, <1>3, <2>2
    <3> QED BY <1>7, <2>2, <3>1 DEF Held, Whole
  <2> QED BY <1>1, <2>1, <2>2
<1>8. ~sized => Aligned(end - start) \/ end = logSize
  BY <1>1, <1>6, <1>7, PacketsAre
<1> QED BY <1>1, <1>4, <1>5, <1>6, <1>8 DEF Within

\* What comes of a request is the end mark, or a part of the log: a whole packet,
\* or the last one, where nothing else names the end.
Part(ofs, size) ==
  /\ ofs \in Nat /\ size \in Nat \ {0} /\ ofs + size <= logSize
  /\ ~sized => Aligned(ofs) /\ (size = PacketSize \/ (size < PacketSize /\ ofs + size = logSize))

\* What the vehicle streams of a window is parts of the log, or names its end.
LEMMA StreamedIs ==
  ASSUME logSize \in Nat, NEW r, Within(r.ofs, r.size), NEW m \in Streamed(r)
  PROVE  (m.size = 0 /\ m.ofs = logSize) \/ Part(m.ofs, m.size)
<1>1. /\ r.ofs \in Nat /\ r.size \in Nat \ {0} /\ r.ofs <= logSize /\ PacketSize \in Nat \ {0}
  <2>1. WindowSize \in Nat
    BY PacketsAre
  <2>2. r.ofs \in 0..logSize /\ r.size \in 1..WindowSize
    BY DEF Within
  <2> QED BY <2>1, <2>2, LogAssumption
<1> DEFINE last == Min({r.ofs + r.size, logSize})
           SizeAt(o) == Min({PacketSize, last - o})
           Offsets == {p \in r.ofs..(last - 1) : (p - r.ofs) % PacketSize = 0}
           full == {Data(OurLog, o, SizeAt(o)) : o \in Offsets}
           short == UNION {{Data(OurLog, f.ofs, s) : s \in 1..(f.size - 1)} : f \in full}
<1>2. last \in Nat /\ last \in {r.ofs + r.size, logSize} /\ last <= r.ofs + r.size /\ last <= logSize
  <2> DEFINE a == r.ofs + r.size
  <2>1. a \in Nat /\ a \in Int /\ logSize \in Int
    BY <1>1
  <2> HIDE DEF a
  <2>2. Min({a, logSize}) \in {a, logSize} /\ Min({a, logSize}) <= a /\ Min({a, logSize}) <= logSize
    BY <2>1, MinOfPair
  <2>3. Min({a, logSize}) \in Nat
    BY <2>1, <2>2
  <2> QED BY <2>2, <2>3 DEF a
<1>3. \A a, o, s : Data(a, o, s).ofs = o /\ Data(a, o, s).size = s
  BY DEF Data
<1>4. m \in full \/ (sized /\ m \in short) \/ m = Data(OurLog, logSize, 0)
  BY DEF Streamed
<1> HIDE DEF last
<1>5. ASSUME NEW o \in Offsets
      PROVE  /\ o \in Nat /\ SizeAt(o) \in Nat \ {0} /\ o + SizeAt(o) <= last
             /\ SizeAt(o) = PacketSize \/ (SizeAt(o) < PacketSize /\ o + SizeAt(o) = last)
             /\ Aligned(o - r.ofs) /\ r.ofs <= o
  <2>1. o \in Nat /\ last - o \in Nat \ {0} /\ r.ofs <= o
    BY <1>1, <1>2
  <2>2. /\ SizeAt(o) \in {PacketSize, last - o} /\ SizeAt(o) <= PacketSize /\ SizeAt(o) <= last - o
    <3> DEFINE b == last - o
    <3>1. b \in Int /\ PacketSize \in Int
      BY <1>1, <2>1
    <3> HIDE DEF b
    <3>2. Min({PacketSize, b}) \in {PacketSize, b} /\ Min({PacketSize, b}) <= PacketSize /\ Min({PacketSize, b}) <= b
      BY <3>1, MinOfPair
    <3> QED BY <3>2 DEF b
  <2> HIDE DEF SizeAt
  <2>3. Aligned(o - r.ofs)
    BY DEF Aligned
  <2> QED BY <1>1, <1>2, <2>1, <2>2, <2>3
<1>6. ASSUME NEW o \in Offsets
      PROVE  Part(o, SizeAt(o))
  <2> DEFINE n == SizeAt(o)
  <2>1. /\ o \in Nat /\ n \in Nat \ {0} /\ o + n <= last /\ Aligned(o - r.ofs) /\ r.ofs <= o
        /\ n = PacketSize \/ (n < PacketSize /\ o + n = last)
    BY <1>5
  <2> HIDE DEF n, SizeAt, Offsets
  <2>2. ASSUME ~sized
        PROVE  Aligned(o) /\ (n = PacketSize \/ (n < PacketSize /\ o + n = logSize))
    <3>1. Aligned(r.ofs) /\ (Aligned(r.size) \/ r.ofs + r.size = logSize)
      BY <2>2 DEF Within
    <3>2. Aligned(o)
      <4>1. o = r.ofs + (o - r.ofs) /\ o - r.ofs \in Nat
        BY <1>1, <2>1
      <4>2. Aligned(r.ofs + (o - r.ofs))
        BY <1>1, <2>1, <3>1, <4>1, PacketsAre
      <4> QED BY <4>1, <4>2
    <3>3. ASSUME n < PacketSize, o + n = last, last # logSize
          PROVE  FALSE
      <4>1. last = r.ofs + r.size /\ Aligned(r.size)
        BY <1>2, <3>1, <3>3
      <4>2. Aligned(last)
        BY <1>1, <3>1, <4>1, PacketsAre
      <4>3. o + PacketSize <= last
        BY <1>2, <2>1, <3>2, <3>3, <4>2, PacketsAre
      <4> QED BY <1>1, <2>1, <3>3, <4>3
    <3> QED BY <2>1, <3>2, <3>3
  <2>3. o + n <= logSize
    BY <1>2, <2>1
  <2>4. Part(o, n)
    BY <2>1, <2>2, <2>3 DEF Part
  <2> QED BY <2>4 DEF n
<1>7. CASE m \in full
  <2>1. PICK o \in Offsets : m = Data(OurLog, o, SizeAt(o))
    BY <1>7
  <2> QED BY <1>3, <1>6, <2>1
<1>8. CASE sized /\ m \in short
  <2> PICK f \in full : m \in {Data(OurLog, f.ofs, s) : s \in 1..(f.size - 1)}
    BY <1>8
  <2>1. PICK s \in 1..(f.size - 1) : m = Data(OurLog, f.ofs, s)
    OBVIOUS
  <2>2. PICK o \in Offsets : f = Data(OurLog, o, SizeAt(o))
    BY <2>1
  <2>3. f.ofs = o /\ f.size = SizeAt(o) /\ m.ofs = o /\ m.size = s
    BY <1>3, <2>1, <2>2
  <2>4. o \in Nat /\ SizeAt(o) \in Nat /\ o + SizeAt(o) <= last
    BY <1>5
  <2> HIDE DEF SizeAt, Offsets
  <2>5. s \in Nat \ {0} /\ o + s <= logSize
    BY <1>2, <2>1, <2>3, <2>4
  <2> QED BY <1>8, <2>3, <2>4, <2>5 DEF Part
<1>9. CASE m = Data(OurLog, logSize, 0)
  BY <1>3, <1>9
<1> QED BY <1>4, <1>7, <1>8, <1>9

\* A part that is put to what is held keeps it whole.
LEMMA PartKeepsHeld ==
  ASSUME LogData, NEW ofs, NEW size, Part(ofs, size), NEW end, end = ofs + size
  PROVE  Held(received \cup ofs..(end - 1), EndBy(end, size))
<1> DEFINE got == received \cup ofs..(end - 1)
           eof == EndBy(end, size)
<1>1. /\ logSize \in Nat /\ PacketSize \in Nat \ {0} /\ ofs \in Nat /\ size \in Nat \ {0} /\ end \in Nat
      /\ ofs < end /\ end <= logSize /\ received \subseteq 0..(logSize - 1) /\ eofSize \in {NoEnd, logSize}
  BY LogAssumption DEF LogData, Held, Part
<1>2. got \subseteq 0..(logSize - 1)
  BY <1>1
<1>3. \A x \in Int : x \in got <=> x \in received \/ (ofs <= x /\ x < end)
  BY <1>1
<1>4. eof \in {NoEnd, logSize}
  BY <1>1 DEF EndBy, Part
<1>5. ASSUME ~sized
      PROVE  /\ Aligned(ofs) /\ (Aligned(end) \/ end = logSize)
             /\ size < PacketSize => eof = logSize
             /\ ~(size < PacketSize) => Aligned(end) /\ eof = eofSize
             /\ eofSize = logSize => eof = logSize
  <2>1. Aligned(ofs) /\ (size = PacketSize \/ (size < PacketSize /\ end = logSize))
    BY <1>5 DEF Part
  <2>2. size = PacketSize => Aligned(end)
    BY <1>1, <2>1, PacketsAre
  <2> QED BY <1>1, <1>5, <2>1, <2>2 DEF EndBy
<1> HIDE DEF got, eof
<1>6. ASSUME ~sized
      PROVE  Whole(got)
  <2> SUFFICES ASSUME NEW o \in 1..(logSize - 1), ~Aligned(o)
               PROVE  o \in got <=> (o - 1) \in got
    BY DEF Whole
  <2>1. o \in received <=> (o - 1) \in received
    BY <1>6 DEF LogData, Held, Whole
  <2>2. o # ofs /\ o # end
    BY <1>1, <1>5, <1>6
  <2>3. o \in Int /\ o - 1 \in Int /\ ((ofs <= o /\ o < end) <=> (ofs <= o - 1 /\ o - 1 < end))
    BY <1>1, <2>2
  <2> QED BY <1>3, <2>1, <2>3
<1>7. ASSUME ~sized, (logSize - 1) \in got, ~Aligned(logSize)
      PROVE  eof = logSize
  <2>1. CASE (logSize - 1) \in received
    <3>1. eofSize = logSize
      BY <1>7, <2>1 DEF LogData, Held
    <3> QED BY <1>5, <1>7, <3>1
  <2>2. CASE (logSize - 1) \notin received
    <3>1. end = logSize
      BY <1>1, <1>3, <1>7, <2>2
    <3> QED BY <1>5, <1>7, <3>1
  <2> QED BY <2>1, <2>2
<1>8. Held(got, eof)
  BY <1>2, <1>4, <1>6, <1>7 DEF Held
<1> QED BY <1>8 DEF got, eof

-----------------------------------------------------------------------------
(* Downloads of logs end *)

\* The end mark, should it come again, would ask for nothing.
Met == eofSize = logSize /\ ~AsksHole(received, eofSize) /\ ~AsksWindow(received, eofSize)

\* Requests and packets that a download has had: what is kept is counted twice,
\* for the end mark may ask for the rest of a hole again.
Marks == IF Met THEN 1 ELSE 0
Asks == 2 * Cardinality(received) + (windowStart \div WindowSize) + 1 + Marks
MostAsks == 2 * logSize + (logSize \div WindowSize) + 2

\* A download of a log waits for what it has asked, and keeps the log's data.
LogEnds ==
  /\ Waits(Counted(Asks, MostAsks)) /\ LogTypeOK /\ LogData
  /\ phase = "idle" => windowStart = 0

\* Offsets that are kept are counted.
LEMMA OffsetsAreCounted ==
  ASSUME NEW size \in Nat, NEW got, got \subseteq 0..(size - 1)
  PROVE  /\ IsFiniteSet(got) /\ Cardinality(got) \in Nat /\ Cardinality(got) <= size
         /\ \A part \in SUBSET got : part # got => Cardinality(part) + 1 <= Cardinality(got)
<1>1. IsFiniteSet(0..(size - 1)) /\ Cardinality(0..(size - 1)) = size
  <2>1. CASE size = 0
    <3>1. 0..(size - 1) = {}
      BY <2>1
    <3> QED BY <2>1, <3>1, FS_EmptySet
  <2>2. CASE size # 0
    <3>1. 0 \in Int /\ size - 1 \in Int /\ 0 <= size - 1 /\ size - 1 - 0 + 1 = size
      BY <2>2
    <3> QED BY <3>1, FS_Interval
  <2> QED BY <2>1, <2>2
<1>2. IsFiniteSet(got) /\ Cardinality(got) <= size /\ Cardinality(got) \in Nat
  BY <1>1, FS_Subset, FS_CardinalityType
<1>3. ASSUME NEW part \in SUBSET got, part # got
      PROVE  Cardinality(part) + 1 <= Cardinality(got)
  <2>1. IsFiniteSet(part) /\ Cardinality(part) \in Nat /\ Cardinality(part) <= Cardinality(got)
    BY <1>2, FS_Subset, FS_CardinalityType
  <2>2. Cardinality(part) # Cardinality(got)
    BY <1>2, <1>3, FS_Subset
  <2> QED BY <1>2, <2>1, <2>2
<1> QED BY <1>2, <1>3

\* Requests and packets are no more than what there is allows.
LEMMA AsksAre ==
  ASSUME LogData
  PROVE  Asks \in Nat /\ MostAsks \in Nat /\ Asks <= MostAsks
<1> DEFINE c == Cardinality(received)
           v == windowStart \div WindowSize
           most == logSize \div WindowSize
           e == Marks
<1>1. /\ logSize \in Nat /\ WindowSize \in Nat \ {0} /\ windowStart \in Nat /\ windowStart <= logSize
      /\ received \subseteq 0..(logSize - 1)
  <2>1. logSize \in Nat /\ windowStart \in 0..logSize /\ received \subseteq 0..(logSize - 1)
    BY LogAssumption DEF LogData, Held
  <2> QED BY <2>1, PacketsAre
<1>2. c \in Nat /\ c <= logSize
  BY <1>1, OffsetsAreCounted
<1>3. v \in Nat /\ most \in Nat /\ v <= most
  BY <1>1, DivisionIs
<1>4. e \in {0, 1}
  BY DEF Marks
<1>5. Asks = 2 * c + v + 1 + e /\ MostAsks = 2 * logSize + most + 2
  BY DEF Asks, MostAsks
<1> HIDE DEF c, v, most, e
<1> QED BY <1>1, <1>2, <1>3, <1>4, <1>5

\* What is kept, the window that moves and the end mark that is met all count.
LEMMA AsksGrow ==
  ASSUME LogData, LogData', UNCHANGED logSize, received \subseteq received',
         windowStart' \in {windowStart, windowStart + WindowSize}
  PROVE  /\ Asks \in Nat /\ MostAsks \in Nat /\ Asks <= MostAsks /\ Asks' \in Nat /\ Asks' <= MostAsks
         /\ 1 <= Asks' /\ MostAsks' = MostAsks
         /\ received' # received => Asks < Asks'
         /\ windowStart' # windowStart /\ ~Met => Asks < Asks'
         /\ Met' /\ ~Met => Asks < Asks'
         /\ (Met => Met') => Asks <= Asks'
<1> DEFINE c == Cardinality(received)
           d == Cardinality(received')
           v == windowStart \div WindowSize
           w == windowStart' \div WindowSize
           most == logSize \div WindowSize
           e == Marks
           f == Marks'
<1>1. /\ logSize \in Nat /\ WindowSize \in Nat \ {0} /\ windowStart \in Nat /\ windowStart' \in Nat
      /\ windowStart <= logSize /\ windowStart' <= logSize
      /\ received \subseteq 0..(logSize - 1) /\ received' \subseteq 0..(logSize - 1)
  <2>1. logSize \in Nat /\ logSize' = logSize
    BY LogAssumption DEF LogData
  <2>2. windowStart \in 0..logSize /\ windowStart' \in 0..logSize
    BY <2>1 DEF LogData
  <2>3. received \subseteq 0..(logSize - 1) /\ received' \subseteq 0..(logSize - 1)
    BY <2>1 DEF LogData, Held
  <2> QED BY <2>1, <2>2, <2>3, PacketsAre
<1>2. c \in Nat /\ d \in Nat /\ c <= logSize /\ d <= logSize /\ c <= d /\ (received' # received => c + 1 <= d)
  <2>1. c \in Nat /\ d \in Nat /\ c <= logSize /\ d <= logSize
    BY <1>1, OffsetsAreCounted
  <2>2. received' # received => c + 1 <= d
    BY <1>1, OffsetsAreCounted
  <2>3. received' = received => c = d
    OBVIOUS
  <2> QED BY <2>1, <2>2, <2>3
<1>3. v \in Nat /\ w \in Nat /\ most \in Nat /\ v <= most /\ w <= most /\ v <= w
      /\ (windowStart' # windowStart => w = v + 1)
  <2>1. v \in Nat /\ w \in Nat /\ most \in Nat /\ v <= most /\ w <= most
    BY <1>1, DivisionIs
  <2>2. (windowStart + WindowSize) \div WindowSize = v + 1
    BY <1>1, DivisionIs
  <2> QED BY <2>1, <2>2
<1>4. e \in {0, 1} /\ f \in {0, 1} /\ (~Met => e = 0) /\ (Met' => f = 1) /\ ((Met => Met') => e <= f)
  BY DEF Marks
<1>5. Asks = 2 * c + v + 1 + e /\ Asks' = 2 * d + w + 1 + f /\ MostAsks = 2 * logSize + most + 2
  BY DEF Asks, MostAsks, WindowSize
<1>6. MostAsks' = MostAsks
  BY DEF MostAsks, WindowSize
<1> HIDE DEF c, d, v, w, most, e, f
<1>7. /\ Asks \in Nat /\ MostAsks \in Nat /\ Asks <= MostAsks /\ Asks' \in Nat /\ Asks' <= MostAsks /\ 1 <= Asks'
  BY <1>1, <1>2, <1>3, <1>4, <1>5
<1>8. received' # received => Asks < Asks'
  BY <1>2, <1>3, <1>4, <1>5
<1>9. windowStart' # windowStart /\ ~Met => Asks < Asks'
  BY <1>2, <1>3, <1>4, <1>5
<1>10. Met' /\ ~Met => Asks < Asks'
  BY <1>2, <1>3, <1>4, <1>5
<1>11. (Met => Met') => Asks <= Asks'
  BY <1>2, <1>3, <1>4, <1>5
<1> QED BY <1>6, <1>7, <1>8, <1>9, <1>10, <1>11

\* The next request is for a hole within the log, or for the next window.
LEMMA GapIs ==
  ASSUME LogData, NEW got, NEW eof, Held(got, eof), RequestGap(got, eof), UNCHANGED <<sized, logSize>>
  PROVE  \E ofs, size \in Nat :
           /\ Within(ofs, size) /\ step' \in {HoleRequest(ofs, size), WindowRequest(ofs)}
           /\ step' = WindowRequest(ofs) => size = WindowSize
           /\ stepRetries' = 0 /\ LogSend(step')
           /\ requestEnd' \in 1..(logSize + WindowSize)
           /\ \/ AsksHole(got, eof) /\ windowStart' = windowStart /\ step' = Hole(got, eof)
              \/ /\ AsksWindow(got, eof) /\ windowStart' = windowStart + WindowSize
                 /\ windowStart' \in 0..logSize /\ Aligned(windowStart')
<1>1. /\ logSize \in Nat /\ windowStart \in Nat /\ windowEnd = windowStart + WindowSize /\ Aligned(windowEnd)
      /\ WindowSize \in Nat \ {0} /\ Aligned(WindowSize)
  BY LimitIs, PacketsAre
<1>2. CASE /\ AsksHole(got, eof)
           /\ UNCHANGED windowStart
           /\ requestEnd' = Hole(got, eof).ofs + Hole(got, eof).size
           /\ LogStep(Hole(got, eof))
  <2>1. PICK start \in Nat, end \in Nat :
           /\ Hole(got, eof) = HoleRequest(start, end - start) /\ Within(start, end - start)
           /\ start + (end - start) = end /\ end \in 1..(logSize + WindowSize)
    BY <1>2, HoleIsWithin DEF AsksHole
  <2>2. Hole(got, eof).ofs = start /\ Hole(got, eof).size = end - start
    BY <2>1 DEF HoleRequest
  <2>3. step' = Hole(got, eof) /\ stepRetries' = 0 /\ LogSend(step')
    BY <1>2 DEF LogStep
  <2>4. end - start \in Nat
    <3>1. end - start \in 1..WindowSize
      BY <2>1 DEF Within
    <3> QED BY <1>1, <3>1
  <2>5. step' # WindowRequest(start)
    <3>1. step'.kind = "log-hole" /\ WindowRequest(start).kind = "log-window"
      BY <2>1, <2>3 DEF HoleRequest, WindowRequest
    <3> QED BY <3>1
  <2> QED BY <1>2, <2>1, <2>2, <2>3, <2>4, <2>5
<1>3. CASE AsksWindow(got, eof) /\ RequestWindow(windowEnd)
  <2>1. /\ windowStart' = windowEnd /\ requestEnd' = windowEnd + WindowSize
        /\ step' = WindowRequest(windowEnd) /\ stepRetries' = 0 /\ LogSend(step')
    BY <1>3 DEF RequestWindow, LogStep
  <2>2. windowEnd <= logSize
    <3>1. windowEnd - 1 \in got
      BY <1>1, <1>3 DEF AsksWindow, WindowComplete
    <3>2. windowEnd - 1 \in 0..(logSize - 1)
      BY <3>1 DEF Held
    <3> QED BY <1>1, <3>2
  <2>3. /\ windowEnd \in Nat /\ windowEnd \in 0..logSize /\ WindowSize \in 1..WindowSize
        /\ windowEnd + WindowSize \in 1..(logSize + WindowSize)
    BY <1>1, <2>2
  <2>4. Within(windowEnd, WindowSize)
    BY <1>1, <2>3 DEF Within
  <2> QED BY <1>1, <1>3, <2>1, <2>3, <2>4
<1> QED BY <1>2, <1>3 DEF RequestGap

\* Once a hole has been asked for, the end mark asks for nothing.
LEMMA AskedIsMet ==
  ASSUME UNCHANGED <<sized, logSize, windowStart>>, eofSize' = logSize, Missing(received', eofSize') # {},
         step' = Hole(received', eofSize')
  PROVE  Met'
<1>1. Missing(received, eofSize)' = Missing(received', eofSize') /\ Hole(received, eofSize)' = Hole(received', eofSize')
  BY DEF Missing, Hole, Limit, KnownEnd, windowEnd, WindowSize, HoleRequest
<1>2. ~AsksHole(received, eofSize)' /\ ~AsksWindow(received, eofSize)'
  BY <1>1 DEF AsksHole, AsksWindow
<1> QED BY <1>2 DEF Met

\* A download asks, and waits, no longer than there is something new.
LEMMA LogEndsKeeps ==
  ASSUME LogEnds,
         \/ LogDownloadNext
         \/ LogDownloadTimesOut
         \/ Tick /\ UNCHANGED logVars
         \/ UNCHANGED <<transferVars, linkVars, logVars>>
  PROVE  LogEnds'
<1>1. /\ Waits(Counted(Asks, MostAsks)) /\ LogTypeOK /\ LogData
      /\ stepRetries \in 0..MaxRetries /\ deadline = Unarmed /\ refused \in BOOLEAN
      /\ Held(received, eofSize)
  BY DEF LogEnds, Waits, LogData
<1>2. /\ logSize \in Nat /\ WindowSize \in Nat \ {0} /\ Aligned(0) /\ Aligned(WindowSize) /\ 0 \in 0..MaxRetries
      /\ endError \in BOOLEAN
  <2>1. endError \in BOOLEAN
    BY <1>1 DEF LogTypeOK
  <2>2. 0 \in 0..MaxRetries
    BY BudgetAssumption
  <2>3. logSize \in Nat
    BY <1>1, LogAssumption DEF LogData
  <2> QED BY <2>1, <2>2, <2>3, PacketsAre
<1>3. ASSUME UNCHANGED <<sized, logSize, entries>>, endError' \in BOOLEAN, Held(received', eofSize'),
             windowStart' \in 0..logSize, Aligned(windowStart'), requestEnd' \in 1..(logSize + WindowSize),
             NEW ofs \in Nat, NEW size \in Nat, Within(ofs, size),
             NEW new \in SUBSET {HoleRequest(ofs, size), WindowRequest(ofs)},
             WindowRequest(ofs) \in new => size = WindowSize,
             step' \in {step} \cup new, up' \subseteq up \cup new \cup {EndRequest}
      PROVE  LogTypeOK' /\ LogData'
  <2>1. LogFrames' = LogFrames /\ WindowSize' = WindowSize
    BY <1>3 DEF LogFrames, WindowSize
  <2>2. EndRequest \in LogFrames /\ new \subseteq LogFrames
    <3>1. ofs \in 0..logSize /\ size \in 1..WindowSize
      BY <1>3 DEF Within
    <3>2. HoleRequest(ofs, size) \in LogFrames /\ WindowRequest(ofs) \in LogFrames
      BY <3>1 DEF LogFrames
    <3>3. EndRequest \in LogFrames
      BY DEF LogFrames
    <3> QED BY <1>3, <3>2, <3>3
  <2>3. step' \in LogFrames \cup {NoStep} /\ up' \subseteq LogFrames
    BY <1>1, <1>3, <2>2 DEF LogTypeOK
  <2>4. received' \subseteq 0..(logSize - 1) /\ eofSize' \in (0..logSize) \cup {NoEnd}
    BY <1>2, <1>3 DEF Held
  <2>5. /\ sized \in BOOLEAN /\ logSize \in LogSizes /\ entries \subseteq 1..LogCount
    BY <1>1 DEF LogTypeOK
  <2>6. LogTypeOK'
    BY <1>3, <2>1, <2>3, <2>4, <2>5 DEF LogTypeOK
  <2>7. Held(received, eofSize)'
    BY <1>3 DEF Held, Whole, Aligned
  <2>8. ASSUME NEW r \in up', r.kind \in {"log-window", "log-hole"}
        PROVE  Within(r.ofs, r.size)
    <3>1. CASE r \in up
      BY <1>1, <2>8, <3>1 DEF LogData
    <3>2. CASE r \notin up
      <4>1. r \in new
        BY <1>3, <2>8, <3>2 DEF EndRequest
      <4>2. r = HoleRequest(ofs, size) \/ (r = WindowRequest(ofs) /\ size = WindowSize)
        BY <1>3, <4>1
      <4>3. r.ofs = ofs /\ r.size = size
        BY <4>2 DEF HoleRequest, WindowRequest
      <4> QED BY <1>3, <4>3
    <3> QED BY <3>1, <3>2
  <2>9. \A o, n : Within(o, n) => Within(o, n)'
    BY <1>3 DEF Within, Aligned, WindowSize
  <2>10. \A r \in up' : r.kind \in {"log-window", "log-hole"} => Within(r.ofs, r.size)'
    BY <2>8, <2>9
  <2>11. LogData'
    BY <1>3, <2>5, <2>7, <2>10 DEF LogData, Aligned, WindowSize
  <2> QED BY <2>6, <2>11
<1>4. Within(0, WindowSize)
  BY <1>2 DEF Within
<1>5. ASSUME UNCHANGED <<sized, logSize, entries, step>>, endError' \in BOOLEAN, Held(received', eofSize'),
             windowStart' = windowStart, requestEnd' = requestEnd, up' \subseteq up \cup {EndRequest}
      PROVE  LogTypeOK' /\ LogData'
  <2>1. windowStart' \in 0..logSize /\ Aligned(windowStart') /\ requestEnd' \in 1..(logSize + WindowSize)
    BY <1>1, <1>5 DEF LogData
  <2>2. 0 \in Nat /\ WindowSize \in Nat /\ {} \in SUBSET {HoleRequest(0, WindowSize), WindowRequest(0)}
    BY <1>2
  <2> QED BY <1>3, <1>4, <1>5, <2>1, <2>2
<1>6. ASSUME LogTypeOK', LogData', UNCHANGED logSize, refused' = refused, received \subseteq received',
             windowStart' \in {windowStart, windowStart + WindowSize}, phase' = "idle" => windowStart' = 0,
             \/ Ends
             \/ /\ Begins
                /\ \/ phase = "idle"
                   \/ /\ Running
                      /\ received' # received \/ (windowStart' # windowStart /\ ~Met) \/ (Met' /\ ~Met)
             \/ (Spends \/ Tick \/ Still) /\ (Met => Met')
      PROVE  LogEnds'
  <2>1. /\ Asks \in Nat /\ MostAsks \in Nat /\ Asks <= MostAsks /\ Asks' \in Nat
        /\ 1 <= Asks' /\ MostAsks' = MostAsks
        /\ received' # received => Asks < Asks'
        /\ windowStart' # windowStart /\ ~Met => Asks < Asks'
        /\ Met' /\ ~Met => Asks < Asks'
        /\ (Met => Met') => Asks <= Asks'
    BY <1>1, <1>6, AsksGrow
  <2>2. \/ Begins /\ 1 <= Asks' /\ ((phase = "idle") \/ (Running /\ Asks < Asks'))
        \/ Ends
        \/ (Spends \/ Tick \/ Still) /\ (Running => Asks <= Asks')
    BY <1>6, <2>1
  <2>3. WaitsThen(IF phase' = "idle" THEN 0 ELSE IF phase' = "running" THEN Budgets(Asks') ELSE Budgets(MostAsks))
    BY <1>1, <1>6, <2>1, <2>2, CountedGoesOn
  <2>4. Waits(Counted(Asks, MostAsks))'
    BY <2>1, <2>3 DEF Waits, WaitsThen, Counted, Running, Budgets, Budget, Left
  <2> QED BY <1>6, <2>4 DEF LogEnds
<1>7. ASSUME NEW got, NEW eof, Held(got, eof), RequestGap(got, eof), received' = got, eofSize' = eof,
             received \subseteq got, Running, now' = now, refused' = refused, UNCHANGED <<sized, logSize, entries>>,
             got # received \/ (eof = logSize /\ ~Met)
      PROVE  LogEnds'
  <2>1. PICK ofs \in Nat, size \in Nat :
           /\ Within(ofs, size) /\ step' \in {HoleRequest(ofs, size), WindowRequest(ofs)}
           /\ step' = WindowRequest(ofs) => size = WindowSize
           /\ stepRetries' = 0 /\ LogSend(step')
           /\ requestEnd' \in 1..(logSize + WindowSize)
           /\ \/ AsksHole(got, eof) /\ windowStart' = windowStart /\ step' = Hole(got, eof)
              \/ /\ AsksWindow(got, eof) /\ windowStart' = windowStart + WindowSize
                 /\ windowStart' \in 0..logSize /\ Aligned(windowStart')
    BY <1>1, <1>7, GapIs
  <2>2. /\ Begins \/ Ends
        /\ up' \subseteq up \cup {step', EndRequest} /\ endError' \in BOOLEAN
    BY <1>2, <1>7, <2>1, LogSendBegins DEF Begins
  <2>3. windowStart' \in 0..logSize /\ Aligned(windowStart')
    BY <1>1, <2>1 DEF LogData
  <2>4. {step'} \in SUBSET {HoleRequest(ofs, size), WindowRequest(ofs)} /\ up' \subseteq up \cup {step'} \cup {EndRequest}
        /\ step' \in {step} \cup {step'}
    BY <2>1, <2>2
  <2>5. LogTypeOK' /\ LogData'
    BY <1>3, <1>7, <2>1, <2>2, <2>3, <2>4
  <2>6. got # received \/ (windowStart' # windowStart /\ ~Met) \/ (Met' /\ ~Met)
    <3>1. CASE AsksHole(got, eof) /\ windowStart' = windowStart /\ step' = Hole(got, eof) /\ eof = logSize
      BY <1>7, <3>1, AskedIsMet DEF AsksHole
    <3>2. CASE windowStart' = windowStart + WindowSize
      <4>1. windowStart' # windowStart
        BY <1>1, <1>2, <3>2 DEF LogData
      <4> QED BY <1>7, <4>1
    <3> QED BY <1>7, <2>1, <3>1, <3>2
  <2>7. phase' # "idle"
    BY <2>2 DEF Begins, Ends
  <2> QED BY <1>6, <1>7, <2>1, <2>2, <2>5, <2>6, <2>7
<1>8. ASSUME NEW how, how # "none", LogSettle(how), stepRetries' = stepRetries, now' = now, refused' = refused,
             UNCHANGED <<sized, logSize, entries, step, windowStart, requestEnd>>,
             Held(received', eofSize'), received \subseteq received'
      PROVE  LogEnds'
  <2>1. Ends /\ up' \subseteq up \cup {EndRequest} /\ endError' \in BOOLEAN
    BY <1>1, <1>2, <1>8, LogSettleEnds
  <2>2. LogTypeOK' /\ LogData'
    BY <1>5, <1>8, <2>1
  <2>3. phase' # "idle"
    BY <2>1 DEF Ends
  <2> QED BY <1>6, <1>8, <2>1, <2>2, <2>3
<1>9. CASE LogDownloadStarts
  <2>1. /\ phase = "idle" /\ now' = now /\ refused' = refused
        /\ UNCHANGED <<sized, logSize, received, eofSize, entries>> /\ windowStart = 0
    BY <1>9 DEF LogDownloadStarts, LogEnds, linkVars
  <2>2. CASE LogDone
    BY <1>1, <1>8, <2>1, <2>2 DEF LogDone, stepVars
  <2>3. CASE RequestWindow(0)
    <3>1. /\ windowStart' = 0 /\ requestEnd' = 0 + WindowSize /\ step' = WindowRequest(0)
          /\ stepRetries' = 0 /\ LogSend(WindowRequest(0))
      BY <2>3 DEF RequestWindow, LogStep
    <3>2. /\ Begins \/ Ends
          /\ up' \subseteq up \cup {WindowRequest(0)} \cup {EndRequest} /\ endError' \in BOOLEAN
      BY <1>2, <2>1, <3>1, LogSendBegins DEF Begins
    <3>3. 0 \in 0..logSize /\ 0 + WindowSize \in 1..(logSize + WindowSize) /\ 0 \in Nat /\ WindowSize \in Nat
      BY <1>2
    <3>4. {WindowRequest(0)} \in SUBSET {HoleRequest(0, WindowSize), WindowRequest(0)}
      OBVIOUS
    <3>5. LogTypeOK' /\ LogData'
      BY <1>1, <1>2, <1>3, <1>4, <2>1, <3>1, <3>2, <3>3, <3>4
    <3>6. phase' # "idle"
      BY <3>2 DEF Begins, Ends
    <3> QED BY <1>6, <2>1, <3>1, <3>2, <3>5, <3>6
  <2> QED BY <1>9, <2>2, <2>3 DEF LogDownloadStarts
<1>10. CASE LogDownloadHears
  <2>1. Running /\ now' = now /\ refused' = refused /\ UNCHANGED <<sized, logSize, entries>>
    BY <1>10 DEF LogDownloadHears, linkVars
  <2> DEFINE OfOurs == {f \in up : f.kind \in {"log-window", "log-hole"}}
             Heard(m) == IF m.size = 0 THEN OnEof(m.ofs) ELSE OnData(m.ofs, m.size)
  <2>0. PICK m \in {Data(OtherLog, 0, PacketSize)} \cup UNION {Streamed(f) : f \in OfOurs} :
          m.id = OurLog /\ Heard(m)
    BY <1>10 DEF LogDownloadHears
  <2>a. m # Data(OtherLog, 0, PacketSize)
    BY <2>0 DEF Data, OurLog, OtherLog
  <2>b. PICK r \in OfOurs : m \in Streamed(r)
    <3> HIDE DEF Heard, OfOurs
    <3> QED BY <2>0, <2>a
  <2>2. /\ r \in up /\ r.kind \in {"log-window", "log-hole"} /\ m \in Streamed(r)
        /\ IF m.size = 0 THEN OnEof(m.ofs) ELSE OnData(m.ofs, m.size)
    BY <2>0, <2>b
  <2>3. (m.size = 0 /\ m.ofs = logSize) \/ Part(m.ofs, m.size)
    BY <1>1, <1>2, <2>2, StreamedIs DEF LogData
  <2>4. CASE m.size = 0 /\ m.ofs = logSize
    <3>1. OnEof(logSize)
      BY <2>2, <2>4
    <3>2. received' = received /\ eofSize' = logSize /\ Held(received, logSize)
      BY <1>1, <3>1 DEF OnEof, Held
    <3>3. CASE LogDone
      BY <1>8, <2>1, <3>2, <3>3 DEF LogDone, stepVars
    <3>4. CASE RequestGap(received, logSize)
      <4>1. ~Met
        BY <3>4 DEF Met, RequestGap
      <4> QED BY <1>7, <2>1, <3>2, <3>4, <4>1
    <3>5. CASE UNCHANGED <<transferVars, windowStart, requestEnd, endError>>
      <4>1. Still /\ UNCHANGED <<step, up, endError, windowStart, requestEnd, phase>>
        BY <2>1, <3>5 DEF Still, transferVars, stepVars
      <4>2. LogTypeOK' /\ LogData'
        BY <1>2, <1>5, <2>1, <3>2, <4>1
      <4>3. Met => Met'
        <5> HAVE Met
        <5>1. eofSize' = eofSize
          BY <3>2 DEF Met
        <5> QED BY <2>1, <3>2, <4>1, <5>1
                DEF Met, AsksHole, AsksWindow, Missing, Hole, Limit, KnownEnd, windowEnd, WindowComplete, WindowSize,
                    HoleRequest
      <4> QED BY <1>6, <2>1, <3>2, <4>1, <4>2, <4>3 DEF Running
    <3> QED BY <3>1, <3>3, <3>4, <3>5 DEF OnEof
  <2>5. CASE m.size # 0
    <3>1. Part(m.ofs, m.size) /\ OnData(m.ofs, m.size)
      BY <2>2, <2>3, <2>5
    <3> DEFINE end == m.ofs + m.size
               got == received \cup m.ofs..(end - 1)
               eof == EndBy(end, m.size)
    <3>2. /\ got # received /\ received' = got /\ eofSize' = eof
          /\ LogDone \/ RequestGap(got, eof) \/ (NoteProgress /\ UNCHANGED <<windowStart, requestEnd>>)
      BY <3>1 DEF OnData
    <3>3. Held(got, eof) /\ received \subseteq got
      BY <1>1, <3>1, PartKeepsHeld
    <3> HIDE DEF got, eof
    <3>4. CASE LogDone
      BY <1>8, <2>1, <3>2, <3>3, <3>4 DEF LogDone, stepVars
    <3>5. CASE RequestGap(got, eof)
      BY <1>7, <2>1, <3>2, <3>3, <3>5
    <3>6. CASE NoteProgress /\ UNCHANGED <<windowStart, requestEnd>>
      <4>1. Begins /\ UNCHANGED <<step, up, endError, phase>>
        BY <1>1, <2>1, <3>6 DEF NoteProgress, Begins, Running
      <4>2. LogTypeOK' /\ LogData'
        BY <1>2, <1>5, <2>1, <3>2, <3>3, <3>6, <4>1
      <4> QED BY <1>6, <2>1, <3>2, <3>3, <3>6, <4>1, <4>2 DEF Running
    <3> QED BY <3>2, <3>4, <3>5, <3>6
  <2> QED
    <3>1. Part(m.ofs, m.size) => m.size # 0
      BY DEF Part
    <3> QED BY <2>3, <2>4, <2>5, <3>1
<1>11. CASE LogCancelled
  BY <1>1, <1>8, <1>11 DEF LogCancelled, linkVars, stepVars, dataVars
<1>12. CASE LogDownloadTimesOut
  <2>1. /\ TimedOut /\ Running /\ now' = now /\ refused' = refused
        /\ UNCHANGED <<sized, logSize, received, eofSize, windowStart, entries>>
    BY <1>12 DEF LogDownloadTimesOut, linkVars, TimedOut
  <2>2. CASE /\ Retries /\ Missing(received, eofSize) # {}
             /\ step' = Hole(received, eofSize) /\ LogSend(Hole(received, eofSize))
             /\ requestEnd' = Hole(received, eofSize).ofs + Hole(received, eofSize).size
    <3>1. PICK start \in Nat, end \in Nat :
           /\ Hole(received, eofSize) = HoleRequest(start, end - start) /\ Within(start, end - start)
           /\ start + (end - start) = end /\ end \in 1..(logSize + WindowSize)
      BY <1>1, <2>2, HoleIsWithin
    <3>2. requestEnd' = end
      BY <2>2, <3>1 DEF HoleRequest
    <3>3. end - start \in Nat
      <4>1. end - start \in 1..WindowSize
        BY <3>1 DEF Within
      <4> QED BY <1>2, <4>1
    <3>4. stepRetries' \in 0..MaxRetries
      BY <1>1, <2>2, BudgetAssumption DEF Retries
    <3>5. /\ Spends \/ Ends
          /\ up' \subseteq up \cup {step'} \cup {EndRequest} /\ endError' \in BOOLEAN
      BY <1>2, <2>1, <2>2, <3>4, LogSendBegins DEF Spends
    <3>6. windowStart' \in 0..logSize /\ Aligned(windowStart')
      BY <1>1, <2>1 DEF LogData
    <3>7. /\ {step'} \in SUBSET {HoleRequest(start, end - start), WindowRequest(start)}
          /\ ~(WindowRequest(start) \in {step'}) /\ step' \in {step} \cup {step'}
      BY <2>2, <3>1 DEF HoleRequest, WindowRequest
    <3>8. LogTypeOK' /\ LogData'
      BY <1>1, <1>3, <2>1, <3>1, <3>2, <3>3, <3>5, <3>6, <3>7
    <3>9. Met => Met'
      <4> HAVE Met
      <4>1. eofSize' = logSize
        BY <2>1 DEF Met
      <4> QED BY <2>1, <2>2, <4>1, AskedIsMet
    <3>10. phase' # "idle"
      BY <3>5 DEF Spends, Ends
    <3> QED BY <1>6, <2>1, <3>5, <3>8, <3>9, <3>10
  <2>3. CASE Exhausted /\ LogSettle("stalled") /\ UNCHANGED <<stepVars, requestEnd>>
    BY <1>1, <1>8, <2>1, <2>3 DEF stepVars
  <2> QED BY <1>12, <2>2, <2>3 DEF LogDownloadTimesOut
<1>13. CASE (Tick /\ UNCHANGED logVars) \/ UNCHANGED <<transferVars, linkVars, logVars>>
  <2>1. /\ UNCHANGED <<sized, logSize, received, eofSize, windowStart, requestEnd, entries, endError,
                       step, up, refused, phase>>
        /\ Tick \/ Still
    BY <1>13 DEF Tick, Still, transferVars, stepVars, linkVars, logVars, dataVars
  <2>2. LogTypeOK' /\ LogData'
    BY <1>1, <1>2, <1>5, <2>1
  <2>3. Met' <=> Met
    BY <2>1 DEF Met, AsksHole, AsksWindow, Missing, Hole, Limit, KnownEnd, windowEnd, WindowComplete, WindowSize,
                HoleRequest
  <2>4. phase' = "idle" => windowStart' = 0
    BY <2>1 DEF LogEnds
  <2> QED BY <1>6, <2>1, <2>2, <2>3, <2>4
<1> QED BY <1>9, <1>10, <1>11, <1>12, <1>13 DEF LogDownloadNext

\* A log that is complete is the vehicle's, so a download that succeeds is exact.
LEMMA CompleteIsExact ==
  ASSUME logSize \in Nat, sized \in BOOLEAN, NEW got, NEW eof, Held(got, eof), Complete(got, eof)
  PROVE  KnownEnd(eof) = logSize /\ got = 0..(logSize - 1)
<1>1. KnownEnd(eof) \in {NoEnd, logSize}
  BY DEF KnownEnd, Held
<1> QED BY <1>1 DEF Complete, Held

\* What a download hands on stays exact.
LEMMA LogIsExactKeeps ==
  ASSUME LogEnds, LogEnds', LogIsExact,
         \/ LogDownloadNext
         \/ LogDownloadTimesOut
         \/ Tick /\ UNCHANGED logVars
         \/ UNCHANGED <<transferVars, linkVars, logVars>>
  PROVE  LogIsExact'
<1>1. /\ sized \in BOOLEAN /\ logSize \in Nat /\ Held(received, eofSize)
      /\ phase = "settled" <=> outcome # "none"
  BY LogAssumption DEF LogEnds, LogData, Waits
<1>2. ASSUME UNCHANGED <<sized, logSize>>, Complete(received', eofSize'), Held(received', eofSize')
      PROVE  LogIsExact'
  <2>1. KnownEnd(eofSize') = logSize /\ received' = 0..(logSize - 1)
    BY <1>1, <1>2, CompleteIsExact
  <2>2. KnownEnd(eofSize)' = KnownEnd(eofSize')
    BY <1>2 DEF KnownEnd
  <2> QED BY <1>2, <2>1, <2>2 DEF LogIsExact
<1>3. ASSUME outcome' # "succeeded"
      PROVE  LogIsExact'
  BY <1>3 DEF LogIsExact
<1>4. ASSUME NEW frame, LogStep(frame), phase # "settled"
      PROVE  outcome' # "succeeded"
  BY <1>1, <1>4 DEF LogStep, LogSend, Transmit, LogSettle, Settle
<1>5. ASSUME NEW got, NEW eof, RequestGap(got, eof), phase # "settled"
      PROVE  outcome' # "succeeded"
  BY <1>4, <1>5 DEF RequestGap, RequestWindow
<1>6. ASSUME UNCHANGED <<sized, logSize, received, eofSize, outcome>>
      PROVE  LogIsExact'
  BY <1>6 DEF LogIsExact, KnownEnd
<1>7. UNCHANGED <<sized, logSize>> => Held(received', eofSize')
  <2>1. Held(received, eofSize)'
    BY DEF LogEnds, LogData
  <2> QED BY <2>1 DEF Held, Whole, Aligned
<1>8. CASE LogDownloadStarts
  <2>1. phase = "idle" /\ UNCHANGED <<sized, logSize, received, eofSize>>
    BY <1>8 DEF LogDownloadStarts
  <2>2. CASE Complete({}, NoEnd)
    <3>1. sized /\ 0..(logSize - 1) \subseteq {}
      BY <1>1, <2>2 DEF Complete, KnownEnd
    <3>2. Complete(received', eofSize')
      BY <1>1, <2>1, <3>1 DEF Complete, KnownEnd, Held, NoEnd
    <3> QED BY <1>2, <1>7, <2>1, <3>2
  <2>3. CASE RequestWindow(0)
    BY <1>3, <1>4, <2>1, <2>3 DEF RequestWindow
  <2> QED BY <1>8, <2>2, <2>3 DEF LogDownloadStarts
<1>9. CASE LogDownloadHears
  <2>1. Running /\ phase # "settled" /\ outcome = "none" /\ UNCHANGED <<sized, logSize>>
    BY <1>1, <1>9 DEF LogDownloadHears, Running
  <2>2. PICK ofs, size : OnEof(ofs) \/ OnData(ofs, size)
    BY <1>9 DEF LogDownloadHears
  <2>3. \/ Complete(received', eofSize')
        \/ RequestGap(received', eofSize')
        \/ outcome' = outcome
    BY <2>2 DEF OnEof, OnData, NoteProgress, transferVars
  <2> QED BY <1>2, <1>3, <1>5, <1>7, <2>1, <2>3
<1>10. CASE LogCancelled
  BY <1>3, <1>10 DEF LogCancelled, LogSettle, Settle
<1>11. CASE LogDownloadTimesOut
  <2>1. outcome = "none"
    BY <1>1, <1>11 DEF LogDownloadTimesOut, TimedOut, Running
  <2> QED BY <1>3, <1>11, <2>1 DEF LogDownloadTimesOut, LogSend, LogSettle, Settle, Transmit
<1>12. CASE (Tick /\ UNCHANGED logVars) \/ UNCHANGED <<transferVars, linkVars, logVars>>
  BY <1>6, <1>12 DEF Tick, transferVars, logVars, dataVars
<1> QED BY <1>8, <1>9, <1>10, <1>11, <1>12 DEF LogDownloadNext

-----------------------------------------------------------------------------
(* Conversations about files end *)

\* A number is taken for each request, so the numbers taken count the budgets.
Taken == Position(nextSeq) \div 2

\* What the conversation and the vehicle have of the file lies in it, but for a
\* size that is misstated.
WithinTheFile ==
  /\ fileSize \in 0..(FileSize + 1) /\ written \subseteq 0..FileSize
  /\ chunks \in Seq({OurFile, OtherFile} \X (0..FileSize))
  /\ \A m \in down : m.says = "ack" /\ m.opcode = "open" => m.n \in 0..(FileSize + 1)

\* A conversation waits for the requests it has numbered.
FtpEnds == FtpInv /\ WithinTheFile /\ Waits(Counted(Taken, FileSize + 3))

\* Settling asks once more, under the number after those taken, or is the end.
LEMMA FtpSettleEnds ==
  ASSUME NEW how, how # "none", NEW taken, NEW known, SettleThen(how, taken, known),
         stepRetries \in 0..MaxRetries, now' = now
  PROVE  (Begins /\ nextSeq' = Later(taken + 1)) \/ Ends
<1>0. WithoutCleanup(how) # "none" /\ 0 \in 0..MaxRetries
  BY BudgetAssumption DEF WithoutCleanup
<1>1. CASE Transmit(step', Unarmed) /\ stepRetries' = 0 /\ nextSeq' = Later(taken + 1)
  BY <1>1 DEF Transmit, Begins
<1>2. CASE Settle(WithoutCleanup(how)) /\ stepRetries' = 0
  BY <1>0, <1>2, SettleEnds
<1>3. CASE Settle(how) /\ UNCHANGED stepVars
  BY <1>3, SettleEnds DEF stepVars
<1> QED BY <1>1, <1>2, <1>3 DEF SettleThen

\* A failure terminates the session first, under one more number, or is the end.
LEMMA FtpFailEnds ==
  ASSUME NEW how, how # "none", Fail(how), stepRetries \in 0..MaxRetries, now' = now
  PROVE  (cleanup = NotPending /\ Begins /\ nextSeq' = Later(1)) \/ Ends
<1>1. CASE cleanup = NotPending /\ SettleThen(how, 0, session)
  BY <1>1, FtpSettleEnds, 0 + 1 = 1
<1>2. CASE cleanup # NotPending /\ CleanupEnds(WithoutCleanup(cleanup))
  <2>1. WithoutCleanup(cleanup) # "none"
    BY <1>2 DEF WithoutCleanup, NotPending
  <2> QED BY <1>2, <2>1, SettleEnds DEF CleanupEnds, stepVars
<1> QED BY <1>1, <1>2 DEF Fail

\* A request takes one number, or two when it could not be sent and the session is ended.
LEMMA FtpSendBegins ==
  ASSUME NEW opcode, NEW known, NEW ofs, NEW size, SendRequest(opcode, known, ofs, size),
         stepRetries \in 0..MaxRetries, now' = now
  PROVE  (Begins /\ nextSeq' \in {Later(1), Later(2)}) \/ Ends
<1>1. \/ \E request : Transmit(request, Unarmed) /\ stepRetries' = 0 /\ nextSeq' = Later(1)
      \/ SettleThen("send-failed", 1, known)
  BY DEF SendRequest
<1>2. CASE SettleThen("send-failed", 1, known)
  BY <1>2, FtpSettleEnds, 1 + 1 = 2
<1> QED BY <1>1, <1>2 DEF Transmit, Begins

\* A budget begins with a number.
LEMMA FtpGoesOn ==
  ASSUME FtpEnds, FtpInv', refused' \in BOOLEAN,
         \/ /\ Begins /\ phase # "settled"
            /\ \/ nextSeq' = Later(1) /\ Position(nextSeq) + 2 < 65536
               \/ nextSeq' \in {Later(1), Later(2)} /\ Position(nextSeq) + 4 < 65536
         \/ Ends
         \/ (Spends \/ Tick \/ Still) /\ nextSeq' = nextSeq
  PROVE  Waits(Counted(Taken, FileSize + 3))'
<1> DEFINE most == FileSize + 3
           k == Position(nextSeq') \div 2
<1>1. /\ nextSeq \in Numbers /\ Position(nextSeq) \in Nat /\ Position(nextSeq') \in Nat /\ most \in Nat
  BY RepliesTellRequests, FtpAssumption DEF FtpEnds, FtpInv, RequestsAreNumbered
<1>2. Taken \in Nat /\ k \in Nat /\ Taken' = k
  BY <1>1 DEF Taken
<1>3. Running => Taken <= most
  <2>1. Running => Position(nextSeq) <= 2 * most
    BY OutstandingIs DEF FtpEnds
  <2> HIDE DEF most
  <2> QED BY <1>1, <2>1 DEF Taken
<1>4. phase \in {"idle", "running", "settled"} /\ Waits(Counted(Taken, most))
  BY DEF FtpEnds, Waits
<1>5. ASSUME Begins, phase # "settled",
             \/ nextSeq' = Later(1) /\ Position(nextSeq) + 2 < 65536
             \/ nextSeq' \in {Later(1), Later(2)} /\ Position(nextSeq) + 4 < 65536
      PROVE  1 <= k /\ Taken < k
  <2>1. nextSeq' = Later(1) => Position(nextSeq') = Position(nextSeq) + 2
    BY <1>1, <1>5, LaterMovesOn, 1 \in Nat
  <2>2. nextSeq' = Later(2) /\ Position(nextSeq) + 4 < 65536 => Position(nextSeq') = Position(nextSeq) + 4
    BY <1>1, LaterMovesOn, 2 \in Nat
  <2>3. Position(nextSeq') = Position(nextSeq) + 2 \/ Position(nextSeq') = Position(nextSeq) + 4
    BY <1>5, <2>1, <2>2
  <2> QED BY <1>1, <2>3 DEF Taken
<1>6. nextSeq' = nextSeq => Taken <= k
  BY <1>2 DEF Taken
<1>7. \/ Begins /\ 1 <= k /\ ((phase = "idle") \/ (Running /\ Taken < k))
      \/ Ends
      \/ (Spends \/ Tick \/ Still) /\ (Running => Taken <= k)
  BY <1>4, <1>5, <1>6 DEF Running
<1> HIDE DEF most, k
<1>8. WaitsThen(IF phase' = "idle" THEN 0 ELSE IF phase' = "running" THEN Budgets(k) ELSE Budgets(most))
  BY <1>1, <1>2, <1>3, <1>4, <1>7, CountedGoesOn
<1>9. Waits(Counted(Taken, most))'
  BY <1>2, <1>8 DEF Waits, WaitsThen, Counted, Running, Budgets, Budget, Left, most
<1> QED BY <1>9 DEF most

\* What is read or listed lies in the file.
LEMMA ContentIs ==
  ASSUME WithinTheFile, NEW m, m.file = OurFile, m.n \in Nat, m.ofs \in Nat, m.ofs + m.n <= FileSize
  PROVE  chunks \o Content(m) \in Seq({OurFile, OtherFile} \X (0..FileSize))
<1> DEFINE Units == {OurFile, OtherFile} \X (0..FileSize)
<1>1. Content(m) \in Seq(Units)
  <2>1. \A i \in 1..m.n : <<m.file, m.ofs + i - 1>> \in Units
    BY FtpAssumption
  <2> QED BY <2>1 DEF Content
<1>2. chunks \in Seq(Units)
  BY DEF WithinTheFile
<1> HIDE DEF Units
<1>3. chunks \o Content(m) \in Seq(Units)
  BY <1>1, <1>2
<1> QED BY <1>3 DEF Units

\* How far the numbers have got when the next is taken.
LEMMA NumbersTaken ==
  ASSUME NumbersSuffice, FtpInv, Running
  PROVE  /\ cleanup = NotPending => Position(nextSeq) + 2 < 65536
         /\ step.opcode # "terminate" => cleanup = NotPending
         /\ step.opcode \in Opens => Position(nextSeq) + 4 < 65536
         /\ \A m \in down : ResponseMatches(m) /\ m.says = "ack" /\ m.opcode \in {"list", "read", "write"} =>
              Position(nextSeq) + 4 < 65536
<1> USE FtpAssumption
<1>1. /\ Position(nextSeq) \in Nat /\ offset \in 0..FileSize /\ FileSize + 3 < 32768
      /\ cleanup = NotPending => Position(nextSeq) <= 2 * (offset + 2)
      /\ step.opcode \in Opens => Position(nextSeq) = 2
      /\ cleanup # NotPending => step.opcode = "terminate"
  BY OutstandingIs DEF FtpInv, NumbersSuffice
<1>2. ASSUME NEW m \in down, ResponseMatches(m), m.says = "ack", m.opcode \in {"list", "read", "write"}
      PROVE  Position(nextSeq) + 4 < 65536
  <2>1. /\ step.opcode = m.opcode /\ m.ofs = step.ofs /\ m.n \in Nat /\ m.n > 0 /\ m.ofs + m.n <= FileSize
    BY <1>2, HeardIs DEF Answered, TellsTheTruth
  <2>2. cleanup = NotPending
    BY <1>1, <1>2, <2>1
  <2>3. step.ofs = offset
    BY <1>2, <2>1 DEF FtpInv, ConversationStands, OutstandingIsNext
  <2> QED BY <1>1, <2>1, <2>2, <2>3
<1> QED BY <1>1, <1>2

\* A reply that arrives begins a budget at most, and is of the file.
LEMMA FtpHearingEnds ==
  ASSUME NumbersSuffice, FtpEnds, FtpHears, now' = now
  PROVE  /\ \/ /\ Begins
               /\ \/ nextSeq' = Later(1) /\ Position(nextSeq) + 2 < 65536
                  \/ nextSeq' \in {Later(1), Later(2)} /\ Position(nextSeq) + 4 < 65536
            \/ Ends
         /\ fileSize' \in 0..(FileSize + 1) /\ chunks' \in Seq({OurFile, OtherFile} \X (0..FileSize))
<1> DEFINE Units == {OurFile, OtherFile} \X (0..FileSize)
           Pos == Position(nextSeq)
<1>0. /\ fileSize \in 0..(FileSize + 1) /\ chunks \in Seq(Units) /\ WithinTheFile /\ FtpInv
      /\ stepRetries \in 0..MaxRetries /\ Running
  BY DEF FtpEnds, WithinTheFile, Waits, FtpHears
<1>1. PICK m \in down : /\ ResponseMatches(m)
                        /\ \/ m.says = "ack" /\ OnAck(m)
                           \/ m.says = "malformed" /\ Fail("protocol-error")
                           \/ m.says \in Refusals /\ OnNak(m)
  BY DEF FtpHears
<1>2. m.opcode = step.opcode
  BY <1>1 DEF ResponseMatches
<1>3. /\ cleanup = NotPending => Pos + 2 < 65536
      /\ step.opcode # "terminate" => cleanup = NotPending
      /\ step.opcode \in Opens => Pos + 4 < 65536
      /\ m.says = "ack" /\ m.opcode \in {"list", "read", "write"} => Pos + 4 < 65536
  BY <1>0, <1>1, NumbersTaken
<1> HIDE DEF Units, Pos
<1>4. ASSUME NEW opcode, NEW known, NEW ofs, NEW size, SendRequest(opcode, known, ofs, size), Pos + 4 < 65536
      PROVE  (Begins /\ nextSeq' \in {Later(1), Later(2)} /\ Pos + 4 < 65536) \/ Ends
  BY <1>0, <1>4, FtpSendBegins
<1>5. ASSUME NEW known, SettleThen("succeeded", 0, known), Pos + 2 < 65536
      PROVE  (Begins /\ nextSeq' = Later(1) /\ Pos + 2 < 65536) \/ Ends
  BY <1>0, <1>5, FtpSettleEnds, 0 + 1 = 1
<1>6. ASSUME NEW how, how # "none", Fail(how)
      PROVE  /\ (Begins /\ nextSeq' = Later(1) /\ Pos + 2 < 65536) \/ Ends
             /\ UNCHANGED contentVars
  <2>1. (cleanup = NotPending /\ Begins /\ nextSeq' = Later(1)) \/ Ends
    BY <1>0, <1>6, FtpFailEnds
  <2> QED BY <1>3, <1>6, <2>1 DEF Fail
<1>7. UNCHANGED contentVars => fileSize' \in 0..(FileSize + 1) /\ chunks' \in Seq(Units)
  BY <1>0 DEF contentVars
<1>8. ASSUME m.says = "ack", m.opcode \in {"list", "read"}
      PROVE  chunks \o Content(m) \in Seq(Units)
  <2>1. m.file = OurFile /\ m.n \in Nat /\ m.ofs + m.n <= FileSize /\ m.ofs = step.ofs
    BY <1>0, <1>1, <1>8, HeardIs DEF Answered, TellsTheTruth
  <2>2. step.ofs \in Nat
    BY <1>0, OutstandingIs DEF IsRequest
  <2> QED BY <1>0, <2>1, <2>2, ContentIs DEF Units
<1>9. CASE m.says = "ack" /\ OnAck(m)
  <2>1. CASE m.opcode = "list" /\ OnPage(m)
    BY <1>0, <1>3, <1>4, <1>8, <1>9, <2>1 DEF OnPage, Units, Pos
  <2>2. CASE m.opcode = "open" /\ OnOpened(m)
    <3>1. m.n \in 0..(FileSize + 1) /\ <<>> \in Seq(Units)
      BY <1>0, <1>9, <2>2 DEF WithinTheFile
    <3> QED BY <1>2, <1>3, <1>4, <2>2, <3>1 DEF OnOpened, SendRead, Units, Pos, Opens
  <2>3. CASE m.opcode = "read" /\ OnRead(m)
    BY <1>0, <1>3, <1>4, <1>8, <1>9, <2>3 DEF OnRead, SendRead, Units, Pos
  <2>4. CASE m.opcode = "create" /\ OnCreated(m)
    BY <1>0, <1>2, <1>3, <1>4, <1>5, <2>4 DEF OnCreated, SendWrite, Units, Pos, Opens
  <2>5. CASE m.opcode = "write" /\ OnWritten(m)
    BY <1>0, <1>2, <1>3, <1>4, <1>5, <1>9, <2>5 DEF OnWritten, Finish, SendWrite, Units, Pos
  <2>6. CASE m.opcode = "make-directory" /\ Finish /\ UNCHANGED contentVars
    BY <1>2, <1>3, <1>5, <1>7, <2>6 DEF Finish, Units, Pos
  <2>7. CASE m.opcode = "terminate" /\ CleanupEnds(cleanup) /\ UNCHANGED <<contentVars, opened>>
    <3>1. cleanup # "none"
      BY <1>0, <1>2, <2>7 DEF FtpInv, ConversationStands, OutstandingIsNext, NotPending
    <3>2. Ends
      BY <1>0, <2>7, <3>1, SettleEnds DEF CleanupEnds, stepVars
    <3> QED BY <1>7, <2>7, <3>2 DEF Units
  <2> QED BY <1>9, <2>1, <2>2, <2>3, <2>4, <2>5, <2>6, <2>7 DEF OnAck
<1>10. CASE m.says = "malformed" /\ Fail("protocol-error")
  BY <1>6, <1>7, <1>10 DEF Units, Pos
<1>11. CASE m.says \in Refusals /\ OnNak(m)
  <2>1. CASE m.opcode \in {"list", "read"} /\ Finish /\ UNCHANGED contentVars
    BY <1>2, <1>3, <1>5, <1>7, <2>1 DEF Finish, Units, Pos
  <2>2. CASE Fail("refused")
    BY <1>6, <1>7, <2>2 DEF Units, Pos
  <2> QED BY <1>11, <2>1, <2>2 DEF OnNak
<1> QED BY <1>1, <1>9, <1>10, <1>11

\* The vehicle makes no one wait, and keeps to the file.
FtpVehicle ==
  \/ VehicleRefuses \/ VehicleLists \/ VehicleOpens \/ VehicleCreates \/ VehicleReads
  \/ VehicleWrites \/ VehicleMakesDirectory \/ VehicleTerminates \/ VehicleForgets

\* What the vehicle does makes no one wait and leaves the file as long as it was.
LEMMA FtpServingEnds ==
  ASSUME FtpInv, WithinTheFile, FtpVehicle
  PROVE  WithinTheFile' /\ Still /\ nextSeq' = nextSeq /\ refused' = refused
<1> USE FtpAssumption
<1>1. ASSUME NEW r \in up, NEW m, Executes(r, m), written' \subseteq 0..FileSize,
             m.says = "ack" /\ m.opcode = "open" => m.n \in 0..(FileSize + 1)
      PROVE  WithinTheFile' /\ Still /\ nextSeq' = nextSeq /\ refused' = refused
  BY <1>1 DEF Executes, Answers, Says, WithinTheFile, conversationVars, transferVars, stepVars, Still
<1>2. written \subseteq 0..FileSize
  BY DEF WithinTheFile
<1>3. \A r, of, says, file, n : /\ Reply(r, of, says, file, n).says = says
                                /\ Reply(r, of, says, file, n).opcode = r.opcode
                                /\ Reply(r, of, says, file, n).n = n
  BY DEF Reply
<1>4. \A opcode : \A r \in Asked(opcode) : r \in up /\ r.opcode = opcode
  BY DEF Asked
<1> HIDE DEF WithinTheFile
<1>5. CASE VehicleRefuses
  <2>1. PICK r \in up, says \in {"refused", "malformed"} : Executes(r, Reply(r, r.session, says, OurFile, 0))
    BY <1>5 DEF VehicleRefuses
  <2> QED BY <1>1, <1>2, <1>3, <1>5, <2>1 DEF VehicleRefuses
<1>6. CASE VehicleLists
  <2>1. PICK r \in Asked("list") : \E n, says : Executes(r, Reply(r, r.session, says, OurFile, n))
    BY <1>6 DEF VehicleLists, Acks
  <2> QED BY <1>1, <1>2, <1>3, <1>4, <1>6, <2>1 DEF VehicleLists
<1>7. CASE VehicleOpens
  <2>1. PICK r \in Asked("open"), size \in {0, FileSize, FileSize + 1} :
          Executes(r, Reply(r, OurSession, "ack", OurFile, size))
    BY <1>7 DEF VehicleOpens
  <2> QED BY <1>1, <1>2, <1>3, <1>4, <1>7, <2>1 DEF VehicleOpens
<1>8. CASE VehicleCreates
  BY <1>1, <1>3, <1>4, <1>8 DEF VehicleCreates
<1>9. CASE VehicleReads
  <2>1. PICK r \in Asked("read") : \E n, says : Executes(r, Reply(r, r.session, says, OurFile, n))
    BY <1>9 DEF VehicleReads, Acks
  <2> QED BY <1>1, <1>2, <1>3, <1>4, <1>9, <2>1 DEF VehicleReads
<1>10. CASE VehicleWrites
  <2>1. PICK r \in Asked("write") :
          \E n \in 1..r.size : Executes(r, Acks(r, n)) /\ written' = written \cup r.ofs..(r.ofs + n - 1)
    BY <1>10 DEF VehicleWrites
  <2>2. PICK n \in 1..r.size : Executes(r, Acks(r, n)) /\ written' = written \cup r.ofs..(r.ofs + n - 1)
    BY <2>1
  <2>3. r.ofs \in Nat /\ r.size \in Nat /\ r.ofs + r.size <= FileSize
    BY <1>4 DEF FtpInv, RequestsAreNumbered, IsRequest
  <2>4. r.ofs..(r.ofs + n - 1) \subseteq 0..FileSize
    BY <2>3
  <2>5. written' \subseteq 0..FileSize
    BY <1>2, <2>2, <2>4
  <2> QED BY <1>1, <1>3, <1>4, <2>2, <2>5 DEF Acks
<1>11. CASE VehicleMakesDirectory
  BY <1>1, <1>3, <1>4, <1>11 DEF VehicleMakesDirectory, Acks
<1>12. CASE VehicleTerminates
  BY <1>1, <1>2, <1>3, <1>4, <1>12 DEF VehicleTerminates, Acks
<1>13. CASE VehicleForgets
  BY <1>13 DEF VehicleForgets, WithinTheFile, transferVars, linkVars, stepVars, conversationVars, Still
<1> QED BY <1>5, <1>6, <1>7, <1>8, <1>9, <1>10, <1>11, <1>12, <1>13 DEF FtpVehicle

\* A conversation waits no longer than its numbers reach.
LEMMA FtpEndsKeeps ==
  ASSUME NumbersSuffice, FtpEnds, FtpInv',
         \/ FtpNext
         \/ FtpTimesOut
         \/ Tick /\ UNCHANGED ftpVars
         \/ UNCHANGED <<transferVars, linkVars, ftpVars>>
  PROVE  FtpEnds'
<1>1. /\ FtpInv /\ WithinTheFile /\ stepRetries \in 0..MaxRetries /\ deadline = Unarmed /\ refused \in BOOLEAN
  BY DEF FtpEnds, Waits
<1>2. ASSUME UNCHANGED <<fileSize, chunks, written, down>>
      PROVE  WithinTheFile'
  BY <1>1, <1>2 DEF WithinTheFile
<1>3. ASSUME refused' = refused, WithinTheFile',
             \/ /\ Begins /\ phase # "settled"
                /\ \/ nextSeq' = Later(1) /\ Position(nextSeq) + 2 < 65536
                   \/ nextSeq' \in {Later(1), Later(2)} /\ Position(nextSeq) + 4 < 65536
             \/ Ends
             \/ (Spends \/ Tick \/ Still) /\ nextSeq' = nextSeq
      PROVE  FtpEnds'
  <2>1. Waits(Counted(Taken, FileSize + 3))'
    BY <1>1, <1>3, FtpGoesOn
  <2> QED BY <1>3, <2>1 DEF FtpEnds
<1>4. CASE FtpStarts
  <2>1. /\ phase = "idle" /\ now' = now /\ refused' = refused /\ UNCHANGED <<fileSize, chunks, written, down>>
        /\ SendRequest(FirstOpcode[work], NoSession, 0, 0)
    BY <1>4 DEF FtpStarts, linkVars, contentVars, serverVars
  <2>2. Position(nextSeq) + 4 < 65536
    BY <1>1, <2>1, FirstIsAtStart DEF FtpInv, NothingYet
  <2>3. (Begins /\ nextSeq' \in {Later(1), Later(2)}) \/ Ends
    BY <1>1, <2>1, FtpSendBegins
  <2> QED BY <1>2, <1>3, <2>1, <2>2, <2>3
<1>5. CASE FtpHears
  <2>1. Running /\ now' = now /\ refused' = refused /\ UNCHANGED <<written, down>>
    BY <1>5 DEF FtpHears, linkVars, serverVars
  <2>2. WithinTheFile'
    BY <1>1, <1>5, <2>1, FtpHearingEnds DEF WithinTheFile
  <2> QED BY <1>3, <1>5, <2>1, <2>2, FtpHearingEnds DEF Running
<1>6. CASE FtpTimesOut
  <2>1. TimedOut /\ Running /\ now' = now /\ refused' = refused /\ UNCHANGED <<written, down>>
    BY <1>6 DEF FtpTimesOut, TimedOut, linkVars, serverVars
  <2>2. CASE Retries /\ Transmit(step, Unarmed) /\ UNCHANGED <<step, conversationVars>>
    BY <1>2, <1>3, <2>1, <2>2 DEF Spends, Transmit, conversationVars
  <2>3. CASE Fail("send-failed") \/ Fail("timed-out")
    <3>1. (cleanup = NotPending /\ Begins /\ nextSeq' = Later(1)) \/ Ends
      BY <1>1, <2>1, <2>3, FtpFailEnds
    <3>2. cleanup = NotPending => Position(nextSeq) + 2 < 65536
      BY <1>1, <2>1, NumbersTaken
    <3>3. UNCHANGED <<fileSize, chunks>>
      BY <2>3 DEF Fail, contentVars
    <3> QED BY <1>2, <1>3, <2>1, <3>1, <3>2, <3>3 DEF Running
  <2> QED BY <1>6, <2>2, <2>3 DEF FtpTimesOut
<1>7. CASE FtpCancelled
  <2>1. Ends /\ refused' = refused
    BY <1>1, <1>7, SettleEnds DEF FtpCancelled, stepVars, linkVars
  <2>2. UNCHANGED <<fileSize, chunks, written, down>>
    BY <1>7 DEF FtpCancelled, linkVars, contentVars, serverVars
  <2> QED BY <1>2, <1>3, <2>1, <2>2
<1>8. CASE FtpVehicle
  BY <1>1, <1>3, <1>8, FtpServingEnds
<1>9. CASE Tick /\ UNCHANGED ftpVars
  BY <1>2, <1>3, <1>9 DEF Tick, ftpVars, conversationVars, serverVars
<1>10. CASE UNCHANGED <<transferVars, linkVars, ftpVars>>
  <2>1. Still /\ nextSeq' = nextSeq /\ refused' = refused /\ UNCHANGED <<fileSize, chunks, written, down>>
    BY <1>10 DEF Still, transferVars, stepVars, linkVars, ftpVars, conversationVars, serverVars
  <2> QED BY <1>2, <1>3, <2>1
<1> QED BY <1>4, <1>5, <1>6, <1>7, <1>8, <1>9, <1>10 DEF FtpNext, FtpVehicle

\* So a conversation is as declared, and over within a budget for each number.
LEMMA FtpEndsSuffices ==
  ASSUME FtpEnds
  PROVE  TransferTypeOK /\ FtpTypeOK /\ TimersFollowThePhase /\ FtpIsBounded
<1>1. /\ FtpInv /\ WithinTheFile /\ Waits(Counted(Taken, FileSize + 3))
      /\ phase \in {"idle", "running", "settled"}
  BY DEF FtpEnds, Waits
<1>2. Taken \in Nat /\ FileSize + 3 \in Nat /\ (Running => Taken <= FileSize + 3)
  <2>1. nextSeq \in Numbers /\ Position(nextSeq) \in Nat
    BY <1>1, RepliesTellRequests DEF FtpInv, RequestsAreNumbered
  <2>2. Running => Position(nextSeq) <= 2 * (FileSize + 3)
    BY <1>1, OutstandingIs
  <2> QED BY <2>1, <2>2, FtpAssumption DEF Taken
<1>3. TransferTypeOK /\ TimersFollowThePhase /\ FtpIsBounded
  <2> DEFINE most == FileSize + 3
  <2>1. most \in Nat /\ (Running => Taken <= most) /\ Waits(Counted(Taken, most))
    BY <1>1, <1>2
  <2> HIDE DEF most
  <2>2. TransferTypeOK /\ TimersFollowThePhase /\ now <= most * Budget
    BY <1>2, <2>1, CountedIsOver
  <2> QED BY <2>2 DEF most, FtpIsBounded
<1>4. session \in {NoSession, OurSession}
  BY <1>1, OutstandingIs DEF FtpInv, NothingYet, Running
<1>5. nextSeq \in 0..(SeqSpace - 1)
  <2>1. nextSeq \in Numbers
    BY <1>1 DEF FtpInv, RequestsAreNumbered
  <2>2. nextSeq \in Nat /\ nextSeq < SeqSpace
    BY <2>1 DEF Numbers
  <2>3. SeqSpace \in Nat
    BY SpaceIs
  <2>4. \A n, k \in Nat : n < k => n \in 0..(k - 1)
    OBVIOUS
  <2> QED BY <2>2, <2>3, <2>4
<1> QED BY <1>1, <1>3, <1>4, <1>5 DEF FtpTypeOK, FtpInv, WithinTheFile, ServerIsSound

-----------------------------------------------------------------------------
(* Every transfer *)

\* The invariant of the machine that runs.
OutcomesInv ==
  /\ op = "upload" => UploadInv
  /\ op = "download" => DownloadInv
  /\ op = "clear" => ClearInv
  /\ op = "set-current" => SetCurrentInv
  /\ op = "param-backup" => BackupInv
  /\ op = "param-read" => ReadInv
  /\ op = "param-restore" => RestoreInv
  /\ op = "log" => ReleasedInv
  /\ op = "log-list" => ListInv
  /\ op = "ftp" => FtpInv

\* It says what the property says.
LEMMA OutcomesInvSuffices == OutcomesInv => OutcomeIsTrue
<1> SUFFICES ASSUME OutcomesInv PROVE OutcomeIsTrue
  OBVIOUS
<1>1. op = "upload" => RejectedMeansRefused /\ SucceededMeansServed
  BY DEF OutcomesInv, UploadInv
<1>2. op = "download" => RejectedMeansRefused /\ DownloadIsExact
  BY DEF OutcomesInv, DownloadInv
<1>3. /\ op = "clear" => RejectedMeansRefused /\ SucceededMeansDone
      /\ op = "set-current" => SucceededMeansDone
  BY DEF OutcomesInv, ClearInv, SetCurrentInv
<1>4. /\ op = "param-backup" => TableIsWhole
      /\ op = "param-read" => ReadIsTrue
      /\ op = "param-restore" => RestoredMeansTaken
  BY DEF OutcomesInv, BackupInv, ReadInv, RestoreInv
<1>5. /\ op = "log-list" => ListIsWhole
      /\ op \in LogOps => VehicleIsReleased
  BY DEF OutcomesInv, ListInv, ReleasedInv, LogOps
<1>6. op = "ftp" => FilesAreExact /\ SessionsAreClosed
  BY FtpInvSuffices DEF OutcomesInv
<1> QED BY <1>1, <1>2, <1>3, <1>4, <1>5, <1>6 DEF OutcomeIsTrue, VehicleIsLeftFree

\* Before anything happens there is no outcome.
LEMMA NothingIsTold ==
  ASSUME Init
  PROVE  OutcomesInv
<1> USE UploadAssumption, DownloadAssumption, LogAssumption, ParamAssumption, FtpAssumption
<1>1. /\ phase = "idle" /\ outcome = "none" /\ up = {} /\ step = NoStep
      /\ OutcomesComeLast /\ ~Running
  BY DEF Init, TransferInit, OutcomesComeLast, Running
<1>2. op = "upload" => UploadInv
  BY <1>1 DEF Init, UploadInit, UploadLink, UploadAck, UploadInv, RejectedMeansRefused, SucceededMeansServed
<1>3. op \notin {"upload", "ftp"} => down = {}
  BY DEF Init
<1>4. /\ op = "download" => DownloadInv
      /\ op = "clear" => ClearInv
      /\ op = "set-current" => SetCurrentInv
  BY <1>1, <1>3 DEF Init, MissionInit, DownloadInv, WalkIsExact, RejectedMeansRefused, DownloadIsExact,
      ClearInv, SetCurrentInv, SucceededMeansDone
<1>5. op = "param-backup" => BackupInv
  BY <1>1 DEF Init, ParamInit, BackupInv, TableIsWhole
<1>6. /\ op = "param-read" => ReadInv
      /\ op = "param-restore" => RestoreInv
  <2>1. store \in [Ids -> Values] /\ bytewise \in BOOLEAN /\ index = 0
    BY DEF Init, ParamInit, Values
  <2>2. \A id \in 1..0 : FALSE
    OBVIOUS
  <2> QED BY <1>1, <1>3, <2>1, <2>2
          DEF ReadInv, RestoreInv, EchoesAreHeld, ReadIsTrue, RestoredMeansTaken
<1>7. /\ op = "log" => ReleasedInv
      /\ op = "log-list" => ListInv
  BY <1>1 DEF Init, LogInit, ReleasedInv, VehicleIsReleased, ListInv, ListIsWhole
<1>8. op = "ftp" => FtpInv
  <2> HAVE op = "ftp"
  <2>1. FtpInit /\ down = Earlier
    BY DEF Init, FtpLink
  <2>2. RequestsAreNumbered /\ NothingYet
    BY <1>1, <2>1, FirstIsAtStart DEF FtpInit, RequestsAreNumbered, NothingYet
  <2>3. RepliesAreTrue
    <3> SUFFICES ASSUME NEW m \in Earlier
                 PROVE  m.seq = FirstSequence - 1
      BY <2>1 DEF RepliesAreTrue
    <3>1. m.seq = (FirstSequence - SEQUENCE_STEP + 1) % SeqSpace
      BY DEF Earlier, Reply, Request
    <3>2. FirstSequence - SEQUENCE_STEP + 1 = 65533
      BY SpaceIs
    <3>3. (FirstSequence - SEQUENCE_STEP + 1) % SeqSpace = Wrap(65533)
      BY <3>2 DEF Wrap
    <3>4. Wrap(65533) = 65533
      BY SmallStays, 65533 \in Nat, 65533 < 65536
    <3> QED BY <3>1, <3>3, <3>4, SpaceIs
  <2>4. ServerIsSound
    BY <2>1 DEF FtpInit, ServerIsSound
  <2>5. /\ work \in FtpWorks /\ opened \in BOOLEAN /\ untold \in BOOLEAN
        /\ offset \in 0..FileSize /\ fileSize \in Nat
    <3>1. work \in FtpWorks /\ opened = FALSE /\ untold = FALSE /\ offset = 0 /\ fileSize = 0
      BY <2>1 DEF FtpInit
    <3>2. opened \in BOOLEAN /\ untold \in BOOLEAN
      BY <3>1
    <3>3. 0 \in 0..FileSize
      OBVIOUS
    <3> QED BY <3>1, <3>2, <3>3
  <2>6. SessionsAreTold /\ EndIsTrue
    BY <1>1, <2>1 DEF FtpInit, SessionsAreTold, EndIsTrue
  <2> QED BY <1>1, <2>2, <2>3, <2>4, <2>5, <2>6 DEF FtpInv
<1> QED BY <1>2, <1>4, <1>5, <1>6, <1>7, <1>8 DEF OutcomesInv

\* A step is one of the machine that runs.
LEMMA StepsAreIts ==
  ASSUME [Next]_vars
  PROVE  /\ UNCHANGED op
         /\ op = "upload" => \/ UploadNext
                             \/ TimerSteps /\ UNCHANGED uploadVars
                             \/ UploadDeadline
                             \/ UNCHANGED <<transferVars, linkVars, uploadVars>>
         /\ op \in {"download", "clear", "set-current"} =>
              \/ op = "download" /\ DownloadNext
              \/ op = "clear" /\ ClearNext
              \/ op = "set-current" /\ SetCurrentNext
              \/ TimerSteps /\ UNCHANGED missionVars
              \/ UNCHANGED <<transferVars, linkVars, missionVars>>
         /\ op \in {"param-backup", "param-read"} =>
              \/ op = "param-backup" /\ ParamBackupNext
              \/ op = "param-read" /\ ParamReadNext
              \/ TimerSteps /\ UNCHANGED paramVars
              \/ UNCHANGED <<transferVars, linkVars, paramVars>>
         /\ op = "param-restore" => \/ ParamRestoreNext
                                    \/ ParamRestoreTimesOut
                                    \/ Tick /\ UNCHANGED paramVars
                                    \/ UNCHANGED <<transferVars, linkVars, paramVars>>
         /\ op \in LogOps => \/ op = "log" /\ (LogDownloadNext \/ LogDownloadTimesOut)
                             \/ op = "log-list" /\ (LogListNext \/ LogListTimesOut)
                             \/ Tick /\ UNCHANGED logVars
                             \/ UNCHANGED <<transferVars, linkVars, logVars>>
         /\ op = "ftp" => \/ FtpNext
                          \/ FtpTimesOut
                          \/ Tick /\ UNCHANGED ftpVars
                          \/ UNCHANGED <<transferVars, linkVars, ftpVars>>
<1>1. CASE Pass \/ UNCHANGED vars
  BY <1>1 DEF Pass, vars, machineVars, TimerSteps, LogOps
<1>2. CASE TimerFires
  BY <1>2 DEF TimerFires, machineVars, TimerSteps, MissionOps, LogOps
<1>3. CASE /\ UNCHANGED op
           /\ \/ op = "upload" /\ UploadNext /\ NotUpload
              \/ op = "download" /\ DownloadNext /\ NotMission
              \/ op = "clear" /\ ClearNext /\ NotMission
              \/ op = "set-current" /\ SetCurrentNext /\ NotMission
              \/ op = "log" /\ LogDownloadNext /\ NotLog
              \/ op = "log-list" /\ LogListNext /\ NotLog
              \/ op = "param-backup" /\ ParamBackupNext /\ NotParam
              \/ op = "param-read" /\ ParamReadNext /\ NotParam
              \/ op = "param-restore" /\ ParamRestoreNext /\ NotParam
              \/ op = "ftp" /\ FtpNext /\ NotFtp
              \/ op = "ftp-tree" /\ TreeNext /\ NotTree
  BY <1>3 DEF LogOps
<1> QED BY <1>1, <1>2, <1>3 DEF Next

\* Each machine's steps keep its invariant.
LEMMA OutcomesInvKeeps ==
  ASSUME NumbersSuffice, OutcomesInv, [Next]_vars
  PROVE  OutcomesInv'
<1>1. op' = op
  BY StepsAreIts
<1>2. op = "upload" => UploadInv'
  BY StepsAreIts, UploadKeeps DEF OutcomesInv
<1>3. op = "download" => DownloadInv'
  BY StepsAreIts, DownloadKeeps DEF OutcomesInv
<1>4. op = "clear" => ClearInv'
  BY StepsAreIts, ClearKeeps DEF OutcomesInv
<1>5. op = "set-current" => SetCurrentInv'
  BY StepsAreIts, SetCurrentKeeps DEF OutcomesInv
<1>6. op = "param-backup" => BackupInv'
  BY StepsAreIts, BackupKeeps DEF OutcomesInv
<1>7. op = "param-read" => ReadInv'
  BY StepsAreIts, ReadKeeps DEF OutcomesInv
<1>8. op = "param-restore" => RestoreInv'
  BY StepsAreIts, RestoreKeeps DEF OutcomesInv
<1>9. op = "log" => ReleasedInv'
  BY StepsAreIts, DownloadReleases DEF OutcomesInv, LogOps
<1>10. op = "log-list" => ListInv'
  BY StepsAreIts, ListKeeps DEF OutcomesInv, LogOps
<1>11. op = "ftp" => FtpInv'
  BY StepsAreIts, FtpKeeps DEF OutcomesInv
<1> QED BY <1>1, <1>2, <1>3, <1>4, <1>5, <1>6, <1>7, <1>8, <1>9, <1>10, <1>11 DEF OutcomesInv

\* What a transfer reports is what the vehicle holds and did, and the vehicle is
\* left free, whatever is lost, late, repeated, refused, cancelled or not sent:
\* for plans, tables, logs and files of any size (a file of fewer units than half
\* the numbers there are), any timeout and any number of retries.
THEOREM OutcomesAreTrue == ASSUME NumbersSuffice PROVE Spec => []OutcomeIsTrue
<1>1. Init => OutcomesInv
  BY NothingIsTold
<1>2. OutcomesInv /\ [Next]_vars => OutcomesInv'
  BY OutcomesInvKeeps
<1>3. OutcomesInv => OutcomeIsTrue
  BY OutcomesInvSuffices
<1> QED BY <1>1, <1>2, <1>3, PTL DEF Spec

-----------------------------------------------------------------------------
(* Trees of files end *)

\* A conversation of a tree, and how it may have ended.
Endings == {"running", "succeeded", "exists", "failed", "cancelled"}
IsChild(c) ==
  \E does, at, how, names, content :
    /\ c = [work |-> does, path |-> at, ends |-> how, found |-> names, data |-> content]
    /\ how \in Endings

\* A tree that runs has a conversation, and one that is over has none that runs.
TreeEnds ==
  /\ TransferTypeOK
  /\ phase = "idle" => child = NoChild
  /\ Running => IsChild(child)
  /\ phase = "settled" => child = NoChild \/ (IsChild(child) /\ child.ends # "running")

\* A conversation of a tree stays one whichever way it ends.
LEMMA ChildrenStay ==
  ASSUME NEW c, IsChild(c), NEW how \in Endings
  PROVE  IsChild([c EXCEPT !.ends = how]) /\ [c EXCEPT !.ends = how].ends = how
<1>1. PICK does, at, old, names, content :
        c = [work |-> does, path |-> at, ends |-> old, found |-> names, data |-> content]
  BY DEF IsChild
<1>2. [c EXCEPT !.ends = how] = [work |-> does, path |-> at, ends |-> how, found |-> names, data |-> content]
  BY <1>1
<1> QED BY <1>2 DEF IsChild

\* What is awaited goes on or is over, and only what runs goes on.
LEMMA TreeEndsKeeps ==
  ASSUME TreeEnds,
         \/ TreeNext
         \/ TreeGoesOn
         \/ Tick /\ UNCHANGED treeVars
         \/ UNCHANGED <<transferVars, linkVars, treeVars>>
  PROVE  TreeEnds'
<1>1. TransferTypeOK /\ phase \in {"idle", "running", "settled"}
  BY DEF TreeEnds, TransferTypeOK
<1>2. ASSUME Goes, NoStepOfItsOwn, phase # "settled", IsChild(child')
      PROVE  TreeEnds'
  <2>1. TransferTypeOK'
    BY <1>1, <1>2 DEF Goes, NoStepOfItsOwn, stepVars, linkVars, TransferTypeOK
  <2> QED BY <1>2, <2>1 DEF TreeEnds, Goes, Running
<1>3. ASSUME NEW how, how # "none", Settle(how), NoStepOfItsOwn,
             child' = NoChild \/ (IsChild(child') /\ child'.ends # "running")
      PROVE  TreeEnds'
  <2>1. TransferTypeOK'
    BY <1>1, <1>3 DEF Settle, NoStepOfItsOwn, stepVars, linkVars, TransferTypeOK
  <2> QED BY <1>3, <2>1 DEF TreeEnds, Settle, Running
<1>4. ASSUME UNCHANGED <<transferVars, linkVars>>, child' = child \/ (Running /\ IsChild(child'))
      PROVE  TreeEnds'
  <2>1. TransferTypeOK' /\ phase' = phase
    BY <1>1, <1>4 DEF transferVars, stepVars, linkVars, TransferTypeOK
  <2> QED BY <1>4, <2>1 DEF TreeEnds, Running
<1>5. ASSUME NEW does, NEW at, StartChild(does, at)
      PROVE  IsChild(child')
  BY <1>5 DEF StartChild, IsChild, Endings
<1>6. CASE TreeStarts
  BY <1>2, <1>5, <1>6 DEF TreeStarts
<1>7. CASE TreeCancelled
  <2>1. /\ Running /\ IsChild(child) /\ Settle("cancelled") /\ NoStepOfItsOwn
        /\ child' = [child EXCEPT !.ends = IF @ = "running" THEN "cancelled" ELSE @]
    BY <1>7 DEF TreeCancelled, TreeEnds
  <2>2. PICK how \in Endings : child' = [child EXCEPT !.ends = how] /\ how # "running"
    <3>1. child.ends \in Endings
      BY <2>1 DEF IsChild
    <3>2. "cancelled" \in Endings
      BY DEF Endings
    <3> QED BY <2>1, <3>1, <3>2
  <2> QED BY <1>3, <2>1, <2>2, ChildrenStay
<1>8. CASE ChildLists \/ ChildDownloads \/ ChildUploads \/ ChildMakesDirectory \/ ChildFails
  <2>1. Alone /\ child # NoChild /\ child.ends = "running"
    <3>1. \A does \in {"list", "download", "upload", "create-directory"} : ChildRuns(does) => child # NoChild
      BY DEF ChildRuns, NoChild
    <3>2. CASE ChildFails
      BY <3>2 DEF ChildFails
    <3>3. CASE ChildLists \/ ChildDownloads \/ ChildUploads \/ ChildMakesDirectory
      <4>1. /\ Alone
            /\ ChildRuns("list") \/ ChildRuns("download") \/ ChildRuns("upload") \/ ChildRuns("create-directory")
        BY <3>3 DEF ChildLists, ChildDownloads, ChildUploads, ChildMakesDirectory
      <4>2. child.ends = "running"
        BY <4>1 DEF ChildRuns
      <4> QED BY <3>1, <4>1, <4>2
    <3> QED BY <1>8, <3>2, <3>3
  <2>2. Running /\ IsChild(child)
    BY <1>1, <2>1 DEF TreeEnds, Running
  <2>3. IsChild(child')
    BY <1>8, <2>2 DEF ChildLists, ChildDownloads, ChildUploads, ChildMakesDirectory, ChildFails, ChildEnds, IsChild, Endings
  <2> QED BY <1>4, <2>1, <2>2, <2>3 DEF Alone
<1>9. CASE TreeContinues
  <2>1. NoStepOfItsOwn
    BY <1>9 DEF TreeContinues
  <2>2. CASE ~MayGoOn /\ child' = NoChild /\ UNCHANGED <<phase, outcome, timer, deadline>>
    <3>1. TransferTypeOK'
      BY <1>1, <2>1, <2>2 DEF NoStepOfItsOwn, stepVars, linkVars, TransferTypeOK
    <3> QED BY <2>2, <3>1 DEF TreeEnds, MayGoOn, Running
  <2>3. CASE MayGoOn /\ TakenIsListed
    BY <1>2, <1>5, <2>1, <2>3 DEF MayGoOn, Running, TakenIsListed
  <2>4. CASE MayGoOn /\ BackedUp
    <3>1. \E directories, files, left, got : BackupGoesOn(directories, files, left, got)
      BY <2>4 DEF BackedUp
    <3> QED BY <1>2, <1>3, <1>5, <2>1, <2>4, <3>1 DEF BackupGoesOn, TreeSettles, MayGoOn, Running
  <2>5. CASE MayGoOn /\ RestoreGoesOn
    BY <1>2, <1>3, <1>5, <2>1, <2>5 DEF RestoreGoesOn, TreeSettles, MayGoOn, Running
  <2>6. CASE MayGoOn /\ TreeSettles("failed")
    BY <1>3, <2>1, <2>6 DEF TreeSettles
  <2> QED BY <1>9, <2>2, <2>3, <2>4, <2>5, <2>6 DEF TreeContinues
<1>10. CASE Tick /\ UNCHANGED treeVars
  <2>1. TransferTypeOK' /\ UNCHANGED <<phase, child>>
    BY <1>1, <1>10 DEF Tick, transferVars, stepVars, treeVars, TransferTypeOK
  <2> QED BY <2>1 DEF TreeEnds, Running
<1>11. CASE UNCHANGED <<transferVars, linkVars, treeVars>>
  BY <1>4, <1>11 DEF treeVars
<1> QED BY <1>6, <1>7, <1>8, <1>9, <1>10, <1>11 DEF TreeNext, TreeGoesOn

-----------------------------------------------------------------------------
(* Paths, trees and what is recorded of them *)

Abs(path) == Root \o path

\* What a sequence holds, each once.
Once(s) == \A i, j \in DOMAIN s : s[i] = s[j] => i = j

\* A sequence that holds each element of a set once is as long as the set is large.
LEMMA OnceIsCounted ==
  ASSUME NEW S, NEW s \in Seq(S), Once(s)
  PROVE  IsFiniteSet(Range(s)) /\ Cardinality(Range(s)) = Len(s) /\ Lists(s, Range(s))
<1>1. DOMAIN s = 1..Len(s) /\ Len(s) \in Nat
  OBVIOUS
<1>2. IsFiniteSet(1..Len(s)) /\ Cardinality(1..Len(s)) = Len(s)
  <2>1. IsFiniteSet(1..Len(s)) /\ Cardinality(1..Len(s)) = IF 1 > Len(s) THEN 0 ELSE Len(s) - 1 + 1
    BY <1>1, FS_Interval, 1 \in Int, Len(s) \in Int
  <2>2. (IF 1 > Len(s) THEN 0 ELSE Len(s) - 1 + 1) = Len(s)
    BY <1>1
  <2> QED BY <2>1, <2>2
<1>3. s \in Bijection(1..Len(s), Range(s))
  <2>1. s \in [1..Len(s) -> Range(s)] /\ \A t \in Range(s) : \E i \in 1..Len(s) : s[i] = t
    BY <1>1 DEF Range
  <2>2. \A i, j \in 1..Len(s) : s[i] = s[j] => i = j
    BY <1>1 DEF Once
  <2> QED BY <2>1, <2>2 DEF Bijection, Injection, Surjection, IsInjective
<1>4. ExistsBijection(1..Len(s), Range(s))
  BY <1>3 DEF ExistsBijection
<1>5. IsFiniteSet(Range(s)) /\ Cardinality(Range(s)) = Len(s)
  BY <1>2, <1>4, FS_Bijection
<1> QED BY <1>5 DEF Lists, Range

\* A path is a sequence of names, under the root by one more.
LEMMA PathsAre ==
  \A p \in TreePaths : /\ p \in Seq(Nat) /\ Len(p) \in {1, 2}
                       /\ Len(p) = 1 => p \in [1..1 -> Names]
                       /\ Len(p) = 2 => p \in [1..2 -> Names]
<1> USE TreeAssumption
<1>1. ASSUME NEW n \in {1, 2}, NEW p \in [1..n -> Names]
      PROVE  p \in Seq(Nat) /\ Len(p) = n
  <2>1. Names \subseteq Nat
    OBVIOUS
  <2>2. p \in [1..n -> Nat]
    BY <2>1, Zenon
  <2>3. n \in Nat
    OBVIOUS
  <2> QED BY <2>2, <2>3, IsASeq, LenProperties
<1> QED BY <1>1 DEF TreePaths

\* All but the last element.
LEMMA FrontIs ==
  ASSUME NEW s \in Seq(Nat), Len(s) > 0
  PROVE  Front(s) \in Seq(Nat) /\ Len(Front(s)) = Len(s) - 1 /\ \A i \in 1..(Len(s) - 1) : Front(s)[i] = s[i]
<1> DEFINE one == 1
           last == Len(s) - 1
<1>1. one \in Int /\ last \in Int /\ \A i \in one..last : s[i] \in Nat
  OBVIOUS
<1>2. one = 1 /\ last = Len(s) - 1
  OBVIOUS
<1> HIDE DEF one, last
<1>3. /\ SubSeq(s, one, last) \in Seq(Nat)
      /\ Len(SubSeq(s, one, last)) = IF one <= last THEN last - one + 1 ELSE 0
      /\ \A i \in 1..(last - one + 1) : SubSeq(s, one, last)[i] = s[one + i - 1]
  BY <1>1, SubSeqProperties
<1>4. Front(s) = SubSeq(s, one, last)
  BY <1>2 DEF Front
<1> HIDE DEF Front
<1> QED BY <1>1, <1>2, <1>3, <1>4

LEMMA AbsIs ==
  /\ Abs(<<>>) = Root /\ Root \in Seq(Nat) /\ Len(Root) = 1
  /\ \A q \in Seq(Nat) : /\ Abs(q) \in Seq(Nat) /\ Len(Abs(q)) = Len(q) + 1 /\ Tail(Abs(q)) = q
                         /\ Len(q) > 0 => Front(Abs(q)) = Abs(Front(q)) /\ Last(Abs(q)) = Last(q)
<1>1. Root \in Seq(Nat) /\ Len(Root) = 1 /\ Root[1] = 0
  BY DEF Root
<1>2. Abs(<<>>) = Root
  BY <1>1, ConcatEmptySeq DEF Abs
<1>3. \A s, u \in Seq(Nat) : /\ s \o u \in Seq(Nat) /\ Len(s \o u) = Len(s) + Len(u)
                            /\ \A i \in 1..(Len(s) + Len(u)) :
                                 (s \o u)[i] = IF i <= Len(s) THEN s[i] ELSE u[i - Len(s)]
  BY ConcatProperties, Zenon
<1>4. \A q \in Seq(Nat) :
        /\ Abs(q) \in Seq(Nat) /\ Len(Abs(q)) = Len(q) + 1
        /\ \A i \in 1..(Len(q) + 1) : Abs(q)[i] = IF i = 1 THEN 0 ELSE q[i - 1]
  <2> TAKE q \in Seq(Nat)
  <2> DEFINE root == Root
  <2>1. root \in Seq(Nat) /\ Len(root) = 1 /\ root[1] = 0
    BY <1>1
  <2> HIDE DEF root
  <2>2. /\ root \o q \in Seq(Nat) /\ Len(root \o q) = 1 + Len(q)
        /\ \A i \in 1..(1 + Len(q)) : (root \o q)[i] = IF i <= 1 THEN root[i] ELSE q[i - 1]
    <3>1. /\ root \o q \in Seq(Nat) /\ Len(root \o q) = Len(root) + Len(q)
          /\ \A i \in 1..(Len(root) + Len(q)) :
               (root \o q)[i] = IF i <= Len(root) THEN root[i] ELSE q[i - Len(root)]
      BY <1>3, <2>1, Zenon
    <3> QED BY <2>1, <3>1, Zenon
  <2>3. 1 + Len(q) = Len(q) + 1 /\ \A i \in 1..(Len(q) + 1) : i <= 1 <=> i = 1
    OBVIOUS
  <2>4. \A i \in 1..(Len(q) + 1) : (root \o q)[i] = IF i = 1 THEN 0 ELSE q[i - 1]
    BY <2>1, <2>2, <2>3
  <2>5. Abs(q) = root \o q
    BY DEF Abs, root
  <2> QED BY <2>2, <2>3, <2>4, <2>5
<1>5. ASSUME NEW q \in Seq(Nat)
      PROVE  /\ Abs(q) \in Seq(Nat) /\ Len(Abs(q)) = Len(q) + 1 /\ Tail(Abs(q)) = q
             /\ Len(q) > 0 => Front(Abs(q)) = Abs(Front(q)) /\ Last(Abs(q)) = Last(q)
  <2>1. /\ Abs(q) \in Seq(Nat) /\ Len(Abs(q)) = Len(q) + 1
        /\ \A i \in 1..(Len(q) + 1) : Abs(q)[i] = IF i = 1 THEN 0 ELSE q[i - 1]
    BY <1>4
  <2>2. Tail(Abs(q)) = q
    <3>1. Tail(Abs(q)) \in Seq(Nat) /\ Len(Tail(Abs(q))) = Len(q)
      BY <2>1
    <3>2. \A i \in 1..Len(q) : Tail(Abs(q))[i] = q[i]
      BY <2>1
    <3> QED BY <3>1, <3>2, SeqEqual
  <2>3. ASSUME Len(q) > 0
        PROVE  Front(Abs(q)) = Abs(Front(q)) /\ Last(Abs(q)) = Last(q)
    <3>1. Front(q) \in Seq(Nat) /\ Len(Front(q)) = Len(q) - 1 /\ \A i \in 1..(Len(q) - 1) : Front(q)[i] = q[i]
      BY <2>3, FrontIs
    <3>2. /\ Abs(Front(q)) \in Seq(Nat) /\ Len(Abs(Front(q))) = Len(q)
          /\ \A i \in 1..Len(q) : Abs(Front(q))[i] = IF i = 1 THEN 0 ELSE q[i - 1]
      <4> DEFINE front == Front(q)
      <4>1. front \in Seq(Nat) /\ Len(front) + 1 = Len(q) /\ \A i \in 1..(Len(q) - 1) : front[i] = q[i]
        BY <3>1
      <4> HIDE DEF front
      <4>2. Abs(front) \in Seq(Nat) /\ Len(Abs(front)) = Len(q)
        BY <1>4, <4>1
      <4>3. \A i \in 1..Len(q) : Abs(front)[i] = IF i = 1 THEN 0 ELSE front[i - 1]
        BY <1>4, <4>1
      <4>4. \A i \in 1..Len(q) : i # 1 => i - 1 \in 1..(Len(q) - 1)
        BY <2>3
      <4>5. \A i \in 1..Len(q) : Abs(front)[i] = IF i = 1 THEN 0 ELSE q[i - 1]
        BY <4>1, <4>3, <4>4
      <4> QED BY <4>2, <4>5 DEF front
    <3>3. /\ Front(Abs(q)) \in Seq(Nat) /\ Len(Front(Abs(q))) = Len(q)
          /\ \A i \in 1..Len(q) : Front(Abs(q))[i] = Abs(q)[i]
      <4> DEFINE abs == Abs(q)
      <4>1. abs \in Seq(Nat) /\ Len(abs) = Len(q) + 1 /\ Len(abs) > 0
        BY <2>1, <2>3
      <4> HIDE DEF abs
      <4>2. Front(abs) \in Seq(Nat) /\ Len(Front(abs)) = Len(q) /\ \A i \in 1..Len(q) : Front(abs)[i] = abs[i]
        <5>1. Front(abs) \in Seq(Nat) /\ Len(Front(abs)) = Len(abs) - 1 /\ \A i \in 1..(Len(abs) - 1) : Front(abs)[i] = abs[i]
          BY <4>1, FrontIs
        <5>2. Len(abs) - 1 = Len(q)
          BY <4>1
        <5> QED BY <5>1, <5>2
      <4> QED BY <4>2 DEF abs
    <3>4. Front(Abs(q)) = Abs(Front(q))
      <4> DEFINE one == Front(Abs(q))
                 two == Abs(Front(q))
      <4>1. one \in Seq(Nat) /\ two \in Seq(Nat) /\ Len(one) = Len(two) /\ \A i \in 1..Len(one) : one[i] = two[i]
        <5>1. one \in Seq(Nat) /\ two \in Seq(Nat) /\ Len(one) = Len(q) /\ Len(two) = Len(q)
          BY <3>2, <3>3
        <5>2. \A i \in 1..Len(q) : one[i] = Abs(q)[i] /\ two[i] = (IF i = 1 THEN 0 ELSE q[i - 1])
          BY <3>2, <3>3
        <5>3. \A i \in 1..Len(q) : Abs(q)[i] = (IF i = 1 THEN 0 ELSE q[i - 1])
          BY <2>1
        <5> HIDE DEF one, two
        <5> QED BY <5>1, <5>2, <5>3
      <4> HIDE DEF one, two
      <4>2. one = two
        BY <4>1, SeqEqual
      <4> QED BY <4>2 DEF one, two
    <3> QED BY <2>1, <2>3, <3>4 DEF Last
  <2> QED BY <2>1, <2>2, <2>3
<1> QED BY <1>1, <1>2, <1>5

\* A path is its directory's and its own name.
LEMMA ParentIs ==
  ASSUME NEW q \in Seq(Nat), Len(q) > 0
  PROVE  Front(q) \in Seq(Nat) /\ Len(Front(q)) = Len(q) - 1 /\ Append(Front(q), Last(q)) = q /\ Last(q) \in Nat
<1>1. Front(q) \in Seq(Nat) /\ Len(Front(q)) = Len(q) - 1 /\ \A i \in 1..(Len(q) - 1) : Front(q)[i] = q[i]
  BY FrontIs
<1>2. Last(q) \in Nat /\ Last(q) = q[Len(q)]
  BY DEF Last
<1>3. Append(Front(q), Last(q)) \in Seq(Nat) /\ Len(Append(Front(q), Last(q))) = Len(q)
  BY <1>1, <1>2
<1>4. \A i \in 1..Len(q) : Append(Front(q), Last(q))[i] = q[i]
  BY <1>1, <1>2
<1> QED BY <1>1, <1>2, <1>3, <1>4, SeqEqual

\* There are finitely many paths.
LEMMA PathsAreFinite == IsFiniteSet(TreePaths)
<1>1. IsFiniteSet([1..1 -> Names])
  <2> DEFINE f == [n \in Names |-> [i \in 1..1 |-> n]]
  <2>1. f \in [Names -> [1..1 -> Names]]
    OBVIOUS
  <2>2. ASSUME NEW p \in [1..1 -> Names]
        PROVE  \E n \in Names : f[n] = p
    <3>1. p[1] \in Names /\ f[p[1]] = [i \in 1..1 |-> p[1]]
      OBVIOUS
    <3>2. p = [i \in 1..1 |-> p[1]]
      OBVIOUS
    <3> QED BY <3>1, <3>2
  <2>3. f \in Surjection(Names, [1..1 -> Names])
    BY <2>1, <2>2 DEF Surjection
  <2> QED BY <2>3, FS_Surjection, TreeAssumption
<1>2. IsFiniteSet([1..2 -> Names])
  <2> DEFINE f == [c \in Names \X Names |-> [i \in 1..2 |-> IF i = 1 THEN c[1] ELSE c[2]]]
  <2>1. f \in [Names \X Names -> [1..2 -> Names]]
    OBVIOUS
  <2>2. ASSUME NEW p \in [1..2 -> Names]
        PROVE  \E c \in Names \X Names : f[c] = p
    <3>1. <<p[1], p[2]>> \in Names \X Names
      OBVIOUS
    <3>2. f[<<p[1], p[2]>>] = [i \in 1..2 |-> IF i = 1 THEN p[1] ELSE p[2]]
      BY <3>1
    <3>3. p = [i \in 1..2 |-> IF i = 1 THEN p[1] ELSE p[2]]
      OBVIOUS
    <3> QED BY <3>1, <3>2, <3>3
  <2>3. f \in Surjection(Names \X Names, [1..2 -> Names])
    BY <2>1, <2>2 DEF Surjection
  <2>4. IsFiniteSet(Names \X Names)
    BY FS_Product, TreeAssumption
  <2> QED BY <2>3, <2>4, FS_Surjection
<1> QED BY <1>1, <1>2, FS_Union DEF TreePaths

\* What a tree has is finitely many paths, each beside the directory it is in.
LEMMA TreesAre ==
  ASSUME tree \in Trees
  PROVE  /\ DOMAIN tree \subseteq TreePaths /\ IsFiniteSet(DOMAIN tree) /\ Cardinality(DOMAIN tree) <= TreeSize
         /\ \A p \in DOMAIN tree : /\ tree[p] \in {"directory", "file"}
                                   /\ Len(p) > 1 => Front(p) \in DOMAIN tree /\ tree[Front(p)] = "directory"
<1>1. PICK ps \in SUBSET TreePaths : Cardinality(ps) <= TreeSize /\ tree \in [ps -> {"directory", "file"}]
  BY DEF Trees
<1>2. DOMAIN tree = ps /\ \A p \in DOMAIN tree : tree[p] \in {"directory", "file"}
  BY <1>1
<1>3. \A p \in DOMAIN tree : Len(p) > 1 => Front(p) \in DOMAIN tree /\ tree[Front(p)] = "directory"
  BY DEF Trees
<1>4. IsFiniteSet(ps)
  BY PathsAreFinite, FS_Subset
<1> QED BY <1>1, <1>2, <1>3, <1>4

\* Nothing in a tree is deeper than in a directory of its top.
LEMMA DepthIs ==
  ASSUME tree \in Trees, NEW p \in DOMAIN tree
  PROVE  /\ p \in Seq(Nat) /\ Len(p) > 0 /\ Front(p) \in Seq(Nat) /\ Len(Front(p)) = Len(p) - 1
         /\ \/ Front(p) = <<>>
            \/ Front(p) \in DOMAIN tree /\ tree[Front(p)] = "directory" /\ Front(Front(p)) = <<>>
<1>1. p \in Seq(Nat) /\ Len(p) \in {1, 2}
  BY TreesAre, PathsAre
<1>2. Front(p) \in Seq(Nat) /\ Len(Front(p)) = Len(p) - 1
  <2> DEFINE size == Len(p)
  <2>1. size = 1 \/ size = 2
    BY <1>1
  <2> HIDE DEF size
  <2>2. size > 0
    BY <2>1
  <2>3. Len(p) > 0
    BY <2>2 DEF size
  <2> QED BY <1>1, <2>3, FrontIs, Zenon
<1>3. \A s \in Seq(Nat) : Len(s) = 0 => s = <<>>
  BY EmptySeq
<1>4. CASE Len(p) = 1
  BY <1>1, <1>2, <1>3, <1>4
<1>5. CASE Len(p) = 2
  <2>1. Front(p) \in DOMAIN tree /\ tree[Front(p)] = "directory"
    BY <1>5, TreesAre
  <2>2. Front(Front(p)) \in Seq(Nat) /\ Len(Front(Front(p))) = 0
    <3> DEFINE front == Front(p)
    <3>1. front \in Seq(Nat) /\ Len(front) = 1 /\ Len(front) > 0
      BY <1>2, <1>5
    <3> HIDE DEF front
    <3>2. Front(front) \in Seq(Nat) /\ Len(Front(front)) = Len(front) - 1
      BY <3>1, FrontIs, Zenon
    <3> QED BY <3>1, <3>2 DEF front
  <2> QED BY <1>1, <1>2, <1>3, <1>5, <2>1, <2>2
<1> QED BY <1>1, <1>4, <1>5

\* What the vehicle has of a tree.
LEMMA AbsoluteIs ==
  ASSUME tree \in Trees
  PROVE  /\ DOMAIN Absolute(tree) = {Root} \cup {Abs(q) : q \in DOMAIN tree}
         /\ Absolute(tree)[Root] = Directory
         /\ \A q \in DOMAIN tree : /\ Abs(q) # Root
                                   /\ Absolute(tree)[Abs(q)] = IF tree[q] = "directory" THEN Directory ELSE FileOf(q)
<1>1. \A q \in DOMAIN tree : Abs(q) # Root /\ Tail(Abs(q)) = q
  <2> TAKE q \in DOMAIN tree
  <2>1. q \in Seq(Nat) /\ Len(q) > 0
    BY DepthIs
  <2>2. Len(Abs(q)) # Len(Root)
    <3>1. Len(Abs(q)) = Len(q) + 1 /\ Len(Root) = 1 /\ Len(q) \in Nat
      BY <2>1, AbsIs
    <3> QED BY <2>1, <3>1
  <2>3. Abs(q) # Root
    BY <2>2
  <2> QED BY <2>1, <2>3, AbsIs
<1>2. Absolute(tree) = [p \in {Root} \cup {Abs(q) : q \in DOMAIN tree} |->
                          IF p = Root \/ tree[Tail(p)] = "directory" THEN Directory ELSE FileOf(Tail(p))]
  BY DEF Absolute, Abs
<1> HIDE DEF Abs, Root, Directory, FileOf
<1> QED BY <1>1, <1>2

\* A record has each directory, or each file, once, and parents first.
LEMMA AsRecordedIs ==
  ASSUME tree \in Trees, NEW kind
  PROVE  /\ AsRecorded(tree, kind) \in Seq(DOMAIN tree) /\ Once(AsRecorded(tree, kind))
         /\ Range(AsRecorded(tree, kind)) = PathsOf(tree, kind)
         /\ \A i, j \in DOMAIN AsRecorded(tree, kind) :
              i < j => Len(AsRecorded(tree, kind)[i]) <= Len(AsRecorded(tree, kind)[j])
<1> DEFINE all == PathsOf(tree, kind)
           of(n) == {p \in all : Len(p) = n}
           Sorted(s) == \A i, j \in DOMAIN s : i < j => Len(s[i]) <= Len(s[j])
<1>1. \A p \in all : p \in DOMAIN tree /\ Len(p) \in {1, 2}
  BY TreesAre, PathsAre DEF PathsOf
<1>2. IsFiniteSet(all) /\ IsFiniteSet(of(1)) /\ IsFiniteSet(of(2))
  <2>1. all \subseteq DOMAIN tree /\ of(1) \subseteq DOMAIN tree /\ of(2) \subseteq DOMAIN tree
    BY <1>1
  <2> QED BY <2>1, TreesAre, FS_Subset
<1>3. Cardinality(of(1)) \in Nat /\ Cardinality(of(2)) \in Nat /\ Cardinality(all) = Cardinality(of(1)) + Cardinality(of(2))
  <2>1. all = of(1) \cup of(2) /\ of(1) \cap of(2) = {}
    BY <1>1
  <2>2. Cardinality(of(1)) \in Nat /\ Cardinality(of(2)) \in Nat
    BY <1>2, FS_CardinalityType
  <2> HIDE DEF all, of
  <2>3. Cardinality(of(1) \cup of(2)) = Cardinality(of(1)) + Cardinality(of(2)) - Cardinality(of(1) \cap of(2))
    BY <1>2, FS_Union
  <2>4. Cardinality({}) = 0
    BY FS_EmptySet
  <2>5. Cardinality(of(1) \cap of(2)) = 0 /\ Cardinality(all) = Cardinality(of(1) \cup of(2))
    BY <2>1, <2>4
  <2> DEFINE x == Cardinality(of(1))
             y == Cardinality(of(2))
  <2>6. x \in Nat /\ y \in Nat /\ Cardinality(all) = x + y - 0
    BY <2>2, <2>3, <2>5
  <2> HIDE DEF x, y
  <2>7. Cardinality(all) = x + y
    BY <2>6
  <2> QED BY <2>2, <2>7 DEF x, y
<1> DEFINE m == Cardinality(of(1))
           n == Cardinality(of(2))
<1>4. PICK a \in Bijection(1..m, of(1)) : TRUE
  BY <1>2, FS_CardinalityType DEF ExistsBijection
<1>5. PICK b \in Bijection(1..n, of(2)) : TRUE
  BY <1>2, FS_CardinalityType DEF ExistsBijection
<1> DEFINE s == [i \in 1..(m + n) |-> IF i <= m THEN a[i] ELSE b[i - m]]
<1>6. \A i \in 1..m : a[i] \in of(1)
  BY <1>4 DEF Bijection, Injection, IsInjective
<1>7. \A i \in 1..n : b[i] \in of(2)
  BY <1>5 DEF Bijection, Injection, IsInjective
<1>8. \A i, j \in 1..m : a[i] = a[j] => i = j
  BY <1>4 DEF Bijection, Injection, IsInjective
<1>9. \A i, j \in 1..n : b[i] = b[j] => i = j
  BY <1>5 DEF Bijection, Injection, IsInjective
<1>10. m \in Nat /\ n \in Nat /\ m + n = Cardinality(all)
  BY <1>3
<1>11. \A i \in 1..(m + n) : i <= m \/ i - m \in 1..n
  BY <1>10
<1> HIDE DEF m, n, all
<1>12. \A i \in 1..(m + n) : s[i] \in all /\ Len(s[i]) = IF i <= m THEN 1 ELSE 2
  <2>1. \A i \in 1..(m + n) : i <= m => i \in 1..m
    BY <1>10
  <2> QED BY <1>6, <1>7, <1>11, <2>1
<1>13. \A i, j \in 1..(m + n) : i # j => s[i] # s[j]
  <2> SUFFICES ASSUME NEW i \in 1..(m + n), NEW j \in 1..(m + n), s[i] = s[j]
               PROVE  i = j
    OBVIOUS
  <2>1. i <= m <=> j <= m
    <3>1. Len(s[i]) = (IF i <= m THEN 1 ELSE 2) /\ Len(s[j]) = IF j <= m THEN 1 ELSE 2
      BY <1>12
    <3> HIDE DEF s
    <3> QED BY <3>1
  <2>2. CASE i <= m
    <3>1. i \in 1..m /\ j \in 1..m /\ a[i] = a[j]
      BY <1>10, <2>1, <2>2
    <3> QED BY <1>8, <3>1
  <2>3. CASE ~(i <= m)
    <3>1. i - m \in 1..n /\ j - m \in 1..n /\ b[i - m] = b[j - m]
      BY <1>11, <2>1, <2>3
    <3>2. i - m = j - m
      BY <1>9, <3>1
    <3> QED BY <1>10, <3>2
  <2> QED BY <2>2, <2>3
<1>14. s \in SetToSeqs(all) /\ Sorted(s)
  <2>1. s \in [1..(m + n) -> all]
    BY <1>12
  <2>2. Sorted(s)
    <3>1. DOMAIN s = 1..(m + n)
      OBVIOUS
    <3> HIDE DEF s
    <3> SUFFICES ASSUME NEW i \in 1..(m + n), NEW j \in 1..(m + n), i < j
                 PROVE  Len(s[i]) <= Len(s[j])
      BY <3>1
    <3>2. Len(s[i]) = (IF i <= m THEN 1 ELSE 2) /\ Len(s[j]) = IF j <= m THEN 1 ELSE 2
      BY <1>12
    <3> QED BY <1>10, <3>2
  <2> HIDE DEF s
  <2> QED BY <1>10, <1>13, <2>1, <2>2 DEF SetToSeqs
<1> DEFINE r == AsRecorded(tree, kind)
<1>15. r \in SetToSeqs(all) /\ Sorted(r)
  <2> HIDE DEF s
  <2> QED BY <1>14 DEF AsRecorded, all
<1> HIDE DEF r
<1>16. r \in [1..Cardinality(all) -> all] /\ \A i, j \in 1..Cardinality(all) : i # j => r[i] # r[j]
  BY <1>15 DEF SetToSeqs
<1>17. r \in Seq(all) /\ Len(r) = Cardinality(all) /\ Cardinality(all) \in Nat
  BY <1>10, <1>16
<1>18. Once(r)
  BY <1>16, <1>17 DEF Once
<1>19. Range(r) = all
  <2>1. Range(r) \subseteq all /\ IsFiniteSet(Range(r)) /\ Cardinality(Range(r)) = Cardinality(all)
    <3>1. Range(r) \subseteq all
      BY <1>16 DEF Range
    <3> QED BY <3>1, <1>17, <1>18, OnceIsCounted
  <2> QED BY <1>2, <2>1, FS_Subset
<1>20. r \in Seq(DOMAIN tree)
  <2>1. all \subseteq DOMAIN tree
    BY <1>1
  <2> QED BY <1>17, <2>1
<1> QED BY <1>15, <1>18, <1>19, <1>20 DEF r, all

-----------------------------------------------------------------------------
(* Listings *)

\* What holds of zero, and of the next number of each it holds of, holds of all.
LEMMA AllNumbers ==
  ASSUME NEW T, 0 \in T, \A n \in Nat : n \in T => n + 1 \in T
  PROVE  \A n \in Nat : n \in T
<1> SUFFICES ASSUME \E n \in Nat : n \notin T
             PROVE  FALSE
  OBVIOUS
<1> DEFINE rest == {n \in Nat : n \notin T}
           least == Min(rest)
<1>1. least \in rest /\ \A n \in rest : least <= n
  BY LeastOf, rest \subseteq Nat, rest # {}
<1> HIDE DEF least
<1>2. least \in Nat /\ least # 0
  BY <1>1
<1>3. least - 1 \in Nat /\ ~(least <= least - 1) /\ least = (least - 1) + 1
  BY <1>2
<1>4. least - 1 \in T
  BY <1>1, <1>3
<1> QED BY <1>1, <1>3, <1>4

\* One more that is not there yet.
LEMMA OneMore ==
  ASSUME NEW S, NEW s \in Seq(S), Once(s), NEW x \in S, x \notin Range(s)
  PROVE  /\ Append(s, x) \in Seq(S) /\ Once(Append(s, x))
         /\ \A p : p \in Range(Append(s, x)) <=> p \in Range(s) \/ p = x
<1> DEFINE t == Append(s, x)
<1>1. /\ t \in Seq(S) /\ DOMAIN t = 1..(Len(s) + 1) /\ DOMAIN s = 1..Len(s) /\ Len(s) \in Nat
      /\ t[Len(s) + 1] = x /\ \A i \in 1..Len(s) : t[i] = s[i]
  BY AppendProperties
<1>2. \A i \in 1..(Len(s) + 1) : i = Len(s) + 1 \/ i \in 1..Len(s)
  BY <1>1
<1>3. \A i \in 1..Len(s) : i \in 1..(Len(s) + 1)
  BY <1>1
<1>4. Len(s) + 1 \in 1..(Len(s) + 1)
  BY <1>1
<1> HIDE DEF t
<1>5. Once(t)
  BY <1>1, <1>2 DEF Once, Range
<1>6. \A p : p \in Range(t) <=> p \in Range(s) \/ p = x
  BY <1>1, <1>2, <1>3, <1>4 DEF Range
<1> QED BY <1>1, <1>5, <1>6 DEF t

\* A listing whose entries of a kind have different names names each of them once.
LEMMA FoundIs ==
  ASSUME NEW kind, NEW V, child.found \in Seq(V), Tail(child.path) \in Seq(Nat),
         \A i \in 1..Len(child.found) : child.found[i].name \in Nat,
         \A i, j \in 1..Len(child.found) :
           child.found[i].kind = kind /\ child.found[j].kind = kind /\ child.found[i].name = child.found[j].name => i = j
  PROVE  /\ Found(kind) \in Seq(Seq(Nat)) /\ Once(Found(kind))
         /\ \A p : p \in Range(Found(kind)) <=>
              \E i \in 1..Len(child.found) :
                child.found[i].kind = kind /\ child.found[i].name # Dot /\ p = Append(Tail(child.path), child.found[i].name)
<1> DEFINE last == Len(child.found)
           Named(k) == child.found[k].kind = kind /\ child.found[k].name # Dot
           Path(k) == Append(Tail(child.path), child.found[k].name)
           Kept(k, v) == IF child.found[k].kind = kind /\ child.found[k].name # Dot
                         THEN Append(v, Join(Tail(child.path), child.found[k].name)) ELSE v
           found == CHOOSE f : f = [k \in 0..last |-> IF k = 0 THEN <<>> ELSE Kept(k, f[k - 1])]
<1>1. last \in Nat
  OBVIOUS
<1>2. Found(kind) = found[last]
  BY DEF Found
<1>3. \A k \in 1..last : \A v : Kept(k, v) = IF Named(k) THEN Append(v, Path(k)) ELSE v
  BY DEF Join
<1>4. \A k \in 1..last : Path(k) \in Seq(Nat)
  BY AppendProperties
<1>5. \A i, j \in 1..last : Named(i) /\ Named(j) /\ Path(i) = Path(j) => i = j
  <2> SUFFICES ASSUME NEW i \in 1..last, NEW j \in 1..last, Named(i), Named(j), Path(i) = Path(j)
               PROVE  i = j
    OBVIOUS
  <2>1. child.found[i].name = child.found[j].name
    BY AppendInjective
  <2> QED BY <2>1
<1> HIDE DEF last, Named, Path, Kept
<1>6. \E f : f = [k \in 0..last |-> IF k = 0 THEN <<>> ELSE Kept(k, f[k - 1])]
  <2> DEFINE T == {n \in Nat : \E f : f = [k \in 0..n |-> IF k = 0 THEN <<>> ELSE Kept(k, f[k - 1])]}
  <2>1. 0 \in T
    <3> DEFINE f == [k \in 0..0 |-> <<>>]
    <3>1. f = [k \in 0..0 |-> IF k = 0 THEN <<>> ELSE Kept(k, f[k - 1])]
      OBVIOUS
    <3> QED BY <3>1
  <2>2. ASSUME NEW n \in Nat, n \in T
        PROVE  n + 1 \in T
    <3>1. PICK f : f = [k \in 0..n |-> IF k = 0 THEN <<>> ELSE Kept(k, f[k - 1])]
      BY <2>2
    <3> DEFINE g == [k \in 0..(n + 1) |-> IF k = n + 1 THEN Kept(k, f[n]) ELSE f[k]]
    <3>2. \A k \in 0..n : f[k] = IF k = 0 THEN <<>> ELSE Kept(k, f[k - 1])
      BY <3>1
    <3>3. \A k \in 0..(n + 1) : g[k] = IF k = n + 1 THEN Kept(k, f[n]) ELSE f[k]
      OBVIOUS
    <3>4. \A k \in 0..(n + 1) : g[k] = IF k = 0 THEN <<>> ELSE Kept(k, g[k - 1])
      <4> TAKE k \in 0..(n + 1)
      <4> HIDE DEF g
      <4>1. CASE k = n + 1
        <5>1. k # 0 /\ k - 1 = n /\ n \in 0..(n + 1) /\ n # n + 1
          BY <4>1
        <5>2. g[k - 1] = f[n]
          BY <3>3, <5>1
        <5> QED BY <3>3, <4>1, <5>1, <5>2
      <4>2. CASE k # n + 1
        <5>1. k \in 0..n /\ g[k] = f[k]
          BY <3>3, <4>2
        <5>2. k # 0 => k - 1 \in 0..(n + 1) /\ k - 1 # n + 1
          BY <5>1
        <5>3. k # 0 => g[k - 1] = f[k - 1]
          BY <3>3, <5>2
        <5> QED BY <3>2, <5>1, <5>3
      <4> QED BY <4>1, <4>2
    <3>5. g = [k \in 0..(n + 1) |-> IF k = 0 THEN <<>> ELSE Kept(k, g[k - 1])]
      BY <3>4
    <3> HIDE DEF g
    <3> QED BY <3>5
  <2> HIDE DEF T
  <2>3. last \in T
    BY <1>1, <2>1, <2>2, AllNumbers
  <2> QED BY <2>3 DEF T
<1>7. found = [k \in 0..last |-> IF k = 0 THEN <<>> ELSE Kept(k, found[k - 1])]
  BY <1>6
<1> HIDE DEF found
<1>8. \A k \in 0..last : found[k] = IF k = 0 THEN <<>> ELSE Kept(k, found[k - 1])
  BY <1>7
<1> DEFINE Is(n) == /\ found[n] \in Seq(Seq(Nat)) /\ Once(found[n])
                    /\ \A p : p \in Range(found[n]) <=> \E i \in 1..n : Named(i) /\ p = Path(i)
           T == {n \in Nat : n <= last => Is(n)}
<1>9. 0 \in T
  <2>1. found[0] = <<>>
    <3>1. 0 \in 0..last
      BY <1>1
    <3> QED BY <1>8, <3>1
  <2>2. <<>> \in Seq(Seq(Nat)) /\ Once(<<>>) /\ Range(<<>>) = {}
    BY DEF Once, Range
  <2>3. \A i \in 1..0 : FALSE
    OBVIOUS
  <2> QED BY <2>1, <2>2, <2>3, Zenon
<1>10. ASSUME NEW n \in Nat, n \in T, n + 1 <= last
       PROVE  Is(n + 1)
  <2>1. /\ n + 1 \in 1..last /\ n + 1 \in 0..last /\ n + 1 # 0 /\ (n + 1) - 1 = n
        /\ \A i \in 1..(n + 1) : i = n + 1 \/ i \in 1..n
        /\ \A i \in 1..n : i \in 1..(n + 1) /\ i \in 1..last /\ i # n + 1
    BY <1>1, <1>10
  <2>2. Is(n)
    BY <1>1, <1>10
  <2>3. found[n + 1] = Kept(n + 1, found[n])
    BY <1>8, <2>1
  <2> DEFINE s == found[n]
             x == Path(n + 1)
  <2>4. CASE ~Named(n + 1)
    <3>1. found[n + 1] = s
      BY <1>3, <2>1, <2>3, <2>4
    <3> QED BY <2>1, <2>2, <2>4, <3>1
  <2>5. CASE Named(n + 1)
    <3>1. found[n + 1] = Append(s, x) /\ x \in Seq(Nat)
      BY <1>3, <1>4, <2>1, <2>3, <2>5
    <3>2. x \notin Range(s)
      BY <1>5, <2>1, <2>2, <2>5
    <3> HIDE DEF s, x
    <3>3. s \in Seq(Seq(Nat)) /\ Once(s)
      BY <2>2 DEF s
    <3>4. /\ Append(s, x) \in Seq(Seq(Nat)) /\ Once(Append(s, x))
          /\ \A p : p \in Range(Append(s, x)) <=> p \in Range(s) \/ p = x
      BY <3>1, <3>2, <3>3, OneMore
    <3>5. \A p : p \in Range(found[n + 1]) <=> p \in Range(s) \/ p = x
      BY <3>1, <3>4
    <3>6. \A p : p \in Range(s) <=> \E i \in 1..n : Named(i) /\ p = Path(i)
      BY <2>2 DEF s
    <3>7. \A p : p \in Range(found[n + 1]) <=> \E i \in 1..(n + 1) : Named(i) /\ p = Path(i)
      BY <2>1, <2>5, <3>5, <3>6 DEF x
    <3> QED BY <3>1, <3>4, <3>7
  <2> QED BY <2>4, <2>5
<1>11. last \in T
  <2>1. \A n \in Nat : n \in T => n + 1 \in T
    <3> SUFFICES ASSUME NEW n \in Nat, n \in T
                 PROVE  n + 1 \in T
      OBVIOUS
    <3>1. n + 1 <= last => Is(n + 1)
      BY <1>10
    <3>2. n + 1 \in Nat
      OBVIOUS
    <3> QED BY <3>1, <3>2
  <2> HIDE DEF T
  <2> QED BY <1>1, <1>9, <2>1, AllNumbers
<1>12. Is(last)
  BY <1>1, <1>11
<1> QED BY <1>2, <1>12 DEF last, Named, Path

\* What is in a directory of the tree, what a listing has of it, and what it answers.
In(d) == {q \in DOMAIN tree : Front(q) = d}
Entries(d) == {[name |-> Last(q), kind |-> tree[q]] : q \in In(d)}
Listing(path, found) ==
  \E order \in SetToSeqs({[name |-> Last(p), kind |-> fileSystem[p].kind] :
                            p \in {p \in DOMAIN fileSystem : Len(p) > 1 /\ Front(p) = path}}) :
    found = <<[name |-> Dot, kind |-> "directory"]>> \o order

\* A listing of a directory of the tree has an entry for each that is in it.
LEMMA ListingIs ==
  ASSUME tree \in Trees, fileSystem = Absolute(tree), NEW d \in Seq(Nat), NEW found, Listing(Abs(d), found)
  PROVE  \E order \in SetToSeqs(Entries(d)) : found = <<[name |-> Dot, kind |-> "directory"]>> \o order
<1> DEFINE inside == {p \in DOMAIN fileSystem : Len(p) > 1 /\ Front(p) = Abs(d)}
           E(p) == [name |-> Last(p), kind |-> fileSystem[p].kind]
<1>1. \A q \in DOMAIN tree : /\ Abs(q) \in DOMAIN fileSystem /\ Len(Abs(q)) > 1
                             /\ Front(Abs(q)) = Abs(d) <=> Front(q) = d
                             /\ Last(Abs(q)) = Last(q) /\ fileSystem[Abs(q)].kind = tree[q]
  <2> TAKE q \in DOMAIN tree
  <2>1. q \in Seq(Nat) /\ Len(q) > 0 /\ Front(q) \in Seq(Nat)
    BY DepthIs
  <2>2. Abs(q) \in DOMAIN fileSystem /\ fileSystem[Abs(q)] = IF tree[q] = "directory" THEN Directory ELSE FileOf(q)
    BY AbsoluteIs
  <2>3. tree[q] \in {"directory", "file"}
    BY TreesAre
  <2>4. fileSystem[Abs(q)].kind = tree[q]
    BY <2>2, <2>3 DEF Directory, FileOf
  <2>5. Len(Abs(q)) = Len(q) + 1 /\ Front(Abs(q)) = Abs(Front(q)) /\ Last(Abs(q)) = Last(q)
    BY <2>1, AbsIs
  <2>6. Front(Abs(q)) = Abs(d) <=> Front(q) = d
    <3>1. Tail(Abs(d)) = d /\ Tail(Abs(Front(q))) = Front(q)
      BY <2>1, AbsIs
    <3> QED BY <2>5, <3>1
  <2>7. Len(Abs(q)) > 1
    BY <2>1, <2>5
  <2> QED BY <2>2, <2>4, <2>5, <2>6, <2>7
<1>2. \A p \in inside : \E q \in In(d) : p = Abs(q)
  <2> TAKE p \in inside
  <2>1. p \in {Root} \cup {Abs(q) : q \in DOMAIN tree}
    BY AbsoluteIs
  <2>2. p # Root
    <3>1. Len(p) > 1
      OBVIOUS
    <3>2. Len(Root) = 1
      BY AbsIs
    <3>3. ~(1 > 1)
      OBVIOUS
    <3> QED BY <3>1, <3>2, <3>3, Zenon
  <2> QED BY <1>1, <2>1, <2>2 DEF In
<1>3. \A q \in In(d) : Abs(q) \in inside /\ E(Abs(q)) = [name |-> Last(q), kind |-> tree[q]]
  BY <1>1 DEF In
<1>4. {E(p) : p \in inside} = Entries(d)
  <2> HIDE DEF inside, E
  <2>1. ASSUME NEW e \in {E(p) : p \in inside}
        PROVE  e \in Entries(d)
    <3>1. PICK p \in inside : e = E(p)
      OBVIOUS
    <3>2. PICK q \in In(d) : p = Abs(q)
      BY <1>2
    <3> QED BY <1>3, <3>1, <3>2 DEF Entries
  <2>2. ASSUME NEW e \in Entries(d)
        PROVE  e \in {E(p) : p \in inside}
    <3>1. PICK q \in In(d) : e = [name |-> Last(q), kind |-> tree[q]]
      BY DEF Entries
    <3> QED BY <1>3, <3>1
  <2> QED BY <2>1, <2>2
<1> QED BY <1>4 DEF Listing

\* The entries of a directory are finitely many, and different names.
LEMMA EntriesAre ==
  ASSUME tree \in Trees, NEW d \in Seq(Nat)
  PROVE  /\ IsFiniteSet(Entries(d))
         /\ \A e \in Entries(d) : e.name \in Nat /\ e.name # Dot
         /\ \A e, f \in Entries(d) : e.name = f.name /\ e.kind = f.kind => e = f
         /\ \A kind, q : q \in In(d) /\ tree[q] = kind <=>
                           \E e \in Entries(d) : e.kind = kind /\ q = Append(d, e.name)
<1>1. \A q \in In(d) : /\ q \in DOMAIN tree /\ q \in Seq(Nat) /\ Len(q) > 0 /\ Append(d, Last(q)) = q
                       /\ Last(q) \in Names
  <2> TAKE q \in In(d)
  <2>1. q \in DOMAIN tree /\ q \in Seq(Nat) /\ Len(q) > 0 /\ Front(q) = d
    BY DepthIs DEF In
  <2>2. Append(d, Last(q)) = q
    BY <2>1, ParentIs
  <2>3. q \in TreePaths
    BY <2>1, TreesAre
  <2>4. Last(q) \in Names
    <3>1. CASE Len(q) = 1
      <4>1. q \in [1..1 -> Names]
        BY <2>3, <3>1, PathsAre
      <4> QED BY <3>1, <4>1 DEF Last
    <3>2. CASE Len(q) = 2
      <4>1. q \in [1..2 -> Names]
        BY <2>3, <3>2, PathsAre
      <4> QED BY <3>2, <4>1 DEF Last
    <3> QED BY <2>3, <3>1, <3>2, PathsAre
  <2> QED BY <2>1, <2>2, <2>4
<1>2. \A q \in In(d) : Last(q) \in Nat /\ Last(q) # Dot
  BY <1>1, TreeAssumption DEF Dot
<1>3. IsFiniteSet(Entries(d))
  <2> DEFINE f == [q \in In(d) |-> [name |-> Last(q), kind |-> tree[q]]]
  <2>1. f \in Surjection(In(d), Entries(d))
    BY DEF Surjection, Entries
  <2>2. IsFiniteSet(In(d))
    <3>1. In(d) \subseteq DOMAIN tree
      BY DEF In
    <3> QED BY <3>1, TreesAre, FS_Subset
  <2> QED BY <2>1, <2>2, FS_Surjection
<1>4. \A e \in Entries(d) : e.name \in Nat /\ e.name # Dot
  BY <1>2 DEF Entries
<1>5. \A e, f \in Entries(d) : e.name = f.name /\ e.kind = f.kind => e = f
  BY DEF Entries
<1>6. ASSUME NEW kind, NEW q
      PROVE  q \in In(d) /\ tree[q] = kind <=> \E e \in Entries(d) : e.kind = kind /\ q = Append(d, e.name)
  <2>1. ASSUME q \in In(d), tree[q] = kind
        PROVE  \E e \in Entries(d) : e.kind = kind /\ q = Append(d, e.name)
    <3> DEFINE e == [name |-> Last(q), kind |-> tree[q]]
    <3>1. e \in Entries(d) /\ e.kind = kind /\ e.name = Last(q)
      BY <2>1 DEF Entries
    <3>2. q = Append(d, Last(q))
      BY <1>1, <2>1
    <3> QED BY <3>1, <3>2
  <2>2. ASSUME NEW e \in Entries(d), e.kind = kind, q = Append(d, e.name)
        PROVE  q \in In(d) /\ tree[q] = kind
    <3>1. PICK p \in In(d) : e = [name |-> Last(p), kind |-> tree[p]]
      BY DEF Entries
    <3>2. p = Append(d, Last(p)) /\ e.name = Last(p) /\ e.kind = tree[p]
      BY <1>1, <3>1
    <3>3. p = q
      BY <2>2, <3>2
    <3> QED BY <2>2, <3>1, <3>2, <3>3
  <2> QED BY <2>1, <2>2
<1> QED BY <1>3, <1>4, <1>5, <1>6

\* What a listing names is what the tree has in the directory, each once.
LEMMA ListedIs ==
  ASSUME tree \in Trees, fileSystem = Absolute(tree), NEW d \in Seq(Nat), child.path = Abs(d),
         Listing(child.path, child.found), NEW kind
  PROVE  /\ Found(kind) \in Seq(Seq(Nat)) /\ Once(Found(kind))
         /\ \A q : q \in Range(Found(kind)) <=> q \in In(d) /\ tree[q] = kind
<1> DEFINE E == Entries(d)
           dot == [name |-> Dot, kind |-> "directory"]
           size == Cardinality(E)
<1>1. PICK order \in SetToSeqs(E) : child.found = <<dot>> \o order
  BY ListingIs
<1>2. IsFiniteSet(E) /\ size \in Nat
  BY EntriesAre, FS_CardinalityType
<1>3. order \in [1..size -> E] /\ \A i, j \in 1..size : order[i] = order[j] => i = j
  BY DEF SetToSeqs
<1> HIDE DEF size
<1>4. order \in Seq(E) /\ Len(order) = size /\ Once(order)
  BY <1>2, <1>3 DEF Once
<1>5. Range(order) = E
  <2>1. Range(order) \subseteq E
    BY <1>3 DEF Range
  <2>2. Cardinality(Range(order)) = Cardinality(E)
    BY <1>4, OnceIsCounted DEF size
  <2> QED BY <1>2, <2>1, <2>2, FS_Subset
<1>6. \A e \in E : \E i \in 1..size : e = order[i]
  BY <1>3, <1>5 DEF Range
<1> DEFINE found == child.found
<1>7. /\ found \in Seq(E \cup {dot}) /\ Len(found) = size + 1 /\ found[1] = dot
      /\ \A i \in 2..(size + 1) : found[i] = order[i - 1]
  <2> HIDE DEF E, dot
  <2>1. <<dot>> \in Seq(E \cup {dot}) /\ order \in Seq(E \cup {dot}) /\ Len(<<dot>>) = 1 /\ <<dot>>[1] = dot
    BY <1>4
  <2>2. /\ <<dot>> \o order \in Seq(E \cup {dot}) /\ Len(<<dot>> \o order) = 1 + size
        /\ \A i \in 1..(1 + size) : (<<dot>> \o order)[i] = IF i <= 1 THEN <<dot>>[i] ELSE order[i - 1]
    <3> DEFINE one == <<dot>>
    <3>1. one \in Seq(E \cup {dot}) /\ order \in Seq(E \cup {dot}) /\ Len(one) = 1
      BY <2>1
    <3> HIDE DEF one
    <3>2. /\ one \o order \in Seq(E \cup {dot}) /\ Len(one \o order) = Len(one) + Len(order)
          /\ \A i \in 1..(Len(one) + Len(order)) :
               (one \o order)[i] = IF i <= Len(one) THEN one[i] ELSE order[i - Len(one)]
      BY <3>1, ConcatProperties
    <3>3. /\ one \o order \in Seq(E \cup {dot}) /\ Len(one \o order) = 1 + size
          /\ \A i \in 1..(1 + size) : (one \o order)[i] = IF i <= 1 THEN one[i] ELSE order[i - 1]
      BY <1>4, <3>1, <3>2, Zenon
    <3> QED BY <3>3 DEF one
  <2>3. 1 + size = size + 1 /\ 1 \in 1..(1 + size) /\ \A i \in 2..(size + 1) : i \in 1..(1 + size) /\ ~(i <= 1)
    BY <1>2
  <2> QED BY <1>1, <2>1, <2>2, <2>3
<1>8. \A i \in 1..(size + 1) : i = 1 \/ (i \in 2..(size + 1) /\ i - 1 \in 1..size)
  BY <1>2
<1>9. \A e \in E : e.name \in Nat /\ e.name # Dot
  BY EntriesAre
<1>10. \A e, f \in E : e.name = f.name /\ e.kind = f.kind => e = f
  BY EntriesAre
<1> HIDE DEF E, found
<1>11. \A i \in 1..(size + 1) : i # 1 => found[i] \in E /\ found[i] = order[i - 1] /\ i - 1 \in 1..size
  BY <1>3, <1>7, <1>8
<1>12. \A i \in 1..(size + 1) : found[i].name \in Nat
  BY <1>7, <1>9, <1>11 DEF Dot
<1>13. \A i, j \in 1..(size + 1) :
         found[i].kind = kind /\ found[j].kind = kind /\ found[i].name = found[j].name => i = j
  <2> SUFFICES ASSUME NEW i \in 1..(size + 1), NEW j \in 1..(size + 1),
                      found[i].kind = kind, found[j].kind = kind, found[i].name = found[j].name
               PROVE  i = j
    OBVIOUS
  <2>1. i = 1 => j = 1
    BY <1>7, <1>9, <1>11
  <2>2. j = 1 => i = 1
    BY <1>7, <1>9, <1>11
  <2>3. CASE i # 1 /\ j # 1
    <3>1. order[i - 1] = order[j - 1] /\ i - 1 \in 1..size /\ j - 1 \in 1..size
      BY <1>10, <1>11, <2>3
    <3>2. i - 1 = j - 1
      BY <1>3, <3>1
    <3> QED BY <1>2, <3>2
  <2> QED BY <2>1, <2>2, <2>3
<1>14. Tail(child.path) = d
  BY AbsIs
<1>15. /\ Found(kind) \in Seq(Seq(Nat)) /\ Once(Found(kind))
       /\ \A p : p \in Range(Found(kind)) <=>
            \E i \in 1..(size + 1) : found[i].kind = kind /\ found[i].name # Dot /\ p = Append(d, found[i].name)
  <2> DEFINE V == E \cup {dot}
  <2>1. child.found \in Seq(V) /\ Len(child.found) = size + 1 /\ Tail(child.path) \in Seq(Nat)
    BY <1>7, <1>14 DEF found
  <2>2. \A i \in 1..Len(child.found) : child.found[i].name \in Nat
    BY <1>12, <2>1 DEF found
  <2>3. \A i, j \in 1..Len(child.found) :
          child.found[i].kind = kind /\ child.found[j].kind = kind /\ child.found[i].name = child.found[j].name => i = j
    BY <1>13, <2>1 DEF found
  <2> HIDE DEF V
  <2>4. /\ Found(kind) \in Seq(Seq(Nat)) /\ Once(Found(kind))
        /\ \A p : p \in Range(Found(kind)) <=>
             \E i \in 1..Len(child.found) :
               child.found[i].kind = kind /\ child.found[i].name # Dot /\ p = Append(Tail(child.path), child.found[i].name)
    BY <2>1, <2>2, <2>3, FoundIs
  <2> QED BY <1>14, <2>1, <2>4 DEF found
<1>16. ASSUME NEW q
       PROVE  (\E i \in 1..(size + 1) : found[i].kind = kind /\ found[i].name # Dot /\ q = Append(d, found[i].name))
                <=> \E e \in E : e.kind = kind /\ q = Append(d, e.name)
  <2>1. \A i \in 1..(size + 1) : found[i].name # Dot => found[i] \in E
    BY <1>7, <1>11
  <2>2. \A e \in E : \E i \in 1..(size + 1) : found[i] = e
    <3> TAKE e \in E
    <3>1. PICK i \in 1..size : e = order[i]
      BY <1>6
    <3>2. i + 1 \in 2..(size + 1) /\ i + 1 \in 1..(size + 1) /\ (i + 1) - 1 = i
      BY <1>2
    <3> QED BY <1>7, <3>1, <3>2
  <2> QED BY <1>9, <2>1, <2>2
<1>17. \A q : q \in In(d) /\ tree[q] = kind <=> \E e \in E : e.kind = kind /\ q = Append(d, e.name)
  BY EntriesAre DEF E
<1> QED BY <1>15, <1>16, <1>17, Zenon

-----------------------------------------------------------------------------
(* Backups of trees are exact *)

\* Directories or files of the tree, each once; the n-th that is listed, after the
\* root, and the first n of these; and what is known when they have been listed.
OfTree(s, kind) ==
  s \in Seq(DOMAIN tree) /\ Once(s) /\ \A i \in 1..Len(s) : tree[s[i]] = kind
IsRest(q, s, n) == Len(q) = Len(s) - n /\ \A i \in 1..Len(q) : q[i] = s[n + i]
ParentsFirst(s) == \A i, j \in 1..Len(s) : i < j => Len(s[i]) <= Len(s[j])
Nth(s, n) == IF n = 0 THEN <<>> ELSE s[n]
FirstListed(s, n) == {Nth(s, i) : i \in 0..(n - 1)}
Known(s, kind, listed) ==
  \A p \in DOMAIN tree : tree[p] = kind => (p \in Range(s) <=> Front(p) \in listed)

\* Two sequences one after the other.
LEMMA ConcatIs ==
  ASSUME NEW S, NEW s \in Seq(S), NEW t \in Seq(S)
  PROVE  /\ s \o t \in Seq(S) /\ Len(s \o t) = Len(s) + Len(t) /\ Len(s) \in Nat /\ Len(t) \in Nat
         /\ \A i \in 1..Len(s) : (s \o t)[i] = s[i]
         /\ \A i \in 1..Len(t) : (s \o t)[Len(s) + i] = t[i]
         /\ \A i \in 1..(Len(s) + Len(t)) : i \in 1..Len(s) \/ (i - Len(s) \in 1..Len(t) /\ (s \o t)[i] = t[i - Len(s)])
         /\ \A x : x \in Range(s \o t) <=> x \in Range(s) \/ x \in Range(t)
<1>1. /\ s \o t \in Seq(S) /\ Len(s \o t) = Len(s) + Len(t)
      /\ \A i \in 1..(Len(s) + Len(t)) : (s \o t)[i] = IF i <= Len(s) THEN s[i] ELSE t[i - Len(s)]
  BY ConcatProperties
<1>2. Len(s) \in Nat /\ Len(t) \in Nat
  OBVIOUS
<1> DEFINE a == Len(s)
           b == Len(t)
           u == s \o t
<1> HIDE DEF a, b, u
<1>3. /\ \A i \in 1..a : i \in 1..(a + b) /\ i <= a
      /\ \A i \in 1..b : a + i \in 1..(a + b) /\ ~(a + i <= a) /\ (a + i) - a = i
      /\ \A i \in 1..(a + b) : i \in 1..a \/ (i - a \in 1..b /\ ~(i <= a))
  BY <1>2 DEF a, b
<1>4. \A i \in 1..(a + b) : u[i] = IF i <= a THEN s[i] ELSE t[i - a]
  BY <1>1 DEF a, b, u
<1>5. /\ \A i \in 1..a : u[i] = s[i]
      /\ \A i \in 1..b : u[a + i] = t[i]
      /\ \A i \in 1..(a + b) : i \in 1..a \/ (i - a \in 1..b /\ u[i] = t[i - a])
  BY <1>3, <1>4
<1>6. Range(s \o t) = Range(s) \cup Range(t)
  BY RangeConcatenation
<1> QED BY <1>1, <1>2, <1>5, <1>6 DEF a, b, u

\* Sequences that have nothing in common are once what each is once.
LEMMA ConcatOnce ==
  ASSUME NEW S, NEW s \in Seq(S), NEW t \in Seq(S), Once(s), Once(t), \A x : ~(x \in Range(s) /\ x \in Range(t))
  PROVE  Once(s \o t)
<1>1. DOMAIN (s \o t) = 1..(Len(s) + Len(t)) /\ DOMAIN s = 1..Len(s) /\ DOMAIN t = 1..Len(t)
  BY ConcatIs
<1> SUFFICES ASSUME NEW i \in 1..(Len(s) + Len(t)), NEW j \in 1..(Len(s) + Len(t)), (s \o t)[i] = (s \o t)[j]
             PROVE  i = j
  BY <1>1 DEF Once
<1>2. CASE i \in 1..Len(s) /\ j \in 1..Len(s)
  <2>1. s[i] = s[j]
    BY <1>2, ConcatIs
  <2> QED BY <1>1, <1>2, <2>1 DEF Once
<1>3. CASE i \in 1..Len(s) /\ ~(j \in 1..Len(s))
  <2>1. s[i] = t[j - Len(s)] /\ j - Len(s) \in 1..Len(t)
    BY <1>3, ConcatIs
  <2>2. s[i] \in Range(s) /\ s[i] \in Range(t)
    BY <1>1, <1>3, <2>1 DEF Range
  <2> QED BY <2>2
<1>4. CASE ~(i \in 1..Len(s)) /\ j \in 1..Len(s)
  <2>1. s[j] = t[i - Len(s)] /\ i - Len(s) \in 1..Len(t)
    BY <1>4, ConcatIs
  <2>2. s[j] \in Range(s) /\ s[j] \in Range(t)
    BY <1>1, <1>4, <2>1 DEF Range
  <2> QED BY <2>2
<1>5. CASE ~(i \in 1..Len(s)) /\ ~(j \in 1..Len(s))
  <2>1. t[i - Len(s)] = t[j - Len(s)] /\ i - Len(s) \in 1..Len(t) /\ j - Len(s) \in 1..Len(t)
    BY <1>5, ConcatIs
  <2>2. i - Len(s) = j - Len(s)
    BY <1>1, <2>1 DEF Once
  <2>3. Len(s) \in Nat
    OBVIOUS
  <2> QED BY <2>2, <2>3
<1> QED BY <1>2, <1>3, <1>4, <1>5

\* What a directory adds to what is known.
LEMMA ListingAdds ==
  ASSUME tree \in Trees, NEW s, NEW kind, OfTree(s, kind), NEW listed, Known(s, kind, listed),
         NEW d, d \notin listed, NEW more \in Seq(Seq(Nat)), Once(more),
         \A q : q \in Range(more) <=> q \in In(d) /\ tree[q] = kind
  PROVE  OfTree(s \o more, kind) /\ Known(s \o more, kind, listed \cup {d})
<1>1. \A x : x \in Range(more) => x \in DOMAIN tree /\ Front(x) = d /\ tree[x] = kind
  BY DEF In
<1>2. more \in Seq(DOMAIN tree) /\ \A i \in 1..Len(more) : tree[more[i]] = kind
  <2>1. \A i \in 1..Len(more) : more[i] \in Range(more)
    BY DEF Range
  <2>2. more \in Seq(Range(more)) /\ Range(more) \subseteq DOMAIN tree
    BY <1>1, SeqOfRange
  <2>3. more \in Seq(DOMAIN tree)
    BY <2>2
  <2> QED BY <1>1, <2>1, <2>3
<1>3. s \in Seq(DOMAIN tree) /\ Once(s) /\ \A i \in 1..Len(s) : tree[s[i]] = kind
  BY DEF OfTree
<1>4. \A x : x \in Range(s) => x \in DOMAIN tree /\ tree[x] = kind
  <2>1. \A x : x \in Range(s) => \E i \in 1..Len(s) : x = s[i]
    BY <1>3 DEF Range
  <2> QED BY <1>3, <2>1
<1>5. \A x : ~(x \in Range(s) /\ x \in Range(more))
  BY <1>1, <1>4 DEF Known
<1>6. Once(s \o more)
  BY <1>2, <1>3, <1>5, ConcatOnce
<1>7. s \o more \in Seq(DOMAIN tree)
  BY <1>2, <1>3, ConcatIs
<1>8. \A i \in 1..Len(s \o more) : tree[(s \o more)[i]] = kind
  <2> TAKE i \in 1..Len(s \o more)
  <2>1. i \in 1..(Len(s) + Len(more))
    BY <1>2, <1>3, ConcatIs
  <2>2. i \in 1..Len(s) => (s \o more)[i] = s[i]
    BY <1>2, <1>3, ConcatIs
  <2>3. i \in 1..Len(s) \/ (i - Len(s) \in 1..Len(more) /\ (s \o more)[i] = more[i - Len(s)])
    BY <1>2, <1>3, <2>1, ConcatIs
  <2> QED BY <1>2, <1>3, <2>2, <2>3
<1>9. Known(s \o more, kind, listed \cup {d})
  <2>1. \A x : x \in Range(s \o more) <=> x \in Range(s) \/ x \in Range(more)
    BY <1>2, <1>3, ConcatIs
  <2>2. \A p \in DOMAIN tree : tree[p] = kind => (p \in Range(more) <=> Front(p) = d)
    BY DEF In
  <2> QED BY <2>1, <2>2 DEF Known
<1> QED BY <1>6, <1>7, <1>8, <1>9 DEF OfTree

\* Children come after their parents where they are added last.
LEMMA ChildrenComeLast ==
  ASSUME NEW S, S \subseteq Seq(Nat), NEW s \in Seq(S), NEW more \in Seq(S), NEW n \in Nat, ParentsFirst(s),
         \A i \in 1..Len(s) : Len(s[i]) <= n, \A i \in 1..Len(more) : Len(more[i]) = n
  PROVE  ParentsFirst(s \o more) /\ \A i \in 1..Len(s \o more) : Len((s \o more)[i]) <= n
<1> DEFINE u == s \o more
           a == Len(s)
           b == Len(more)
<1>1. /\ Len(u) = a + b /\ a \in Nat /\ b \in Nat
      /\ \A i \in 1..a : u[i] = s[i]
      /\ \A i \in 1..(a + b) : i \in 1..a \/ (i - a \in 1..b /\ u[i] = more[i - a])
  BY ConcatIs
<1>2. \A i \in 1..a : Len(s[i]) \in Nat
  <2>1. \A i \in 1..a : s[i] \in Seq(Nat)
    OBVIOUS
  <2> QED BY <2>1
<1> HIDE DEF u, a, b
<1>3. /\ \A i \in 1..a : Len(u[i]) <= n /\ Len(u[i]) \in Nat
      /\ \A i \in 1..(a + b) : i \in 1..a \/ Len(u[i]) = n
      /\ \A i, j \in 1..a : i < j => Len(u[i]) <= Len(u[j])
  BY <1>1, <1>2 DEF a, b, ParentsFirst
<1>4. \A i \in 1..(a + b) : Len(u[i]) <= n
  BY <1>3
<1>5. \A i, j \in 1..(a + b) : i < j => Len(u[i]) <= Len(u[j])
  <2> SUFFICES ASSUME NEW i \in 1..(a + b), NEW j \in 1..(a + b), i < j
               PROVE  Len(u[i]) <= Len(u[j])
    OBVIOUS
  <2>1. CASE j \in 1..a
    <3>1. i \in 1..a
      BY <1>1, <2>1
    <3> QED BY <1>3, <2>1, <3>1
  <2>2. CASE ~(j \in 1..a)
    BY <1>3, <1>4, <2>2
  <2> QED BY <2>1, <2>2
<1> QED BY <1>1, <1>4, <1>5 DEF ParentsFirst, u

\* What a backup has gathered is of the tree, and what it fetched is the data of
\* the first files.
Gathered ==
  /\ recorded = [directories |-> recorded.directories, files |-> recorded.files]
  /\ OfTree(recorded.directories, "directory") /\ OfTree(recorded.files, "file")
  /\ ParentsFirst(recorded.directories)
  /\ fetched \in Seq(DOMAIN tree) /\ Len(fetched) <= Len(recorded.files)
  /\ \A i \in 1..Len(fetched) : fetched[i] = recorded.files[i]
  /\ queue \in Seq(DOMAIN tree) /\ Len(queue) <= Len(recorded.directories)

\* The first n directories have been listed, and what is in them is known.
AllOf(n) ==
  /\ Known(recorded.directories, "directory", FirstListed(recorded.directories, n))
  /\ Known(recorded.files, "file", FirstListed(recorded.directories, n))

\* A listing of the directory after these n is awaited: the rest is queued, and
\* nothing is deeper than what may be found.
ListsAfter(n) ==
  /\ AllOf(n)
  /\ IsRest(queue, recorded.directories, n)
  /\ \A i \in 1..Len(recorded.directories) :
       Len(recorded.directories[i]) <= Len(Nth(recorded.directories, n)) + 1
  /\ fetched = <<>>
  /\ child.work = "list" /\ child.path = Abs(Nth(recorded.directories, n))
  /\ child.ends = "succeeded" => Listing(child.path, child.found)

\* Everything is known, and a file is awaited.
Downloads ==
  /\ AllOf(Len(recorded.directories) + 1) /\ queue = <<>>
  /\ Len(fetched) < Len(recorded.files)
  /\ child.work = "download" /\ child.path = Abs(recorded.files[Len(fetched) + 1])
  /\ child.ends = "succeeded" => child.data = recorded.files[Len(fetched) + 1]

TreeBackupInv ==
  /\ tree \in Trees /\ fileSystem = Absolute(tree) /\ restored = 0
  /\ Gathered /\ AsksAreMet
  /\ phase = "idle" => /\ recorded = [directories |-> <<>>, files |-> <<>>] /\ queue = <<>> /\ fetched = <<>>
                       /\ child = NoChild
  /\ Running => (\E n \in 0..Len(recorded.directories) : ListsAfter(n)) \/ Downloads
  /\ outcome = "succeeded" => AllOf(Len(recorded.directories) + 1) /\ fetched = recorded.files

\* The n-th directory is of the tree, or the root, and not among the first n.
LEMMA NthIs ==
  ASSUME tree \in Trees, NEW s, OfTree(s, "directory"), NEW n \in 0..Len(s)
  PROVE  /\ s \in Seq(DOMAIN tree) /\ Len(s) \in Nat /\ n \in Nat
         /\ Nth(s, n) \in Seq(Nat) /\ Len(Nth(s, n)) \in Nat
         /\ Nth(s, n) = <<>> \/ (Nth(s, n) \in DOMAIN tree /\ tree[Nth(s, n)] = "directory")
         /\ Nth(s, n) \notin FirstListed(s, n)
         /\ FirstListed(s, n + 1) = FirstListed(s, n) \cup {Nth(s, n)}
<1>1. /\ s \in Seq(DOMAIN tree) /\ Len(s) \in Nat /\ n \in Nat /\ DOMAIN s = 1..Len(s)
      /\ \A i \in 1..Len(s) : s[i] \in DOMAIN tree /\ tree[s[i]] = "directory"
      /\ \A i, j \in 1..Len(s) : s[i] = s[j] => i = j
  BY DEF OfTree, Once
<1>2. \A p \in DOMAIN tree : p \in Seq(Nat) /\ p # <<>>
  <2> TAKE p \in DOMAIN tree
  <2>1. p \in Seq(Nat) /\ Len(p) > 0
    BY DepthIs
  <2> QED BY <2>1
<1>3. Nth(s, n) \in Seq(Nat) /\ (Nth(s, n) = <<>> \/ (Nth(s, n) \in DOMAIN tree /\ tree[Nth(s, n)] = "directory"))
  <2>1. CASE n = 0
    BY <2>1 DEF Nth
  <2>2. CASE n # 0
    <3>1. n \in 1..Len(s) /\ Nth(s, n) = s[n]
      BY <2>2 DEF Nth
    <3> QED BY <1>1, <1>2, <3>1
  <2> QED BY <2>1, <2>2
<1>4. \A i \in 0..(n - 1) : Nth(s, i) # Nth(s, n)
  <2> TAKE i \in 0..(n - 1)
  <2>1. n \in 1..Len(s) /\ Nth(s, n) = s[n] /\ i # n
    BY DEF Nth
  <2>2. CASE i = 0
    BY <1>1, <1>2, <2>1, <2>2 DEF Nth
  <2>3. CASE i # 0
    <3>1. i \in 1..Len(s) /\ Nth(s, i) = s[i]
      BY <2>1, <2>3 DEF Nth
    <3> QED BY <1>1, <2>1, <3>1
  <2> QED BY <2>2, <2>3
<1>5. FirstListed(s, n + 1) = FirstListed(s, n) \cup {Nth(s, n)}
  <2>1. \A i : i \in 0..((n + 1) - 1) <=> i \in 0..(n - 1) \/ i = n
    BY <1>1
  <2> QED BY <2>1 DEF FirstListed
<1>6. Len(Nth(s, n)) \in Nat
  BY <1>3
<1> QED BY <1>1, <1>3, <1>4, <1>5, <1>6 DEF FirstListed

\* Directories that are found later change nothing of the first.
LEMMA NthStays ==
  ASSUME NEW S, NEW s \in Seq(S), NEW t \in Seq(S)
  PROVE  /\ \A n \in 0..Len(s) : Nth(s \o t, n) = Nth(s, n)
         /\ \A n \in 0..(Len(s) + 1) : FirstListed(s \o t, n) = FirstListed(s, n)
<1>1. \A n \in 0..Len(s) : Nth(s \o t, n) = Nth(s, n)
  <2> TAKE n \in 0..Len(s)
  <2>1. n # 0 => n \in 1..Len(s)
    OBVIOUS
  <2> QED BY <2>1, ConcatIs DEF Nth
<1>2. \A n \in 0..(Len(s) + 1) : \A i \in 0..(n - 1) : i \in 0..Len(s)
  OBVIOUS
<1> QED BY <1>1, <1>2 DEF FirstListed

\* The vehicle that has the tree has each of its paths as what it is.
LEMMA HasTheTree ==
  ASSUME tree \in Trees, fileSystem = Absolute(tree)
  PROVE  /\ HasAt(Root) = "directory"
         /\ \A p \in DOMAIN tree : HasAt(Abs(p)) = tree[p]
         /\ \A p \in DOMAIN tree : tree[p] = "file" => fileSystem[Abs(p)].data = p
<1>1. HasAt(Root) = "directory"
  BY AbsoluteIs DEF HasAt, Directory
<1>2. ASSUME NEW p \in DOMAIN tree
      PROVE  HasAt(Abs(p)) = tree[p] /\ (tree[p] = "file" => fileSystem[Abs(p)].data = p)
  <2>1. Abs(p) \in DOMAIN fileSystem /\ fileSystem[Abs(p)] = IF tree[p] = "directory" THEN Directory ELSE FileOf(p)
    BY AbsoluteIs
  <2>2. tree[p] \in {"directory", "file"}
    BY TreesAre
  <2> QED BY <2>1, <2>2 DEF HasAt, Directory, FileOf
<1> QED BY <1>1, <1>2

\* What is queued and what is found there is what comes after the directory that was listed.
LEMMA QueueGrows ==
  ASSUME NEW S, NEW s \in Seq(S), NEW q \in Seq(S), NEW more \in Seq(S), NEW n \in 0..Len(s), IsRest(q, s, n)
  PROVE  q \o more \in Seq(S) /\ IsRest(q \o more, s \o more, n)
<1> DEFINE a == Len(s)
           b == Len(more)
           c == Len(q)
           left == q \o more
           all == s \o more
<1>1. a \in Nat /\ b \in Nat /\ c \in Nat /\ n \in 0..a /\ c = a - n
  BY DEF IsRest
<1>2. /\ left \in Seq(S) /\ Len(left) = c + b /\ \A i \in 1..c : left[i] = q[i]
      /\ \A i \in 1..(c + b) : i \in 1..c \/ (i - c \in 1..b /\ left[i] = more[i - c])
  BY ConcatIs
<1>3. /\ Len(all) = a + b /\ \A i \in 1..a : all[i] = s[i]
      /\ \A i \in 1..b : all[a + i] = more[i]
  BY ConcatIs
<1>4. \A i \in 1..c : q[i] = s[n + i]
  BY DEF IsRest
<1> HIDE DEF a, b, c, left, all
<1>5. c + b = (a + b) - n
  BY <1>1
<1>6. \A i \in 1..(c + b) : left[i] = all[n + i]
  <2> TAKE i \in 1..(c + b)
  <2>1. CASE i \in 1..c
    <3>1. n + i \in 1..a
      BY <1>1, <2>1
    <3> QED BY <1>2, <1>3, <1>4, <2>1, <3>1
  <2>2. CASE ~(i \in 1..c)
    <3>1. i - c \in 1..b /\ left[i] = more[i - c]
      BY <1>2, <2>2
    <3>2. a + (i - c) = n + i
      BY <1>1
    <3>3. all[a + (i - c)] = more[i - c]
      BY <1>3, <3>1
    <3> QED BY <3>1, <3>2, <3>3
  <2> QED BY <2>1, <2>2
<1> QED BY <1>2, <1>3, <1>5, <1>6 DEF left, all, IsRest

\* A listing that succeeded is followed by the next one, the first download or the end.
LEMMA ListGoesOn ==
  ASSUME TreeBackupInv, outcome = "none", composite = "backup",
         NEW n \in 0..Len(recorded.directories), ListsAfter(n), child.ends = "succeeded",
         BackupGoesOn(recorded.directories \o Found("directory"), recorded.files \o Found("file"),
                      queue \o Found("directory"), fetched),
         UNCHANGED <<treeChoices, fileSystem>>
  PROVE  TreeBackupInv'
<1> DEFINE s == recorded.directories
           f == recorded.files
           d == Nth(s, n)
           more == Found("directory")
           mores == Found("file")
           dirs == s \o more
           files == f \o mores
           left == queue \o more
<1>1. /\ tree \in Trees /\ fileSystem = Absolute(tree) /\ restored = 0
      /\ OfTree(s, "directory") /\ OfTree(f, "file") /\ ParentsFirst(s)
      /\ queue \in Seq(DOMAIN tree)
  BY DEF TreeBackupInv, Gathered
<1>2. /\ Known(s, "directory", FirstListed(s, n)) /\ Known(f, "file", FirstListed(s, n))
      /\ IsRest(queue, s, n)
      /\ \A i \in 1..Len(s) : Len(s[i]) <= Len(d) + 1
      /\ fetched = <<>> /\ child.path = Abs(d) /\ Listing(child.path, child.found)
  BY DEF ListsAfter, AllOf
<1>3. /\ recorded' = [directories |-> dirs, files |-> files] /\ fetched' = <<>> /\ restored' = 0
      /\ tree' = tree /\ fileSystem' = fileSystem
  BY <1>1, <1>2 DEF BackupGoesOn, treeChoices
<1>4. \/ left # <<>> /\ StartChild("list", Root \o Head(left)) /\ queue' = Tail(left) /\ Goes
      \/ left = <<>> /\ queue' = <<>> /\ StartChild("download", Root \o files[1]) /\ Goes /\ Len(files) > 0
      \/ left = <<>> /\ queue' = <<>> /\ ~(0 < Len(files)) /\ TreeSettles("succeeded")
  <2>1. Len(fetched) = 0
    BY <1>2
  <2> QED BY <2>1 DEF BackupGoesOn
<1>5. /\ d \in Seq(Nat) /\ d \notin FirstListed(s, n) /\ FirstListed(s, n + 1) = FirstListed(s, n) \cup {d}
      /\ Len(d) \in Nat /\ s \in Seq(DOMAIN tree) /\ Len(s) \in Nat /\ n \in Nat
  BY <1>1, NthIs
<1>6. \A kind : /\ Found(kind) \in Seq(Seq(Nat)) /\ Once(Found(kind))
                /\ \A q : q \in Range(Found(kind)) <=> q \in In(d) /\ tree[q] = kind
  BY <1>1, <1>2, <1>5, ListedIs
<1> HIDE DEF s, f, d, more, mores
<1>7. OfTree(dirs, "directory") /\ Known(dirs, "directory", FirstListed(s, n) \cup {d})
  BY <1>1, <1>2, <1>5, <1>6, ListingAdds DEF more
<1>8. OfTree(files, "file") /\ Known(files, "file", FirstListed(s, n) \cup {d})
  BY <1>1, <1>2, <1>5, <1>6, ListingAdds DEF mores
<1>9. /\ more \in Seq(DOMAIN tree)
      /\ \A i \in 1..Len(more) : Len(more[i]) = Len(d) + 1
  <2>1. \A x : x \in Range(more) => x \in DOMAIN tree /\ Front(x) = d
    BY <1>6 DEF more, In
  <2>2. \A x : x \in Range(more) => Len(x) = Len(d) + 1
    <3> SUFFICES ASSUME NEW x, x \in Range(more)
                 PROVE  Len(x) = Len(d) + 1
      OBVIOUS
    <3>1. x \in Seq(Nat) /\ Len(Front(x)) = Len(x) - 1 /\ Front(x) = d
      BY <1>1, <2>1, DepthIs
    <3>2. Len(x) \in Nat
      BY <3>1
    <3> QED BY <1>5, <3>1, <3>2
  <2>3. more \in Seq(Range(more)) /\ Range(more) \subseteq DOMAIN tree
    BY <1>6, <2>1, SeqOfRange DEF more
  <2>4. \A i \in 1..Len(more) : more[i] \in Range(more)
    BY <2>3 DEF Range
  <2> QED BY <2>2, <2>3, <2>4
<1>10. dirs \in Seq(DOMAIN tree) /\ Len(dirs) = Len(s) + Len(more) /\ Len(more) \in Nat /\ Len(dirs) \in Nat
  BY <1>5, <1>9, ConcatIs
<1>11. DOMAIN tree \subseteq Seq(Nat)
  BY <1>1, DepthIs
<1>12. ParentsFirst(dirs) /\ \A i \in 1..Len(dirs) : Len(dirs[i]) <= Len(d) + 1
  <2>1. Len(d) + 1 \in Nat
    BY <1>5
  <2> QED BY <1>1, <1>2, <1>5, <1>9, <1>11, <2>1, ChildrenComeLast
<1>13. /\ left \in Seq(DOMAIN tree) /\ Len(left) = Len(dirs) - n
       /\ \A i \in 1..Len(left) : left[i] = dirs[n + i]
  <2> DEFINE S == DOMAIN tree
             q == queue
  <2>1. /\ s \in Seq(S) /\ q \in Seq(S) /\ more \in Seq(S) /\ n \in 0..Len(s)
        /\ IsRest(q, s, n)
    BY <1>1, <1>2, <1>5, <1>9 DEF s
  <2> HIDE DEF S, q
  <2>2. q \o more \in Seq(S) /\ IsRest(q \o more, s \o more, n)
    BY <2>1, QueueGrows, Zenon
  <2> QED BY <2>2 DEF S, q, IsRest
<1>14. FirstListed(dirs, n + 1) = FirstListed(s, n) \cup {d} /\ Nth(dirs, n) = d
  <2>1. n \in 0..Len(s) /\ n + 1 \in 0..(Len(s) + 1)
    BY <1>5 DEF s
  <2> QED BY <1>5, <1>9, <2>1, NthStays DEF d
<1>15. /\ recorded'.directories = dirs /\ recorded'.files = files
       /\ recorded' = [directories |-> recorded'.directories, files |-> recorded'.files]
  BY <1>3
<1> HIDE DEF dirs, files, left
<1>16. AllOf(n + 1)'
  BY <1>3, <1>7, <1>8, <1>14, <1>15 DEF AllOf, Known, FirstListed, Nth
<1>17. ASSUME queue' \in Seq(DOMAIN tree), Len(queue') <= Len(dirs)
       PROVE  Gathered'
  <2>1. Len(files) \in Nat /\ <<>> \in Seq(DOMAIN tree) /\ Len(<<>>) = 0 /\ \A i \in 1..0 : FALSE
    BY <1>8 DEF OfTree
  <2> QED BY <1>3, <1>7, <1>8, <1>12, <1>15, <1>17, <2>1 DEF Gathered, OfTree, ParentsFirst
<1>18. CASE left # <<>> /\ StartChild("list", Root \o Head(left)) /\ queue' = Tail(left) /\ Goes
  <2> DEFINE m == n + 1
             next == dirs[m]
  <2>1. m \in 1..Len(dirs) /\ m \in 0..Len(dirs) /\ m # 0 /\ Len(left) > 0
    BY <1>5, <1>10, <1>13, <1>18
  <2>2. Head(left) = next
    <3>1. Head(left) = left[1] /\ 1 \in 1..Len(left)
      BY <1>13, <1>18
    <3> QED BY <1>13, <3>1
  <2>3. Nth(dirs, m) = next /\ next \in DOMAIN tree /\ tree[next] = "directory" /\ next \in Seq(Nat) /\ Len(next) \in Nat
    <3>1. Nth(dirs, m) = next
      BY <2>1 DEF Nth
    <3>2. next \in DOMAIN tree /\ tree[next] = "directory"
      BY <1>7, <1>10, <2>1 DEF OfTree
    <3>3. next \in Seq(Nat)
      BY <1>11, <3>2
    <3> QED BY <3>1, <3>2, <3>3
  <2>4. /\ queue' \in Seq(DOMAIN tree) /\ Len(queue') = Len(dirs) - m
        /\ \A i \in 1..Len(queue') : queue'[i] = dirs[m + i]
    <3>1. Tail(left) \in Seq(DOMAIN tree) /\ Len(Tail(left)) = Len(left) - 1 /\ \A i \in 1..Len(Tail(left)) : Tail(left)[i] = left[i + 1]
      BY <1>13, <1>18, HeadTailProperties
    <3>2. Len(left) - 1 = Len(dirs) - m
      BY <1>5, <1>10, <1>13
    <3>3. \A i \in 1..(Len(left) - 1) : i + 1 \in 1..Len(left) /\ n + (i + 1) = m + i
      BY <1>5, <1>13
    <3>4. \A i \in 1..(Len(left) - 1) : Tail(left)[i] = dirs[m + i]
      BY <1>13, <3>1, <3>3
    <3> QED BY <1>18, <3>1, <3>2, <3>4
  <2>5. \A i \in 1..Len(dirs) : Len(dirs[i]) <= Len(next) + 1
    <3>1. Len(d) <= Len(next)
      <4>1. CASE n = 0
        <5>1. Len(d) = 0
          BY <4>1 DEF d, Nth
        <5> QED BY <2>3, <5>1
      <4>2. CASE n # 0
        <5>1. n \in 1..Len(dirs) /\ n < m /\ d = dirs[n]
          BY <1>5, <1>14, <2>1, <4>2 DEF Nth
        <5> QED BY <1>12, <2>1, <5>1 DEF ParentsFirst
      <4> QED BY <4>1, <4>2
    <3>2. \A i \in 1..Len(dirs) : Len(dirs[i]) \in Nat
      BY <1>10, <1>11
    <3> HIDE DEF next
    <3> QED BY <1>5, <1>12, <2>3, <3>1, <3>2
  <2>6. child'.work = "list" /\ child'.path = Abs(next) /\ child'.ends = "running"
    BY <1>18, <2>2 DEF StartChild, Abs
  <2>7. HasAt(child'.path) = "directory"
    BY <1>1, <2>3, <2>6, HasTheTree
  <2> HIDE DEF m, next
  <2>8. AllOf(m)'
    BY <1>16 DEF m
  <2>9. ListsAfter(m)'
    BY <1>3, <1>15, <2>3, <2>4, <2>5, <2>6, <2>8 DEF ListsAfter, Nth, IsRest
  <2>10. AsksAreMet'
    BY <1>3, <2>6, <2>7 DEF AsksAreMet, HasAt, treeChoices
  <2>11. Len(queue') <= Len(dirs)
    BY <1>10, <2>1, <2>4
  <2>12. phase' = "running" /\ outcome' = outcome
    BY <1>18 DEF Goes
  <2> QED BY <1>1, <1>3, <1>15, <1>17, <2>1, <2>4, <2>9, <2>10, <2>11, <2>12 DEF TreeBackupInv, Running
<1>19. CASE left = <<>> /\ queue' = <<>> /\ StartChild("download", Root \o files[1]) /\ Goes /\ Len(files) > 0
  <2> DEFINE next == files[1]
  <2>1. n = Len(dirs) /\ 0 <= Len(dirs)
    <3>1. Len(left) = 0
      BY <1>19
    <3>2. Len(left) = Len(dirs) - n
      BY <1>13
    <3>3. Len(dirs) \in Nat /\ n \in Nat
      BY <1>5, <1>10
    <3> QED BY <3>1, <3>2, <3>3
  <2>2. next \in DOMAIN tree /\ tree[next] = "file"
    <3>1. files \in Seq(DOMAIN tree) /\ 1 \in 1..Len(files)
      BY <1>8, <1>19 DEF OfTree
    <3>2. \A i \in 1..Len(files) : tree[files[i]] = "file"
      BY <1>8 DEF OfTree
    <3> QED BY <3>1, <3>2
  <2>3. child'.work = "download" /\ child'.path = Abs(next) /\ child'.ends = "running"
    BY <1>19 DEF StartChild, Abs
  <2>4. HasAt(child'.path) = "file"
    BY <1>1, <2>2, <2>3, HasTheTree
  <2> HIDE DEF next
  <2>5. Len(fetched') = 0 /\ 0 + 1 = 1
    BY <1>3
  <2>6. files[Len(fetched') + 1] = next
    BY <2>5 DEF next
  <2>7. Downloads'
    BY <1>3, <1>15, <1>16, <1>19, <2>1, <2>3, <2>5, <2>6 DEF Downloads, AllOf
  <2>8. AsksAreMet'
    BY <1>3, <2>3, <2>4 DEF AsksAreMet, HasAt, treeChoices
  <2>9. queue' \in Seq(DOMAIN tree) /\ Len(queue') <= Len(dirs)
    BY <1>19, <2>1
  <2>10. phase' = "running" /\ outcome' = outcome
    BY <1>19 DEF Goes
  <2> QED BY <1>1, <1>3, <1>17, <2>7, <2>8, <2>9, <2>10 DEF TreeBackupInv, Running
<1>20. CASE left = <<>> /\ queue' = <<>> /\ ~(0 < Len(files)) /\ TreeSettles("succeeded")
  <2>1. n = Len(dirs) /\ 0 <= Len(dirs)
    <3>1. Len(left) = 0
      BY <1>20
    <3>2. Len(left) = Len(dirs) - n
      BY <1>13
    <3>3. Len(dirs) \in Nat /\ n \in Nat
      BY <1>5, <1>10
    <3> QED BY <3>1, <3>2, <3>3
  <2>2. files = <<>>
    <3>1. files \in Seq(DOMAIN tree) /\ Len(files) \in Nat
      BY <1>8 DEF OfTree
    <3>2. Len(files) = 0
      BY <1>20, <3>1
    <3> QED BY <3>1, <3>2
  <2>3. child' = NoChild /\ phase' = "settled" /\ outcome' = "succeeded"
    BY <1>20 DEF TreeSettles, Settle
  <2>4. AsksAreMet'
    BY <2>3 DEF AsksAreMet
  <2>5. queue' \in Seq(DOMAIN tree) /\ Len(queue') <= Len(dirs)
    BY <1>20, <2>1
  <2>6. AllOf(Len(recorded.directories) + 1)' /\ (fetched = recorded.files)'
    BY <1>3, <1>15, <1>16, <2>1, <2>2 DEF AllOf
  <2> QED BY <1>1, <1>3, <1>17, <2>3, <2>4, <2>5, <2>6 DEF TreeBackupInv, Running
<1> QED BY <1>4, <1>18, <1>19, <1>20 DEF left, files

\* A download that succeeded is followed by the next one or the end.
LEMMA DownloadGoesOn ==
  ASSUME TreeBackupInv, outcome = "none", composite = "backup", Downloads, child.ends = "succeeded",
         BackupGoesOn(recorded.directories, recorded.files, queue, Append(fetched, child.data)),
         UNCHANGED <<treeChoices, fileSystem>>
  PROVE  TreeBackupInv'
<1> DEFINE files == recorded.files
           got == Append(fetched, child.data)
           k == Len(fetched)
<1>1. /\ tree \in Trees /\ fileSystem = Absolute(tree) /\ restored = 0 /\ queue = <<>>
      /\ OfTree(files, "file") /\ AllOf(Len(recorded.directories) + 1)
      /\ fetched \in Seq(DOMAIN tree) /\ k \in Nat /\ k < Len(files) /\ child.data = files[k + 1]
      /\ \A i \in 1..k : fetched[i] = files[i]
  BY DEF TreeBackupInv, Gathered, Downloads
<1>2. files \in Seq(DOMAIN tree) /\ Len(files) \in Nat /\ \A i \in 1..Len(files) : files[i] \in DOMAIN tree /\ tree[files[i]] = "file"
  BY <1>1 DEF OfTree
<1>3. /\ recorded' = recorded /\ fetched' = got /\ restored' = 0 /\ queue' = <<>>
      /\ tree' = tree /\ fileSystem' = fileSystem
      /\ IF Len(got) < Len(files) THEN StartChild("download", Root \o files[Len(got) + 1]) /\ Goes
                                  ELSE TreeSettles("succeeded")
  <2>1. recorded = [directories |-> recorded.directories, files |-> recorded.files]
    BY DEF TreeBackupInv, Gathered
  <2> QED BY <1>1, <2>1 DEF BackupGoesOn, treeChoices
<1>4. got \in Seq(DOMAIN tree) /\ Len(got) = k + 1 /\ Len(got) <= Len(files) /\ \A i \in 1..Len(got) : got[i] = files[i]
  <2>1. k + 1 \in 1..Len(files)
    BY <1>1, <1>2
  <2>2. child.data \in DOMAIN tree
    BY <1>1, <1>2, <2>1
  <2>3. /\ got \in Seq(DOMAIN tree) /\ Len(got) = k + 1
        /\ \A i \in 1..k : got[i] = fetched[i]
        /\ got[k + 1] = child.data
    BY <1>1, <2>2, AppendProperties
  <2> HIDE DEF got, k, files
  <2>4. \A i \in 1..(k + 1) : i \in 1..k \/ i = k + 1
    BY <1>1
  <2>5. k + 1 <= Len(files)
    BY <1>1, <1>2
  <2> QED BY <1>1, <2>3, <2>4, <2>5
<1> HIDE DEF got, k
<1>5. Gathered'
  <2>1. Len(queue') = 0 /\ queue' \in Seq(DOMAIN tree) /\ 0 <= Len(recorded.directories)
    <3>1. Len(recorded.directories) \in Nat
      BY DEF TreeBackupInv, Gathered, OfTree
    <3> QED BY <1>3, <3>1
  <2>2. /\ recorded = [directories |-> recorded.directories, files |-> recorded.files]
        /\ OfTree(recorded.directories, "directory") /\ OfTree(recorded.files, "file")
        /\ ParentsFirst(recorded.directories)
    BY DEF TreeBackupInv, Gathered
  <2> QED BY <1>3, <1>4, <2>1, <2>2 DEF Gathered, OfTree, ParentsFirst
<1>6. AllOf(Len(recorded.directories) + 1)'
  BY <1>1, <1>3 DEF AllOf, Known, FirstListed, Nth
<1>7. CASE Len(got) < Len(files)
  <2> DEFINE next == files[Len(got) + 1]
  <2>1. child'.work = "download" /\ child'.path = Abs(next) /\ child'.ends = "running"
    BY <1>3, <1>7 DEF StartChild, Abs
  <2>2. next \in DOMAIN tree /\ tree[next] = "file"
    <3>1. Len(got) + 1 \in 1..Len(files)
      BY <1>1, <1>2, <1>4, <1>7
    <3> QED BY <1>2, <3>1
  <2> HIDE DEF next
  <2>3. HasAt(child'.path) = "file"
    BY <1>1, <2>1, <2>2, HasTheTree
  <2>4. Downloads'
    BY <1>3, <1>6, <1>7, <2>1 DEF Downloads, next
  <2>5. AsksAreMet'
    BY <1>3, <2>1, <2>3 DEF AsksAreMet, HasAt, treeChoices
  <2>6. phase' = "running" /\ outcome' = outcome
    BY <1>3, <1>7 DEF Goes
  <2> QED BY <1>1, <1>3, <1>5, <2>4, <2>5, <2>6 DEF TreeBackupInv, Running
<1>8. CASE ~(Len(got) < Len(files))
  <2>1. child' = NoChild /\ phase' = "settled" /\ outcome' = "succeeded"
    BY <1>3, <1>8 DEF TreeSettles, Settle
  <2>2. got = files
    <3>1. Len(got) = Len(files)
      BY <1>1, <1>2, <1>4, <1>8
    <3>2. DOMAIN got = DOMAIN files /\ \A i \in DOMAIN got : got[i] = files[i]
      BY <1>2, <1>4, <3>1
    <3> QED BY <1>2, <1>4, <3>1, <3>2
  <2>3. AsksAreMet'
    BY <2>1 DEF AsksAreMet
  <2> QED BY <1>1, <1>3, <1>5, <1>6, <2>1, <2>2, <2>3 DEF TreeBackupInv, Running
<1> QED BY <1>7, <1>8

\* A conversation that ends is the one it was.
LEMMA EndsAlone ==
  ASSUME NEW c, IsChild(c), NEW how
  PROVE  LET d == [c EXCEPT !.ends = how]
         IN d.work = c.work /\ d.path = c.path /\ d.found = c.found /\ d.data = c.data /\ d.ends = how
<1>1. PICK does, at, old, names, content :
        c = [work |-> does, path |-> at, ends |-> old, found |-> names, data |-> content]
  BY DEF IsChild
<1>2. [c EXCEPT !.ends = how] = [work |-> does, path |-> at, ends |-> how, found |-> names, data |-> content]
  BY <1>1
<1> QED BY <1>1, <1>2

\* What a listing of a directory of the tree may answer.
LEMMA ListsAre ==
  ASSUME ChildLists, IsChild(child)
  PROVE  /\ child'.work = child.work /\ child'.path = child.path /\ child'.ends = "succeeded"
         /\ Listing(child.path, child'.found) /\ IsChild(child')
<1> DEFINE inside == {p \in DOMAIN fileSystem : Len(p) > 1 /\ Front(p) = child.path}
           Entry(p) == [name |-> Last(p), kind |-> fileSystem[p].kind]
<1>1. PICK does, at, old, names, content :
        child = [work |-> does, path |-> at, ends |-> old, found |-> names, data |-> content]
  BY DEF IsChild
<1>2. PICK order \in SetToSeqs({Entry(p) : p \in inside}) :
        child' = [child EXCEPT !.ends = "succeeded", !.found = <<[name |-> Dot, kind |-> "directory"]>> \o order]
  BY DEF ChildLists
<1> DEFINE found == <<[name |-> Dot, kind |-> "directory"]>> \o order
<1>3. Listing(child.path, found)
  BY DEF Listing
<1> HIDE DEF found, inside, Entry
<1>4. child' = [work |-> does, path |-> at, ends |-> "succeeded", found |-> found, data |-> content]
  BY <1>1, <1>2 DEF found
<1> QED BY <1>1, <1>3, <1>4 DEF IsChild, Endings

\* A conversation is not none.
LEMMA ChildrenAre == \A c : IsChild(c) => c # NoChild
<1> SUFFICES ASSUME NEW c, IsChild(c), c = NoChild
             PROVE  FALSE
  OBVIOUS
<1>1. "ends" \in DOMAIN c /\ "ends" \notin DOMAIN NoChild
  BY DEF IsChild, NoChild
<1> QED BY <1>1

\* One that starts is not none.
LEMMA StartsAre ==
  ASSUME NEW does, NEW at, StartChild(does, at)
  PROVE  child' # NoChild /\ child'.work = does /\ child'.path = at /\ child'.ends = "running"
<1>1. IsChild(child')
  BY DEF StartChild, IsChild, Endings
<1> QED BY <1>1, ChildrenAre DEF StartChild

\* The machine, the vehicle and the clock keep what a backup has gathered.
LEMMA TreeBackupInvKeeps ==
  ASSUME TreeEnds, TreeBackupInv, composite = "backup",
         \/ TreeNext
         \/ TreeGoesOn
         \/ Tick /\ UNCHANGED treeVars
         \/ UNCHANGED <<transferVars, linkVars, treeVars>>
  PROVE  TreeBackupInv'
<1>1. /\ tree \in Trees /\ fileSystem = Absolute(tree) /\ restored = 0 /\ Gathered /\ AsksAreMet
      /\ phase = "settled" <=> outcome # "none"
      /\ phase = "idle" => child = NoChild
      /\ Running => IsChild(child) /\ phase # "idle" /\ phase # "settled" /\ child # NoChild
      /\ phase \in {"idle", "running", "settled"}
  BY ChildrenAre DEF TreeBackupInv, TreeEnds, TransferTypeOK, Running
<1>2. Running => (\E n \in 0..Len(recorded.directories) : ListsAfter(n)) \/ Downloads
  BY DEF TreeBackupInv
<1>3. ASSUME UNCHANGED <<treeChoices, recorded, queue, fetched, restored, fileSystem>>
      PROVE  /\ tree' \in Trees /\ fileSystem' = Absolute(tree)' /\ restored' = 0 /\ Gathered'
             /\ \A n : AllOf(n) => AllOf(n)'
  <2>1. tree' = tree /\ UNCHANGED <<recorded, queue, fetched, restored, fileSystem>>
    BY <1>3 DEF treeChoices
  <2>2. Absolute(tree)' = Absolute(tree)
    BY <2>1 DEF Absolute
  <2>3. Gathered'
    BY <1>1, <2>1 DEF Gathered, OfTree, ParentsFirst
  <2>4. \A n : AllOf(n) => AllOf(n)'
    BY <2>1 DEF AllOf, Known, FirstListed, Nth
  <2> QED BY <1>1, <2>1, <2>2, <2>3, <2>4
<1>4. ASSUME UNCHANGED <<treeChoices, recorded, queue, fetched, restored, fileSystem>>,
             child # NoChild, child'.work = child.work, child'.path = child.path
      PROVE  AsksAreMet'
  BY <1>1, <1>4 DEF AsksAreMet, HasAt, treeChoices
<1>5. ASSUME UNCHANGED <<treeChoices, recorded, queue, fetched, restored, fileSystem>>, UNCHANGED <<phase, outcome>>,
             Running, child'.work = child.work, child'.path = child.path,
             child'.ends = "succeeded" => /\ child.work = "list" => Listing(child.path, child'.found)
                                          /\ child.work = "download" => child'.data = fileSystem[child.path].data
      PROVE  TreeBackupInv'
  <2>1. AsksAreMet'
    BY <1>1, <1>4, <1>5
  <2>2. ASSUME NEW n \in 0..Len(recorded.directories), ListsAfter(n)
        PROVE  ListsAfter(n)' /\ n \in 0..Len(recorded'.directories)
    <3>1. AllOf(n)'
      BY <1>3, <1>5, <2>2 DEF ListsAfter
    <3>2. child'.ends = "succeeded" => Listing(child.path, child.found)'
      BY <1>5, <2>2 DEF ListsAfter, Listing
    <3> QED BY <1>5, <2>2, <3>1, <3>2 DEF ListsAfter, IsRest, Nth
  <2>3. ASSUME Downloads
        PROVE  Downloads'
    <3> DEFINE k == Len(fetched) + 1
    <3>1. AllOf(Len(recorded.directories) + 1)'
      BY <1>3, <1>5, <2>3 DEF Downloads
    <3>2. k \in 1..Len(recorded.files)
      BY <1>1, <2>3 DEF Gathered, OfTree, Downloads
    <3>3. recorded.files[k] \in DOMAIN tree /\ tree[recorded.files[k]] = "file"
      BY <1>1, <3>2 DEF Gathered, OfTree
    <3>4. fileSystem[Abs(recorded.files[k])].data = recorded.files[k]
      BY <1>1, <3>3, HasTheTree
    <3> QED BY <1>5, <2>3, <3>1, <3>4 DEF Downloads, AllOf
  <2> QED BY <1>1, <1>2, <1>3, <1>5, <2>1, <2>2, <2>3 DEF TreeBackupInv, Running
<1>6. ASSUME UNCHANGED <<treeChoices, recorded, queue, fetched, restored, fileSystem>>,
             phase' = "settled", outcome' # "none", outcome' # "succeeded", AsksAreMet'
      PROVE  TreeBackupInv'
  BY <1>3, <1>6 DEF TreeBackupInv, Running
<1>7. ASSUME UNCHANGED <<treeChoices, recorded, queue, fetched, restored, fileSystem>>,
             UNCHANGED <<phase, outcome>>, ~Running, child' = child
      PROVE  TreeBackupInv'
  <2>1. AsksAreMet'
    BY <1>1, <1>4, <1>7 DEF AsksAreMet
  <2>2. outcome = "succeeded" => AllOf(Len(recorded.directories) + 1) /\ fetched = recorded.files
    BY DEF TreeBackupInv
  <2>3. phase = "idle" => recorded = [directories |-> <<>>, files |-> <<>>] /\ queue = <<>> /\ fetched = <<>> /\ child = NoChild
    BY DEF TreeBackupInv
  <2>4. outcome' = "succeeded" => AllOf(Len(recorded.directories) + 1)'
    BY <1>3, <1>7, <2>2
  <2> QED BY <1>3, <1>7, <2>1, <2>2, <2>3, <2>4 DEF TreeBackupInv, Running
<1>8. CASE TreeStarts
  <2>1. /\ recorded = [directories |-> <<>>, files |-> <<>>] /\ queue = <<>> /\ fetched = <<>>
        /\ UNCHANGED <<treeChoices, recorded, queue, fetched, restored, fileSystem>>
        /\ phase' = "running" /\ outcome' = "none"
        /\ child'.work = "list" /\ child'.path = Root /\ child'.ends = "running"
    BY <1>1, <1>8 DEF TreeStarts, StartChild, Goes, TreeBackupInv
  <2>2. recorded'.directories = <<>> /\ recorded'.files = <<>>
    BY <2>1
  <2>3. AllOf(0)'
    <3>1. FirstListed(<<>>, 0) = {} /\ Range(<<>>) = {}
      BY DEF FirstListed, Range
    <3>2. \A kind : Known(<<>>, kind, {})
      BY <3>1 DEF Known
    <3>3. tree' = tree
      BY <2>1 DEF treeChoices
    <3> QED BY <2>2, <3>1, <3>2, <3>3 DEF AllOf, Known, FirstListed, Nth
  <2>4. ListsAfter(0)'
    <3>1. Nth(<<>>, 0) = <<>> /\ Abs(<<>>) = Root /\ Len(<<>>) = 0 /\ 0 = 0 - 0 /\ \A i \in 1..0 : FALSE
      BY AbsIs DEF Nth
    <3>2. IsRest(<<>>, <<>>, 0)
      BY <3>1 DEF IsRest
    <3> QED BY <2>1, <2>2, <2>3, <3>1, <3>2 DEF ListsAfter, IsRest, Nth
  <2>5. AsksAreMet'
    BY <1>1, <2>1, HasTheTree DEF AsksAreMet, HasAt, treeChoices
  <2>6. 0 \in 0..Len(recorded'.directories)
    BY <2>2
  <2> QED BY <1>3, <2>1, <2>4, <2>5, <2>6 DEF TreeBackupInv, Running
<1>9. CASE TreeCancelled
  <2>1. Running /\ phase' = "settled" /\ outcome' = "cancelled"
        /\ UNCHANGED <<treeChoices, recorded, queue, fetched, restored, fileSystem>>
    BY <1>9 DEF TreeCancelled, Settle
  <2>2. PICK how : child' = [child EXCEPT !.ends = how]
    BY <1>9 DEF TreeCancelled
  <2>3. child # NoChild /\ child'.work = child.work /\ child'.path = child.path
    BY <1>1, <2>1, <2>2, EndsAlone
  <2> QED BY <1>4, <1>6, <2>1, <2>3
<1>10. ASSUME Alone, UNCHANGED fileSystem
       PROVE  UNCHANGED <<treeChoices, recorded, queue, fetched, restored, fileSystem>> /\ UNCHANGED <<phase, outcome>>
  BY <1>10 DEF Alone, transferVars
<1>11. ASSUME NEW does, ChildRuns(does), does # "none"
       PROVE  Running /\ does \in {"list", "download"}
  <2>1. child # NoChild /\ child.ends = "running" /\ child.work = does
    BY <1>11 DEF ChildRuns, NoChild
  <2>2. Running
    BY <1>1, <2>1 DEF TreeEnds, Running
  <2> QED BY <1>2, <2>1, <2>2 DEF ListsAfter, Downloads
<1>12. CASE ChildFails
  <2>1. Running
    BY <1>1, <1>12 DEF TreeEnds, Running, ChildFails
  <2>2. child'.work = child.work /\ child'.path = child.path /\ child'.ends = "failed"
    BY <1>1, <1>12, <2>1, EndsAlone DEF ChildFails, ChildEnds
  <2> QED BY <1>5, <1>10, <1>12, <2>1, <2>2 DEF ChildFails
<1>13. CASE ChildLists
  <2>1. Running
    BY <1>11, <1>13 DEF ChildLists
  <2>2. /\ child'.work = child.work /\ child'.path = child.path /\ child'.ends = "succeeded" /\ child.work = "list"
        /\ Listing(child.path, child'.found)
    BY <1>1, <1>13, <2>1, ListsAre DEF ChildLists, ChildRuns
  <2> QED BY <1>5, <1>10, <1>13, <2>1, <2>2 DEF ChildLists
<1>14. CASE ChildDownloads
  <2>1. Running
    BY <1>11, <1>14 DEF ChildDownloads
  <2>2. PICK does, at, old, names, content :
          child = [work |-> does, path |-> at, ends |-> old, found |-> names, data |-> content]
    BY <1>1, <2>1 DEF IsChild
  <2> DEFINE content1 == fileSystem[child.path].data
  <2>3. child' = [work |-> does, path |-> at, ends |-> "succeeded", found |-> names, data |-> content1]
    <3>1. child' = [child EXCEPT !.ends = "succeeded", !.data = content1]
      BY <1>14 DEF ChildDownloads
    <3> HIDE DEF content1
    <3> QED BY <2>2, <3>1
  <2> HIDE DEF content1
  <2>4. child'.work = child.work /\ child'.path = child.path /\ child.work = "download" /\ child'.data = content1
    <3>1. child.work = "download"
      BY <1>14 DEF ChildDownloads, ChildRuns
    <3> QED BY <2>2, <2>3, <3>1
  <2> QED BY <1>5, <1>10, <1>14, <2>1, <2>4 DEF ChildDownloads, content1
<1>15. CASE ChildUploads \/ ChildMakesDirectory
  BY <1>11, <1>15 DEF ChildUploads, ChildMakesDirectory
<1>16. CASE TreeContinues
  <2>1. UNCHANGED <<treeChoices, fileSystem>> /\ ChildEnded
    BY <1>16 DEF TreeContinues
  <2>2. CASE ~MayGoOn /\ child' = NoChild /\ UNCHANGED <<phase, outcome, timer, deadline, recorded, queue, fetched, restored>>
    <3>1. AsksAreMet' /\ ~Running
      BY <2>2 DEF AsksAreMet, MayGoOn
    <3>2. phase = "settled" /\ outcome # "none"
      BY <1>1, <2>1, <3>1 DEF ChildEnded, Running
    <3>3. outcome = "succeeded" => AllOf(Len(recorded.directories) + 1) /\ fetched = recorded.files
      BY DEF TreeBackupInv
    <3>4. outcome' = "succeeded" => AllOf(Len(recorded.directories) + 1)'
      BY <1>3, <2>1, <2>2, <3>3
    <3> QED BY <1>3, <2>1, <2>2, <3>1, <3>2, <3>3, <3>4 DEF TreeBackupInv, Running
  <2>3. CASE MayGoOn /\ TakenIsListed
    BY <2>3 DEF TakenIsListed
  <2>4. CASE MayGoOn /\ child.ends = "succeeded" /\ BackedUp
    <3>1. Running /\ outcome = "none"
      BY <1>1, <2>4 DEF MayGoOn
    <3>2. ASSUME NEW n \in 0..Len(recorded.directories), ListsAfter(n)
          PROVE  TreeBackupInv'
      <4>1. child.work = "list"
        BY <3>2 DEF ListsAfter
      <4> QED BY <2>1, <2>4, <3>1, <3>2, <4>1, ListGoesOn DEF BackedUp
    <3>3. ASSUME Downloads
          PROVE  TreeBackupInv'
      <4>1. child.work = "download"
        BY <3>3 DEF Downloads
      <4> QED BY <2>1, <2>4, <3>1, <3>3, <4>1, DownloadGoesOn DEF BackedUp
    <3> QED BY <1>2, <3>1, <3>2, <3>3
  <2>5. CASE composite = "restore"
    BY <2>5
  <2>6. CASE TreeSettles("failed") /\ UNCHANGED <<recorded, queue, fetched, restored>>
    <3>1. phase' = "settled" /\ outcome' = "failed" /\ child' = NoChild
      BY <2>6 DEF TreeSettles, Settle
    <3>2. AsksAreMet'
      BY <3>1 DEF AsksAreMet
    <3> QED BY <1>6, <2>1, <2>6, <3>1, <3>2
  <2> QED BY <1>16, <2>2, <2>3, <2>4, <2>5, <2>6 DEF TreeContinues
<1>17. CASE UNCHANGED <<phase, outcome, treeVars>>
  <2>1. UNCHANGED <<treeChoices, recorded, queue, fetched, restored, fileSystem>> /\ UNCHANGED child
    BY <1>17 DEF treeVars, treeChoices
  <2>2. CASE ~Running
    BY <1>7, <1>17, <2>1, <2>2
  <2>3. CASE Running
    <3>1. child.ends = "succeeded" =>
            /\ child.work = "list" => Listing(child.path, child.found)
            /\ child.work = "download" => child.data = fileSystem[child.path].data
      <4>1. ASSUME NEW n \in 0..Len(recorded.directories), ListsAfter(n), child.ends = "succeeded"
            PROVE  child.work = "list" /\ Listing(child.path, child.found)
        BY <4>1 DEF ListsAfter
      <4>2. ASSUME Downloads, child.ends = "succeeded"
            PROVE  child.work = "download" /\ child.data = fileSystem[child.path].data
        <5> DEFINE k == Len(fetched) + 1
        <5>1. k \in 1..Len(recorded.files)
          BY <1>1, <4>2 DEF Gathered, OfTree, Downloads
        <5>2. recorded.files[k] \in DOMAIN tree /\ tree[recorded.files[k]] = "file"
          BY <1>1, <5>1 DEF Gathered, OfTree
        <5> QED BY <1>1, <4>2, <5>2, HasTheTree DEF Downloads
      <4> QED BY <1>2, <2>3, <4>1, <4>2
    <3>2. child'.ends = "succeeded" =>
            /\ child.work = "list" => Listing(child.path, child'.found)
            /\ child.work = "download" => child'.data = fileSystem[child.path].data
      BY <2>1, <3>1
    <3> QED BY <1>5, <1>17, <2>1, <2>3, <3>2
  <2> QED BY <2>2, <2>3
<1>18. CASE Tick /\ UNCHANGED treeVars
  BY <1>17, <1>18 DEF Tick, transferVars
<1>19. CASE UNCHANGED <<transferVars, linkVars, treeVars>>
  BY <1>17, <1>19 DEF transferVars
<1> QED BY <1>8, <1>9, <1>12, <1>13, <1>14, <1>15, <1>16, <1>18, <1>19 DEF TreeNext, TreeGoesOn

\* What is of the tree, each once, is no more than the tree.
LEMMA OfTreeIsBounded ==
  ASSUME tree \in Trees, NEW s \in Seq(DOMAIN tree), Once(s)
  PROVE  Len(s) \in 0..TreeSize
<1>1. IsFiniteSet(DOMAIN tree) /\ Cardinality(DOMAIN tree) <= TreeSize /\ Range(s) \subseteq DOMAIN tree
  BY TreesAre DEF Range
<1>2. Cardinality(Range(s)) = Len(s) /\ Cardinality(Range(s)) <= Cardinality(DOMAIN tree)
  BY <1>1, OnceIsCounted, FS_Subset
<1>3. Len(s) \in Nat /\ Cardinality(DOMAIN tree) \in Nat /\ TreeSize \in Nat
  BY <1>1, FS_CardinalityType, TreeAssumption
<1> QED BY <1>1, <1>2, <1>3

\* When every directory that is known has been listed everything is known.
LEMMA AllIsFound ==
  ASSUME tree \in Trees, NEW s, OfTree(s, "directory"), NEW f, OfTree(f, "file"),
         Known(s, "directory", FirstListed(s, Len(s) + 1)), Known(f, "file", FirstListed(s, Len(s) + 1))
  PROVE  Lists(s, PathsOf(tree, "directory")) /\ Lists(f, PathsOf(tree, "file"))
<1> DEFINE listed == FirstListed(s, Len(s) + 1)
<1>1. s \in Seq(DOMAIN tree) /\ Len(s) \in Nat /\ DOMAIN s = 1..Len(s) /\ f \in Seq(DOMAIN tree)
  BY DEF OfTree
<1>2. <<>> \in listed /\ \A i \in 1..Len(s) : s[i] \in listed
  <2>1. Nth(s, 0) = <<>> /\ \A i \in 1..Len(s) : Nth(s, i) = s[i]
    BY DEF Nth
  <2>2. \A i \in 0..Len(s) : i \in 0..((Len(s) + 1) - 1)
    BY <1>1
  <2>3. 0 \in 0..Len(s) /\ \A i \in 1..Len(s) : i \in 0..Len(s)
    BY <1>1
  <2> QED BY <2>1, <2>2, <2>3 DEF FirstListed
<1>3. Range(s) \subseteq listed
  BY <1>1, <1>2 DEF Range
<1> HIDE DEF listed
<1>4. /\ \A p \in DOMAIN tree : tree[p] = "directory" => (p \in Range(s) <=> Front(p) \in listed)
      /\ \A p \in DOMAIN tree : tree[p] = "file" => (p \in Range(f) <=> Front(p) \in listed)
  BY DEF Known, listed
<1>5. \A p \in DOMAIN tree : Front(p) \in listed
  <2> TAKE p \in DOMAIN tree
  <2>1. CASE Front(p) = <<>>
    BY <1>2, <2>1
  <2>2. CASE Front(p) \in DOMAIN tree /\ tree[Front(p)] = "directory" /\ Front(Front(p)) = <<>>
    BY <1>2, <1>3, <1>4, <2>2
  <2> QED BY <2>1, <2>2, DepthIs
<1>6. ASSUME NEW t, NEW kind, OfTree(t, kind), \A p \in DOMAIN tree : tree[p] = kind => (p \in Range(t) <=> Front(p) \in listed)
      PROVE  Lists(t, PathsOf(tree, kind))
  <2>1. \A p \in Range(t) : p \in DOMAIN tree /\ tree[p] = kind
    BY <1>6 DEF OfTree, Range
  <2>2. Range(t) = PathsOf(tree, kind)
    BY <1>5, <1>6, <2>1 DEF PathsOf
  <2> QED BY <1>6, <2>2, OnceIsCounted DEF OfTree
<1> QED BY <1>4, <1>6

\* A backup of a tree does what its properties say.
LEMMA BackupOfTreeIsExact ==
  ASSUME TreeEnds, TreeBackupInv, composite = "backup"
  PROVE  TreeTypeOK /\ TreesAreExact /\ CountsAreTrue /\ AsksAreMet
<1>1. /\ tree \in Trees /\ restored = 0 /\ Gathered /\ AsksAreMet
      /\ outcome = "succeeded" => AllOf(Len(recorded.directories) + 1) /\ fetched = recorded.files
  BY DEF TreeBackupInv
<1>2. /\ OfTree(recorded.directories, "directory") /\ OfTree(recorded.files, "file") /\ ParentsFirst(recorded.directories)
      /\ queue \in Seq(DOMAIN tree) /\ Len(queue) <= Len(recorded.directories)
      /\ fetched \in Seq(DOMAIN tree) /\ Len(fetched) <= Len(recorded.files)
  BY <1>1 DEF Gathered
<1>3. TreeTypeOK
  <2>1. Len(recorded.directories) \in 0..TreeSize /\ Len(recorded.files) \in 0..TreeSize
    BY <1>1, <1>2, OfTreeIsBounded DEF OfTree
  <2>2. Len(queue) \in 0..TreeSize /\ Len(fetched) \in 0..TreeSize
    <3>1. Len(queue) \in Nat /\ Len(fetched) \in Nat /\ TreeSize \in Nat
      BY <1>2, TreeAssumption
    <3> QED BY <1>2, <2>1, <3>1
  <2>3. restored \in 0..(TreeSize + 1)
    BY <1>1, TreeAssumption
  <2>4. child = NoChild \/ child.ends \in Endings
    BY DEF TreeEnds, IsChild, TransferTypeOK, Running
  <2> QED BY <1>1, <2>1, <2>2, <2>3, <2>4 DEF TreeTypeOK, Endings
<1>4. TreesAreExact
  <2> SUFFICES ASSUME outcome = "succeeded"
               PROVE  TreesAreExact
    BY DEF TreesAreExact
  <2>1. Lists(recorded.directories, PathsOf(tree, "directory")) /\ Lists(recorded.files, PathsOf(tree, "file"))
    BY <1>1, <1>2, AllIsFound DEF AllOf
  <2>2. DOMAIN recorded.directories = 1..Len(recorded.directories)
    BY <1>2 DEF OfTree
  <2> QED BY <1>1, <1>2, <2>1, <2>2 DEF TreesAreExact, ParentsFirst
<1> QED BY <1>1, <1>3, <1>4 DEF CountsAreTrue

-----------------------------------------------------------------------------
(* Restores of trees are exact *)

\* What is being restored: the root, then the plan.
Now == IF restored = 0 THEN Root ELSE Abs(Plan[restored])
IsMade == IF restored = 0 THEN HasAt(Root) = "directory" ELSE HasAsRecorded(Plan[restored])

\* Everything before what is being restored is as recorded, and nothing after it.
RestoredSoFar ==
  /\ tree \in Trees
  /\ recorded = [directories |-> AsRecorded(tree, "directory"), files |-> AsRecorded(tree, "file")]
  /\ queue = <<>> /\ fetched = <<>> /\ restored \in 0..(Len(Plan) + 1)
  /\ \A p \in DOMAIN fileSystem : fileSystem[p] = Directory \/ fileSystem[p].kind = "file"
  /\ CountsAreTrue
  /\ restored > 0 => HasAt(Root) = "directory"

\* It is made when its conversation says so.
TreeRestoreInv ==
  /\ RestoredSoFar
  /\ phase = "idle" => restored = 0 /\ child = NoChild
  /\ child # NoChild => child.path = Now /\ restored <= Len(Plan)
  /\ Running => /\ child # NoChild
                /\ child.work \in IF restored <= Len(recorded.directories) THEN {"create-directory", "list"} ELSE {"upload"}
                /\ child.ends = "exists" => child.work = "create-directory"
                /\ child.ends = "succeeded" => IsMade
  /\ outcome = "succeeded" => restored = Len(Plan) + 1

\* The plan has each path of the tree once, directories first and every other
\* path after its parent.
LEMMA PlanIs ==
  ASSUME tree \in Trees,
         recorded = [directories |-> AsRecorded(tree, "directory"), files |-> AsRecorded(tree, "file")]
  PROVE  /\ OfTree(recorded.directories, "directory") /\ OfTree(recorded.files, "file")
         /\ ParentsFirst(recorded.directories) /\ Len(recorded.directories) \in Nat
         /\ Plan \in Seq(DOMAIN tree) /\ Len(Plan) \in Nat /\ Len(recorded.directories) <= Len(Plan)
         /\ Once(Plan) /\ Range(Plan) = DOMAIN tree
         /\ \A i \in 1..Len(Plan) : Plan[i] \in DOMAIN tree /\ (tree[Plan[i]] = "directory" <=> i <= Len(recorded.directories))
         /\ \A i \in 1..Len(Plan) : \/ Front(Plan[i]) = <<>>
                                    \/ \E j \in 1..(i - 1) : Plan[j] = Front(Plan[i]) /\ tree[Plan[j]] = "directory"
<1> DEFINE s == recorded.directories
           f == recorded.files
           S == DOMAIN tree
           a == Len(s)
           b == Len(f)
<1>1. s = AsRecorded(tree, "directory") /\ f = AsRecorded(tree, "file") /\ Plan = s \o f
  BY DEF Plan
<1>2. /\ s \in Seq(S) /\ Once(s) /\ Range(s) = PathsOf(tree, "directory")
      /\ \A i, j \in DOMAIN s : i < j => Len(s[i]) <= Len(s[j])
      /\ f \in Seq(S) /\ Once(f) /\ Range(f) = PathsOf(tree, "file")
  BY <1>1, AsRecordedIs
<1>3. DOMAIN s = 1..a /\ a \in Nat /\ DOMAIN f = 1..b /\ b \in Nat
  BY <1>2
<1> HIDE DEF s, f, S
<1>4. /\ Plan \in Seq(S) /\ Len(Plan) = a + b
      /\ \A i \in 1..a : Plan[i] = s[i]
      /\ \A i \in 1..b : Plan[a + i] = f[i]
      /\ \A i \in 1..(a + b) : i \in 1..a \/ (i - a \in 1..b /\ Plan[i] = f[i - a])
      /\ \A x : x \in Range(Plan) <=> x \in Range(s) \/ x \in Range(f)
  BY <1>1, <1>2, ConcatIs
<1>5. \A x : x \in Range(s) => x \in S /\ tree[x] = "directory"
  BY <1>2 DEF PathsOf, S
<1>6. \A x : x \in Range(f) => x \in S /\ tree[x] = "file"
  BY <1>2 DEF PathsOf, S
<1>7. \A i \in 1..a : s[i] \in Range(s)
  BY <1>3 DEF Range
<1>8. \A i \in 1..b : f[i] \in Range(f)
  BY <1>3 DEF Range
<1>9. OfTree(s, "directory") /\ OfTree(f, "file") /\ ParentsFirst(s)
  BY <1>2, <1>3, <1>5, <1>6, <1>7, <1>8 DEF OfTree, ParentsFirst, S
<1>10. Once(Plan)
  BY <1>1, <1>2, <1>5, <1>6, ConcatOnce
<1>11. Range(Plan) = S
  <2>1. \A p \in S : tree[p] \in {"directory", "file"}
    BY TreesAre DEF S
  <2>2. \A p \in S : p \in Range(s) \/ p \in Range(f)
    BY <1>2, <2>1 DEF PathsOf, S
  <2> QED BY <1>4, <1>5, <1>6, <2>2
<1>12. \A i \in 1..(a + b) : Plan[i] \in S /\ (tree[Plan[i]] = "directory" <=> i <= a)
  <2> TAKE i \in 1..(a + b)
  <2>1. CASE i \in 1..a
    BY <1>4, <1>5, <1>7, <2>1
  <2>2. CASE i - a \in 1..b /\ Plan[i] = f[i - a]
    <3>1. Plan[i] \in S /\ tree[Plan[i]] = "file"
      BY <1>6, <1>8, <2>2
    <3>2. ~(i <= a)
      BY <1>3, <2>2
    <3> QED BY <3>1, <3>2
  <2> QED BY <1>4, <2>1, <2>2
<1>13. ASSUME NEW i \in 1..(a + b), Front(Plan[i]) # <<>>
       PROVE  \E j \in 1..(i - 1) : Plan[j] = Front(Plan[i]) /\ tree[Plan[j]] = "directory"
  <2> DEFINE p == Plan[i]
             d == Front(p)
  <2>1. p \in S
    BY <1>12
  <2>2. p \in Seq(Nat) /\ Len(p) > 0 /\ d \in Seq(Nat) /\ Len(d) = Len(p) - 1 /\ d \in S /\ tree[d] = "directory"
    BY <1>13, <2>1, DepthIs DEF S
  <2> HIDE DEF p, d
  <2>3. d \in Range(s)
    BY <1>2, <2>2 DEF PathsOf, S
  <2>4. PICK j \in 1..a : s[j] = d
    BY <1>3, <2>3 DEF Range
  <2>5. Plan[j] = d
    BY <1>4, <2>4
  <2>6. j < i
    <3>1. CASE ~(i <= a)
      BY <1>3, <3>1
    <3>2. CASE i <= a /\ ~(j < i)
      <4>1. i \in 1..a /\ s[i] = p
        BY <1>3, <1>4, <3>2 DEF p
      <4>2. i = j \/ i < j
        BY <1>3, <3>2
      <4>3. Len(p) <= Len(d)
        <5>1. CASE i = j
          BY <2>2, <2>4, <4>1, <5>1
        <5>2. CASE i < j
          BY <1>2, <1>3, <2>4, <4>1, <5>2
        <5> QED BY <4>2, <5>1, <5>2
      <4>4. Len(p) \in Nat /\ Len(d) \in Nat
        BY <2>2
      <4> QED BY <2>2, <4>3, <4>4
    <3> QED BY <3>1, <3>2
  <2>7. j \in 1..(i - 1)
    BY <1>3, <2>6
  <2> QED BY <2>2, <2>5, <2>7 DEF p, d
<1>14. Len(Plan) \in Nat /\ a <= Len(Plan)
  BY <1>3, <1>4
<1> QED BY <1>3, <1>4, <1>9, <1>10, <1>11, <1>12, <1>13, <1>14 DEF s, f, S

\* What a path is and has, in the plan.
LEMMA PlacesAre ==
  ASSUME TreeRestoreInv
  PROVE  /\ \A i \in 1..Len(Plan) : /\ Plan[i] \in Seq(Nat) /\ Abs(Plan[i]) # Root /\ Tail(Abs(Plan[i])) = Plan[i]
                                    /\ Front(Abs(Plan[i])) = Abs(Front(Plan[i]))
                                    /\ Absolute(tree)[Abs(Plan[i])] = IF i <= Len(recorded.directories) THEN Directory
                                                                       ELSE FileOf(Plan[i])
                                    /\ HasAsRecorded(Plan[i]) <=>
                                         /\ Abs(Plan[i]) \in DOMAIN fileSystem
                                         /\ fileSystem[Abs(Plan[i])] = IF i <= Len(recorded.directories) THEN Directory
                                                                       ELSE FileOf(Plan[i])
         /\ \A i, j \in 1..Len(Plan) : Abs(Plan[i]) = Abs(Plan[j]) => i = j
<1>1. /\ Plan \in Seq(DOMAIN tree) /\ Once(Plan)
      /\ \A i \in 1..Len(Plan) : Plan[i] \in DOMAIN tree /\ (tree[Plan[i]] = "directory" <=> i <= Len(recorded.directories))
  BY PlanIs DEF TreeRestoreInv, RestoredSoFar
<1>2. tree \in Trees
  BY DEF TreeRestoreInv, RestoredSoFar
<1>3. ASSUME NEW i \in 1..Len(Plan)
      PROVE  /\ Plan[i] \in Seq(Nat) /\ Abs(Plan[i]) # Root /\ Tail(Abs(Plan[i])) = Plan[i]
             /\ Front(Abs(Plan[i])) = Abs(Front(Plan[i]))
             /\ Absolute(tree)[Abs(Plan[i])] = IF i <= Len(recorded.directories) THEN Directory ELSE FileOf(Plan[i])
  <2> DEFINE p == Plan[i]
  <2>1. p \in DOMAIN tree /\ (tree[p] = "directory" <=> i <= Len(recorded.directories))
    BY <1>1
  <2> HIDE DEF p
  <2>2. p \in Seq(Nat) /\ Len(p) > 0
    BY <1>2, <2>1, DepthIs
  <2>3. Tail(Abs(p)) = p /\ Front(Abs(p)) = Abs(Front(p))
    BY <2>2, AbsIs
  <2>4. Abs(p) # Root /\ Absolute(tree)[Abs(p)] = IF tree[p] = "directory" THEN Directory ELSE FileOf(p)
    BY <1>2, <2>1, AbsoluteIs
  <2> QED BY <2>1, <2>2, <2>3, <2>4 DEF p
<1>4. \A i, j \in 1..Len(Plan) : Abs(Plan[i]) = Abs(Plan[j]) => i = j
  <2> SUFFICES ASSUME NEW i \in 1..Len(Plan), NEW j \in 1..Len(Plan), Abs(Plan[i]) = Abs(Plan[j])
               PROVE  i = j
    OBVIOUS
  <2>1. Plan[i] = Plan[j]
    BY <1>3
  <2>2. DOMAIN Plan = 1..Len(Plan)
    BY <1>1
  <2> QED BY <1>1, <2>1, <2>2 DEF Once
<1> QED BY <1>3, <1>4 DEF HasAsRecorded, Abs

\* The machine, the vehicle and the clock keep what a restore has made.
LEMMA TreeRestoreInvKeeps ==
  ASSUME TreeEnds, TreeRestoreInv, composite = "restore",
         \/ TreeNext
         \/ TreeGoesOn
         \/ Tick /\ UNCHANGED treeVars
         \/ UNCHANGED <<transferVars, linkVars, treeVars>>
  PROVE  TreeRestoreInv'
<1> DEFINE r == restored
           dirs == Len(recorded.directories)
           size == Len(Plan)
<1>1. /\ phase \in {"idle", "running", "settled"} /\ (phase = "settled" <=> outcome # "none")
      /\ phase = "idle" => child = NoChild
      /\ Running => IsChild(child) /\ phase # "idle" /\ phase # "settled" /\ child # NoChild
      /\ child # NoChild /\ child.ends = "running" => Running
  BY ChildrenAre DEF TreeEnds, TransferTypeOK, Running
<1>2. /\ r \in 0..(size + 1) /\ size \in Nat /\ dirs \in Nat /\ dirs <= size /\ r \in Nat
      /\ child # NoChild => child.path = Now /\ r <= size
      /\ Running => /\ child # NoChild
                    /\ child.work \in IF r <= dirs THEN {"create-directory", "list"} ELSE {"upload"}
                    /\ child.ends = "exists" => child.work = "create-directory"
                    /\ child.ends = "succeeded" => IsMade
  BY PlanIs DEF TreeRestoreInv, RestoredSoFar
<1>3. /\ \A i \in 1..(r - 1) : HasAsRecorded(Plan[i])
      /\ \A i \in (r + 1)..size : tree[Plan[i]] = "file" => ~HasAsRecorded(Plan[i])
      /\ r > 0 => HasAt(Root) = "directory"
  BY DEF TreeRestoreInv, RestoredSoFar, CountsAreTrue
<1>4. ASSUME UNCHANGED <<treeChoices, recorded>>
      PROVE  /\ Plan' = Plan /\ composite' = composite /\ tree' = tree /\ Absolute(tree)' = Absolute(tree)
             /\ recorded' = [directories |-> AsRecorded(tree, "directory"), files |-> AsRecorded(tree, "file")]'
             /\ tree' \in Trees
  <2>1. tree' = tree /\ composite' = composite /\ recorded' = recorded
    BY <1>4 DEF treeChoices
  <2> QED BY <2>1 DEF TreeRestoreInv, RestoredSoFar, Plan, Absolute, AsRecorded, PathsOf
<1>5. ASSUME UNCHANGED <<treeChoices, recorded, queue, fetched, restored, fileSystem>>
      PROVE  RestoredSoFar' /\ (IsMade <=> IsMade') /\ Now' = Now /\ Plan' = Plan
  <2>1. Plan' = Plan /\ (\A p : HasAsRecorded(p) <=> HasAsRecorded(p)') /\ HasAt(Root)' = HasAt(Root)
    BY <1>4, <1>5 DEF HasAsRecorded, HasAt
  <2>2. IsMade <=> IsMade'
    BY <1>5, <2>1 DEF IsMade
  <2>3. Now' = Now
    BY <1>5, <2>1 DEF Now
  <2>4. CountsAreTrue'
    BY <1>4, <1>5, <2>1 DEF TreeRestoreInv, RestoredSoFar, CountsAreTrue
  <2> QED BY <1>4, <1>5, <2>1, <2>2, <2>3, <2>4 DEF TreeRestoreInv, RestoredSoFar
<1>6. ASSUME UNCHANGED <<treeChoices, recorded, queue, fetched, restored, fileSystem>>,
             UNCHANGED <<phase, outcome>>, Running, child' # NoChild, child'.work = child.work, child'.path = child.path,
             child'.ends = "exists" => child.work = "create-directory",
             child'.ends = "succeeded" => IsMade
      PROVE  TreeRestoreInv'
  BY <1>1, <1>2, <1>5, <1>6 DEF TreeRestoreInv, Running
<1>7. ASSUME UNCHANGED <<treeChoices, recorded, queue, fetched, restored, fileSystem>>,
             phase' = "settled", outcome' # "succeeded", child' = NoChild \/ (child # NoChild /\ child'.path = child.path)
      PROVE  TreeRestoreInv'
  BY <1>2, <1>5, <1>7 DEF TreeRestoreInv, Running
<1>8. ASSUME UNCHANGED <<treeChoices, recorded, queue, fetched, restored, fileSystem>>,
             UNCHANGED <<phase, outcome, child>>
      PROVE  TreeRestoreInv'
  BY <1>5, <1>8 DEF TreeRestoreInv, Running
<1>9. ASSUME Alone, Running, NEW content, VehicleHas(content), content = Directory \/ content.kind = "file",
             child' # NoChild, child'.work = child.work, child'.path = child.path,
             child'.ends = "exists" => child.work = "create-directory",
             child'.ends = "succeeded" =>
               content = IF r = 0 \/ r <= dirs THEN Directory ELSE FileOf(Plan[r])
      PROVE  TreeRestoreInv'
  <2>1. UNCHANGED <<treeChoices, recorded, queue, fetched, restored>> /\ UNCHANGED <<phase, outcome>>
    BY <1>9 DEF Alone, transferVars
  <2>2. /\ Plan' = Plan /\ composite' = composite /\ tree' = tree /\ Absolute(tree)' = Absolute(tree) /\ tree' \in Trees
        /\ recorded' = [directories |-> AsRecorded(tree, "directory"), files |-> AsRecorded(tree, "file")]'
    BY <1>4, <2>1
  <2> DEFINE at == child.path
  <2>3. at = Now /\ r \in 0..size /\ r <= size
    BY <1>1, <1>2, <1>9
  <2>4. fileSystem' = [p \in DOMAIN fileSystem \cup {at} |-> IF p = at THEN content ELSE fileSystem[p]]
    BY <1>9 DEF VehicleHas
  <2> HIDE DEF at
  <2>5. /\ at \in DOMAIN fileSystem' /\ fileSystem'[at] = content
        /\ \A p : p # at => (p \in DOMAIN fileSystem' <=> p \in DOMAIN fileSystem) /\
                            (p \in DOMAIN fileSystem => fileSystem'[p] = fileSystem[p])
    BY <2>4
  <2>6. \A p \in DOMAIN fileSystem' : fileSystem'[p] = Directory \/ fileSystem'[p].kind = "file"
    <3>1. \A p \in DOMAIN fileSystem : fileSystem[p] = Directory \/ fileSystem[p].kind = "file"
      BY DEF TreeRestoreInv, RestoredSoFar
    <3> QED BY <1>9, <2>5, <3>1
  <2>7. \A i \in 1..size : i # r => Abs(Plan[i]) # at
    <3>1. CASE r = 0
      BY <2>3, <3>1, PlacesAre DEF Now
    <3>2. CASE r # 0
      <4>1. r \in 1..size /\ at = Abs(Plan[r])
        BY <2>3, <3>2 DEF Now
      <4> QED BY <4>1, PlacesAre
    <3> QED BY <3>1, <3>2
  <2>8. \A i \in 1..size : i # r => (HasAsRecorded(Plan[i])' <=> HasAsRecorded(Plan[i]))
    BY <2>2, <2>5, <2>7 DEF HasAsRecorded, Abs
  <2>9. CountsAreTrue'
    <3>1. /\ \A i \in 1..(r - 1) : i \in 1..size /\ i # r
          /\ \A i \in (r + 1)..size : i \in 1..size /\ i # r
      BY <1>2, <2>3
    <3>2. /\ \A i \in 1..(r - 1) : HasAsRecorded(Plan[i])'
          /\ \A i \in (r + 1)..size : tree[Plan[i]] = "file" => ~HasAsRecorded(Plan[i])'
      BY <1>3, <2>8, <3>1
    <3> QED BY <2>1, <2>2, <3>2 DEF CountsAreTrue
  <2>10. r > 0 => HasAt(Root)' = "directory"
    <3>1. r > 0 => at # Root
      <4>1. r > 0 => r \in 1..size /\ at = Abs(Plan[r])
        BY <2>3 DEF Now
      <4> QED BY <4>1, PlacesAre
    <3> QED BY <1>3, <2>5, <3>1 DEF HasAt
  <2>11. RestoredSoFar'
    BY <2>1, <2>2, <2>6, <2>9, <2>10 DEF TreeRestoreInv, RestoredSoFar
  <2>12. ASSUME content = IF r = 0 \/ r <= dirs THEN Directory ELSE FileOf(Plan[r])
         PROVE  IsMade'
    <3>1. CASE r = 0
      <4>1. HasAt(Root)' = "directory"
        BY <2>3, <2>5, <2>12, <3>1 DEF Now, HasAt, Directory
      <4> QED BY <2>1, <3>1, <4>1 DEF IsMade
    <3>2. CASE r # 0
      <4>1. r \in 1..size /\ at = Abs(Plan[r])
        BY <2>3, <3>2 DEF Now
      <4>2. Absolute(tree)[at] = IF r <= dirs THEN Directory ELSE FileOf(Plan[r])
        BY <4>1, PlacesAre
      <4>3. HasAsRecorded(Plan[r])'
        BY <2>1, <2>2, <2>5, <2>12, <3>2, <4>1, <4>2 DEF HasAsRecorded, Abs
      <4> QED BY <2>1, <2>2, <3>2, <4>3 DEF IsMade
    <3> QED BY <3>1, <3>2
  <2>13. Now' = Now
    BY <2>1, <2>2 DEF Now
  <2> QED BY <1>1, <1>2, <1>9, <2>1, <2>2, <2>3, <2>11, <2>12, <2>13 DEF TreeRestoreInv, Running, at
<1>10. ASSUME Alone, UNCHANGED fileSystem
       PROVE  UNCHANGED <<treeChoices, recorded, queue, fetched, restored, fileSystem>> /\ UNCHANGED <<phase, outcome>>
  BY <1>10 DEF Alone, transferVars
<1>11. ASSUME NEW does, ChildRuns(does), does # "none"
       PROVE  Running /\ does \in IF r <= dirs THEN {"create-directory", "list"} ELSE {"upload"}
  <2>1. child # NoChild /\ child.ends = "running" /\ child.work = does
    BY <1>11 DEF ChildRuns, NoChild
  <2> QED BY <1>1, <1>2, <2>1
<1>12. CASE TreeStarts
  <2>1. /\ r = 0 /\ UNCHANGED <<treeChoices, recorded, queue, fetched, restored, fileSystem>>
        /\ phase' = "running" /\ outcome' = "none"
        /\ child'.work = "create-directory" /\ child'.path = Root /\ child'.ends = "running" /\ child' # NoChild
    <3>1. child' # NoChild
      BY <1>12, StartsAre DEF TreeStarts
    <3> QED BY <1>1, <1>12, <3>1 DEF TreeStarts, StartChild, Goes, TreeRestoreInv
  <2>2. Now = Root /\ r <= dirs /\ r <= size
    BY <1>2, <2>1 DEF Now
  <2> QED BY <1>5, <2>1, <2>2 DEF TreeRestoreInv, Running
<1>13. CASE TreeCancelled
  <2>1. Running /\ phase' = "settled" /\ outcome' = "cancelled"
        /\ UNCHANGED <<treeChoices, recorded, queue, fetched, restored, fileSystem>>
    BY <1>13 DEF TreeCancelled, Settle
  <2>2. PICK how : child' = [child EXCEPT !.ends = how]
    BY <1>13 DEF TreeCancelled
  <2>3. child # NoChild /\ child'.path = child.path
    BY <1>1, <2>1, <2>2, EndsAlone
  <2> QED BY <1>7, <2>1, <2>3
<1>14. CASE ChildFails
  <2>1. Running
    BY <1>1, <1>14 DEF ChildFails
  <2>2. child'.work = child.work /\ child'.path = child.path /\ child'.ends = "failed" /\ child' # NoChild
    <3>1. child' = [child EXCEPT !.ends = "failed"] /\ "failed" \in Endings /\ IsChild(child)
      BY <1>1, <1>14, <2>1 DEF ChildFails, ChildEnds, Endings
    <3> QED BY <3>1, EndsAlone, ChildrenStay, ChildrenAre
  <2> QED BY <1>6, <1>10, <1>14, <2>1, <2>2 DEF ChildFails
<1>15. CASE ChildLists
  <2>1. Running /\ r <= dirs
    BY <1>11, <1>15 DEF ChildLists
  <2>2. child'.work = child.work /\ child'.path = child.path /\ child'.ends = "succeeded" /\ child' # NoChild
    BY <1>1, <1>15, <2>1, ListsAre, ChildrenAre
  <2>3. child.path = Now /\ HasAt(child.path) = "directory"
    BY <1>1, <1>2, <1>15, <2>1 DEF ChildLists
  <2>4. IsMade
    <3>1. CASE r = 0
      BY <2>3, <3>1 DEF Now, IsMade
    <3>2. CASE r # 0
      <4>1. r \in 1..size /\ Now = Abs(Plan[r])
        BY <1>2, <2>1, <3>2 DEF Now
      <4>2. Now \in DOMAIN fileSystem /\ fileSystem[Now].kind = "directory"
        BY <2>3 DEF HasAt
      <4>3. fileSystem[Now] = Directory
        BY <4>2 DEF TreeRestoreInv, RestoredSoFar
      <4>4. HasAsRecorded(Plan[r])
        BY <2>1, <4>1, <4>2, <4>3, PlacesAre
      <4> QED BY <3>2, <4>4 DEF IsMade
    <3> QED BY <3>1, <3>2
  <2> QED BY <1>6, <1>10, <1>15, <2>1, <2>2, <2>4 DEF ChildLists
<1>16. CASE ChildDownloads
  BY <1>11, <1>16 DEF ChildDownloads
<1>17. CASE ChildUploads
  <2>1. Running /\ ~(r <= dirs)
    BY <1>11, <1>17 DEF ChildUploads
  <2>2. r \in 1..size /\ r # 0 /\ child.path = Abs(Plan[r])
    BY <1>1, <1>2, <2>1 DEF Now
  <2>3. Tail(child.path) = Plan[r]
    BY <2>2, PlacesAre
  <2>4. \A d : FileOf(d).kind = "file"
    BY DEF FileOf
  <2>5. \A how \in Endings : ChildEnds(how) =>
          child' # NoChild /\ child'.work = child.work /\ child'.path = child.path /\ child'.ends = how
    BY <1>1, <2>1, EndsAlone, ChildrenStay, ChildrenAre DEF ChildEnds
  <2>6. Alone
    BY <1>17 DEF ChildUploads
  <2>7. CASE VehicleHas(FileOf(Tail(child.path))) /\ \E how \in {"succeeded", "failed"} : ChildEnds(how)
    <3> DEFINE content == FileOf(Tail(child.path))
    <3>1. PICK how \in {"succeeded", "failed"} : ChildEnds(how)
      BY <2>7
    <3>2. child' # NoChild /\ child'.work = child.work /\ child'.path = child.path /\ child'.ends # "exists"
      BY <2>5, <3>1 DEF Endings
    <3>3. content = IF r = 0 \/ r <= dirs THEN Directory ELSE FileOf(Plan[r])
      BY <2>1, <2>2, <2>3
    <3>4. content.kind = "file" /\ VehicleHas(content)
      BY <2>4, <2>7
    <3> HIDE DEF content
    <3> QED BY <1>9, <2>1, <2>6, <3>2, <3>3, <3>4
  <2>8. CASE VehicleHas(Other) /\ ChildEnds("failed")
    <3>1. child' # NoChild /\ child'.work = child.work /\ child'.path = child.path /\ child'.ends = "failed"
      BY <2>5, <2>8 DEF Endings
    <3>2. Other.kind = "file"
      BY <2>4 DEF Other
    <3> QED BY <1>9, <2>1, <2>6, <2>8, <3>1, <3>2
  <2> QED BY <1>17, <2>7, <2>8 DEF ChildUploads
<1>18. CASE ChildMakesDirectory
  <2>1. Running /\ r <= dirs /\ child.work = "create-directory" /\ Alone
    BY <1>11, <1>18 DEF ChildMakesDirectory, ChildRuns
  <2>2. \A how \in Endings : ChildEnds(how) =>
          child' # NoChild /\ child'.work = child.work /\ child'.path = child.path /\ child'.ends = how
    BY <1>1, <2>1, EndsAlone, ChildrenStay, ChildrenAre DEF ChildEnds
  <2>3. CASE VehicleHas(Directory) /\ \E how \in {"succeeded", "exists", "failed"} : ChildEnds(how)
    <3>1. child' # NoChild /\ child'.work = child.work /\ child'.path = child.path
      BY <2>2, <2>3 DEF Endings
    <3> QED BY <1>9, <2>1, <2>3, <3>1
  <2>4. CASE ChildEnds("exists") /\ UNCHANGED fileSystem
    <3>1. child' # NoChild /\ child'.work = child.work /\ child'.path = child.path /\ child'.ends = "exists"
      BY <2>2, <2>4 DEF Endings
    <3> QED BY <1>6, <1>10, <2>1, <2>4, <3>1
  <2> QED BY <1>18, <2>3, <2>4 DEF ChildMakesDirectory
<1>19. CASE TreeContinues
  <2>1. UNCHANGED <<treeChoices, fileSystem>> /\ ChildEnded
    BY <1>19 DEF TreeContinues
  <2>2. CASE ~MayGoOn /\ child' = NoChild /\ UNCHANGED <<phase, outcome, timer, deadline, recorded, queue, fetched, restored>>
    <3>1. ~Running /\ phase = "settled"
      BY <1>1, <2>1, <2>2 DEF ChildEnded, MayGoOn, Running
    <3>2. outcome = "succeeded" => restored = size + 1
      BY DEF TreeRestoreInv
    <3> QED BY <1>5, <2>1, <2>2, <3>1, <3>2 DEF TreeRestoreInv, Running
  <2>3. CASE MayGoOn /\ TakenIsListed
    <3>1. /\ child.ends = "exists" /\ StartChild("list", child.path) /\ Goes /\ Running
          /\ UNCHANGED <<recorded, queue, fetched, restored>>
      BY <2>3 DEF TakenIsListed, MayGoOn
    <3>2. child.work = "create-directory" /\ r <= dirs /\ child.path = Now /\ r <= size
      BY <1>1, <1>2, <3>1
    <3>3. child' # NoChild /\ child'.work = "list" /\ child'.path = child.path /\ child'.ends = "running"
      BY <3>1, StartsAre
    <3>4. phase' = "running" /\ outcome' = "none"
      BY <1>1, <3>1 DEF Goes
    <3> QED BY <1>5, <2>1, <3>1, <3>2, <3>3, <3>4 DEF TreeRestoreInv, Running
  <2>4. CASE composite = "backup"
    BY <2>4
  <2>5. CASE MayGoOn /\ child.ends = "succeeded" /\ RestoreGoesOn
    <3>1. Running /\ outcome = "none" /\ IsMade /\ r \in 0..size
      BY <1>1, <1>2, <2>5 DEF MayGoOn
    <3>2. restored' = r + 1 /\ UNCHANGED <<recorded, queue, fetched>>
      BY <2>5 DEF RestoreGoesOn
    <3>3. /\ Plan' = Plan /\ composite' = composite /\ tree' = tree /\ Absolute(tree)' = Absolute(tree) /\ tree' \in Trees
          /\ recorded' = [directories |-> AsRecorded(tree, "directory"), files |-> AsRecorded(tree, "file")]'
      BY <1>4, <2>1, <3>2
    <3>4. (\A p : HasAsRecorded(p)' <=> HasAsRecorded(p)) /\ HasAt(Root)' = HasAt(Root)
      BY <2>1, <3>3 DEF HasAsRecorded, HasAt
    <3>5. CountsAreTrue'
      <4>1. /\ \A i \in 1..r : i \in 1..(r - 1) \/ (i = r /\ r # 0)
            /\ \A i \in (r + 2)..size : i \in (r + 1)..size
        BY <1>2
      <4>2. r # 0 => HasAsRecorded(Plan[r])
        BY <3>1 DEF IsMade
      <4>3. /\ \A i \in 1..r : HasAsRecorded(Plan[i])
            /\ \A i \in (r + 2)..size : tree[Plan[i]] = "file" => ~HasAsRecorded(Plan[i])
        BY <1>3, <4>1, <4>2
      <4>4. (r + 1) - 1 = r /\ (r + 1) + 1 = r + 2
        BY <1>2
      <4> QED BY <3>2, <3>3, <3>4, <4>3, <4>4 DEF CountsAreTrue
    <3>6. HasAt(Root)' = "directory"
      <4>1. r = 0 => HasAt(Root) = "directory"
        BY <3>1 DEF IsMade
      <4>2. r = 0 \/ r > 0
        BY <1>2
      <4> QED BY <1>3, <3>4, <4>1, <4>2
    <3>7. restored' \in 0..(size + 1) /\ restored' # 0
      BY <1>2, <3>1, <3>2
    <3>8. RestoredSoFar'
      BY <2>1, <3>2, <3>3, <3>5, <3>6, <3>7 DEF TreeRestoreInv, RestoredSoFar
    <3>9. CASE r = size
      <4>1. child' = NoChild /\ phase' = "settled" /\ outcome' = "succeeded"
        BY <2>5, <3>9 DEF RestoreGoesOn, TreeSettles, Settle
      <4> QED BY <3>2, <3>3, <3>8, <3>9, <4>1 DEF TreeRestoreInv, Running
    <3>10. CASE r # size
      <4>1. /\ StartChild(IF r < dirs THEN "create-directory" ELSE "upload", Root \o Plan[r + 1])
            /\ Goes
        BY <2>5, <3>10 DEF RestoreGoesOn
      <4>2. /\ child' # NoChild /\ child'.work = (IF r < dirs THEN "create-directory" ELSE "upload")
            /\ child'.path = Abs(Plan[r + 1]) /\ child'.ends = "running"
        BY <4>1, StartsAre DEF Abs
      <4>3. Now' = Abs(Plan[r + 1])
        BY <3>2, <3>3, <3>7 DEF Now
      <4>4. restored' <= size /\ (r < dirs <=> restored' <= dirs)
        BY <1>2, <3>1, <3>2, <3>10
      <4>5. phase' = "running" /\ outcome' = "none" /\ Len(recorded'.directories) = dirs
        BY <3>1, <3>2, <4>1 DEF Goes
      <4> QED BY <3>3, <3>8, <4>2, <4>3, <4>4, <4>5 DEF TreeRestoreInv, Running
    <3> QED BY <3>9, <3>10
  <2>6. CASE TreeSettles("failed") /\ UNCHANGED <<recorded, queue, fetched, restored>>
    <3>1. phase' = "settled" /\ outcome' = "failed" /\ child' = NoChild
      BY <2>6 DEF TreeSettles, Settle
    <3> QED BY <1>7, <2>1, <2>6, <3>1
  <2> QED BY <1>19, <2>2, <2>3, <2>4, <2>5, <2>6 DEF TreeContinues
<1>20. CASE UNCHANGED <<phase, outcome, treeVars>>
  BY <1>8, <1>20 DEF treeVars, treeChoices
<1>21. CASE Tick /\ UNCHANGED treeVars
  BY <1>20, <1>21 DEF Tick, transferVars
<1>22. CASE UNCHANGED <<transferVars, linkVars, treeVars>>
  BY <1>20, <1>22 DEF transferVars
<1> QED BY <1>12, <1>13, <1>14, <1>15, <1>16, <1>17, <1>18, <1>19, <1>21, <1>22 DEF TreeNext, TreeGoesOn

\* A restore of a tree does what its properties say.
LEMMA RestoreOfTreeIsExact ==
  ASSUME TreeEnds, TreeRestoreInv, composite = "restore"
  PROVE  TreeTypeOK /\ TreesAreExact /\ CountsAreTrue /\ AsksAreMet
<1> DEFINE r == restored
           size == Len(Plan)
<1>1. /\ tree \in Trees /\ queue = <<>> /\ fetched = <<>> /\ r \in 0..(size + 1) /\ CountsAreTrue
      /\ r > 0 => HasAt(Root) = "directory"
      /\ child # NoChild => child.path = Now /\ r <= size
      /\ outcome = "succeeded" => r = size + 1
  BY DEF TreeRestoreInv, RestoredSoFar
<1>2. /\ OfTree(recorded.directories, "directory") /\ OfTree(recorded.files, "file") /\ ParentsFirst(recorded.directories)
      /\ Plan \in Seq(DOMAIN tree) /\ size \in Nat /\ Once(Plan) /\ Range(Plan) = DOMAIN tree
      /\ \A i \in 1..size : \/ Front(Plan[i]) = <<>>
                            \/ \E j \in 1..(i - 1) : Plan[j] = Front(Plan[i]) /\ tree[Plan[j]] = "directory"
  BY PlanIs DEF TreeRestoreInv, RestoredSoFar
<1>3. \A i \in 1..(r - 1) : HasAsRecorded(Plan[i])
  BY <1>1 DEF CountsAreTrue
<1>4. TreeTypeOK
  <2>1. Len(recorded.directories) \in 0..TreeSize /\ Len(recorded.files) \in 0..TreeSize /\ size \in 0..TreeSize
    BY <1>1, <1>2, OfTreeIsBounded DEF OfTree
  <2>2. Len(queue) \in 0..TreeSize /\ Len(fetched) \in 0..TreeSize
    <3>1. Len(queue) = 0 /\ Len(fetched) = 0 /\ TreeSize \in Nat
      BY <1>1, TreeAssumption
    <3> QED BY <3>1
  <2>3. restored \in 0..(TreeSize + 1)
    BY <1>1, <1>2, <2>1, TreeAssumption
  <2>4. child = NoChild \/ child.ends \in Endings
    BY DEF TreeEnds, IsChild, TransferTypeOK, Running
  <2> QED BY <1>1, <2>1, <2>2, <2>3, <2>4 DEF TreeTypeOK, Endings
<1>5. TreesAreExact
  <2> SUFFICES ASSUME outcome = "succeeded"
               PROVE  TreesAreExact
    BY DEF TreesAreExact
  <2>1. r = size + 1 /\ DOMAIN Plan = 1..size
    BY <1>1, <1>2
  <2>2. \A p \in DOMAIN tree : HasAsRecorded(p)
    <3>1. \A p \in DOMAIN tree : \E i \in 1..size : p = Plan[i]
      BY <1>2, <2>1 DEF Range
    <3>2. \A i \in 1..size : i \in 1..(r - 1)
      BY <1>2, <2>1
    <3> QED BY <1>3, <3>1, <3>2
  <2>3. /\ Lists(recorded.directories, PathsOf(tree, "directory"))
        /\ Lists(recorded.files, PathsOf(tree, "file"))
    <3>1. /\ recorded.directories = AsRecorded(tree, "directory") /\ recorded.files = AsRecorded(tree, "file")
      BY DEF TreeRestoreInv, RestoredSoFar
    <3>2. /\ Range(recorded.directories) = PathsOf(tree, "directory")
          /\ Range(recorded.files) = PathsOf(tree, "file")
      BY <1>1, <3>1, AsRecordedIs
    <3>3. /\ recorded.directories \in Seq(DOMAIN tree) /\ Once(recorded.directories)
          /\ recorded.files \in Seq(DOMAIN tree) /\ Once(recorded.files)
      BY <1>2 DEF OfTree
    <3>4. /\ Lists(recorded.directories, Range(recorded.directories))
          /\ Lists(recorded.files, Range(recorded.files))
      BY <3>3, OnceIsCounted
    <3> QED BY <3>2, <3>4
  <2>4. DOMAIN recorded.directories = 1..Len(recorded.directories)
    BY <1>2 DEF OfTree
  <2> QED BY <1>2, <2>2, <2>3, <2>4 DEF TreesAreExact, ParentsFirst
<1>6. AsksAreMet
  <2> SUFFICES ASSUME child # NoChild
               PROVE  HasParent(child.path)
    BY DEF AsksAreMet
  <2>1. child.path = Now /\ r <= size
    BY <1>1
  <2>2. CASE r = 0
    BY <2>1, <2>2 DEF Now, HasParent
  <2>3. CASE r # 0
    <3>1. r \in 1..size /\ child.path = Abs(Plan[r]) /\ r > 0
      BY <1>1, <1>2, <2>1, <2>3 DEF Now
    <3>2. Front(child.path) = Abs(Front(Plan[r]))
      BY <3>1, PlacesAre
    <3>3. CASE Front(Plan[r]) = <<>>
      BY <1>1, <3>1, <3>2, <3>3, AbsIs DEF HasParent
    <3>4. CASE \E j \in 1..(r - 1) : Plan[j] = Front(Plan[r]) /\ tree[Plan[j]] = "directory"
      <4>1. PICK j \in 1..(r - 1) : Plan[j] = Front(Plan[r]) /\ tree[Plan[j]] = "directory"
        BY <3>4
      <4>2. j \in 1..size
        BY <1>2, <3>1
      <4>3. HasAsRecorded(Plan[j])
        BY <1>3
      <4>4. Absolute(tree)[Abs(Plan[j])] = Directory
        BY <1>1, <1>2, <4>1, <4>2, AbsoluteIs
      <4>5. HasAt(Abs(Plan[j])) = "directory"
        BY <4>3, <4>4 DEF HasAsRecorded, HasAt, Abs, Directory
      <4> QED BY <3>2, <4>1, <4>5 DEF HasParent
    <3> QED BY <1>2, <3>1, <3>3, <3>4
  <2> QED BY <2>2, <2>3
<1> QED BY <1>1, <1>4, <1>5, <1>6

\* Before anything happens nothing is gathered, and nothing restored.
LEMMA TreeBegins ==
  ASSUME TreeInit, phase = "idle", outcome = "none"
  PROVE  /\ composite \in {"backup", "restore"}
         /\ composite = "backup" => TreeBackupInv
         /\ composite = "restore" => TreeRestoreInv
<1>1. /\ tree \in Trees /\ queue = <<>> /\ fetched = <<>> /\ restored = 0 /\ child = NoChild
      /\ composite \in {"backup", "restore"} /\ ~Running
  BY DEF TreeInit, Running
<1>2. ASSUME composite = "backup"
      PROVE  TreeBackupInv
  <2>1. fileSystem = Absolute(tree) /\ recorded = [directories |-> <<>>, files |-> <<>>]
    BY <1>2 DEF TreeInit
  <2>2. recorded.directories = <<>> /\ recorded.files = <<>>
    BY <2>1
  <2>3. /\ <<>> \in Seq(DOMAIN tree) /\ Len(<<>>) = 0 /\ DOMAIN <<>> = {} /\ 0 <= 0
        /\ \A i \in 1..0 : FALSE
    OBVIOUS
  <2>4. Once(<<>>) /\ ParentsFirst(<<>>) /\ \A kind : OfTree(<<>>, kind)
    BY <2>3 DEF Once, ParentsFirst, OfTree
  <2>5. Gathered
    BY <1>1, <2>1, <2>2, <2>3, <2>4 DEF Gathered
  <2> QED BY <1>1, <2>1, <2>5 DEF TreeBackupInv, AsksAreMet
<1>3. ASSUME composite = "restore"
      PROVE  TreeRestoreInv
  <2>1. /\ fileSystem \in Before
        /\ recorded = [directories |-> AsRecorded(tree, "directory"), files |-> AsRecorded(tree, "file")]
    BY <1>3 DEF TreeInit
  <2>2. \A p \in DOMAIN fileSystem : fileSystem[p] = Directory \/ fileSystem[p] = Other
    <3> DEFINE inside == SUBSET {Root \o <<n>> : n \in Names}
    <3>1. \/ fileSystem \in [{} -> {Other}]
          \/ fileSystem \in [{Root} -> {Other}]
          \/ \E ps \in inside : fileSystem \in [{Root} \cup ps -> {Directory, Other}]
      BY <2>1 DEF Before
    <3> HIDE DEF inside
    <3> QED BY <3>1
  <2>3. Len(Plan) \in Nat /\ \A i \in 1..Len(Plan) : Plan[i] \in DOMAIN tree
    BY <1>1, <2>1, PlanIs
  <2>4. \A i \in 1..Len(Plan) : tree[Plan[i]] = "file" => ~HasAsRecorded(Plan[i])
    <3> SUFFICES ASSUME NEW i \in 1..Len(Plan), tree[Plan[i]] = "file", HasAsRecorded(Plan[i])
                 PROVE  FALSE
      OBVIOUS
    <3> DEFINE p == Plan[i]
    <3>1. p \in DOMAIN tree /\ tree[p] = "file" /\ HasAsRecorded(p)
      BY <2>3
    <3> HIDE DEF p
    <3>2. p \in Seq(Nat) /\ Len(p) > 0
      BY <1>1, <3>1, DepthIs
    <3>3. Abs(p) \in DOMAIN fileSystem /\ fileSystem[Abs(p)] = FileOf(p)
      BY <1>1, <3>1, AbsoluteIs DEF HasAsRecorded, Abs
    <3>4. FileOf(p) = Directory \/ FileOf(p) = Other
      BY <2>2, <3>3
    <3>5. FileOf(p).kind = "file" /\ FileOf(p).data = p /\ Directory.kind = "directory" /\ Other.data = <<>>
      BY DEF FileOf, Directory, Other
    <3>6. p = <<>>
      BY <3>4, <3>5
    <3> QED BY <3>2, <3>6
  <2>5. CountsAreTrue
    <3>1. (\A i \in 1..(restored - 1) : FALSE) /\ restored + 1 = 1
      BY <1>1
    <3> QED BY <2>4, <3>1 DEF CountsAreTrue
  <2>6. \A p \in DOMAIN fileSystem : fileSystem[p] = Directory \/ fileSystem[p].kind = "file"
    <3>1. Other.kind = "file"
      BY DEF Other, FileOf
    <3> QED BY <2>2, <3>1
  <2>7. restored \in 0..(Len(Plan) + 1) /\ ~(restored > 0)
    BY <1>1, <2>3
  <2>8. RestoredSoFar
    BY <1>1, <2>1, <2>5, <2>6, <2>7 DEF RestoredSoFar
  <2> QED BY <1>1, <2>8 DEF TreeRestoreInv
<1> QED BY <1>1, <1>2, <1>3

\* What is true of a tree all along.
TreeInv ==
  /\ TreeEnds /\ composite \in {"backup", "restore"}
  /\ composite = "backup" => TreeBackupInv
  /\ composite = "restore" => TreeRestoreInv

\* The machine, the vehicle and the clock keep it.
LEMMA TreeInvKeeps ==
  ASSUME TreeInv,
         \/ TreeNext
         \/ TreeGoesOn
         \/ Tick /\ UNCHANGED treeVars
         \/ UNCHANGED <<transferVars, linkVars, treeVars>>
  PROVE  TreeInv'
<1>1. composite' = composite
  <2>1. CASE TreeNext
    BY <2>1 DEF TreeNext, TreeStarts, TreeCancelled, ChildLists, ChildDownloads, ChildUploads, ChildMakesDirectory,
                Alone, treeChoices
  <2>2. CASE TreeGoesOn
    BY <2>2 DEF TreeGoesOn, TreeContinues, ChildFails, Alone, treeChoices
  <2> QED BY <2>1, <2>2 DEF treeVars
<1>2. TreeEnds'
  BY TreeEndsKeeps DEF TreeInv
<1>3. composite = "backup" => TreeBackupInv'
  BY TreeBackupInvKeeps DEF TreeInv
<1>4. composite = "restore" => TreeRestoreInv'
  BY TreeRestoreInvKeeps DEF TreeInv
<1> QED BY <1>1, <1>2, <1>3, <1>4 DEF TreeInv

\* It says what the properties of trees say.
LEMMA TreeInvSuffices ==
  ASSUME TreeInv
  PROVE  TransferTypeOK /\ TreeTypeOK /\ NothingRunsAfter /\ TreesAreExact /\ CountsAreTrue /\ AsksAreMet
<1>1. TreeTypeOK /\ TreesAreExact /\ CountsAreTrue /\ AsksAreMet
  BY BackupOfTreeIsExact, RestoreOfTreeIsExact DEF TreeInv
<1> QED BY <1>1 DEF TreeInv, TreeEnds, NothingRunsAfter

-----------------------------------------------------------------------------
(* Every transfer ends *)

\* How long the machine that runs waits, and what of a tree is done.
EndsInv ==
  /\ op = "upload" => UploadEnds
  /\ op = "download" => DownloadEnds
  /\ op \in {"clear", "set-current"} => SingleEnds
  /\ op = "param-backup" => BackupEnds
  /\ op = "param-read" => ReadEnds
  /\ op = "param-restore" => RestoreEnds
  /\ op = "log" => LogEnds
  /\ op = "log-list" => ListEnds
  /\ op = "ftp" => FtpEnds
  /\ op = "ftp-tree" => TreeInv

\* It says what the property says.
LEMMA EndsInvSuffices ==
  ASSUME op \in Ops, OutcomesInv, EndsInv
  PROVE  TransfersEnd
<1> USE DEF TransfersEnd, TypeOK, LogOps, ParamOps, MissionOps
<1>1. CASE op = "upload"
  <2>1. UploadEnds
    BY <1>1 DEF EndsInv
  <2>2. UploadIsBounded
    BY <2>1 DEF UploadEnds, UploadIsBounded, Budgets
  <2> QED BY <1>1, <2>1, <2>2 DEF UploadEnds
<1>2. CASE op = "download"
  <2>1. DownloadInv /\ DownloadEnds
    BY <1>2 DEF EndsInv, OutcomesInv
  <2>2. DownloadBudget \in Nat /\ DownloadBudget <= Budgets(HeldCount + 1) /\ Budgets(HeldCount + 1) \in Nat
    BY <2>1, WalkIsBounded
  <2>3. TransferTypeOK /\ TimersFollowThePhase
    BY <2>1, <2>2, WaitsIsTyped DEF DownloadEnds
  <2>4. DownloadIsBounded
    BY <2>1, <2>2 DEF DownloadEnds, Waits, DownloadIsBounded, Budgets
  <2> QED BY <1>2, <2>1, <2>3, <2>4 DEF DownloadEnds
<1>3. ASSUME OnceEnds
      PROVE  TransferTypeOK /\ TimersFollowThePhase /\ now <= Budget
  BY <1>3, BudgetsAre, WaitsIsTyped DEF OnceEnds, Waits
<1>4. CASE op \in {"clear", "set-current"}
  BY <1>3, <1>4 DEF EndsInv, SingleEnds
<1>5. CASE op = "param-read"
  BY <1>3, <1>5 DEF EndsInv, ReadEnds
<1>6. CASE op = "param-backup"
  <2>1. BackupInv /\ BackupEnds
    BY <1>6 DEF EndsInv, OutcomesInv
  <2>2. Backup \in Nat
    <3>1. tableSize \in Nat /\ streamed \in SUBSET ((0..MaxRetries) \X (0..tableSize))
      BY <2>1 DEF BackupInv, BackupEnds, ParamTypeOK
    <3> QED BY <3>1, StreamsAreCounted, WaitedIs DEF Backup
  <2>3. TransferTypeOK /\ TimersFollowThePhase
    BY <2>1, <2>2, WaitsIsTyped DEF BackupEnds
  <2> QED BY <1>6, <2>1, <2>3, BackupIsOver DEF BackupEnds
<1>7. CASE op = "param-restore"
  <2>1. RestoreInv /\ RestoreEnds
    BY <1>7 DEF EndsInv, OutcomesInv
  <2>2. index + 1 \in Nat /\ RestoreCount \in Nat /\ (Running => index + 1 <= RestoreCount)
    BY <2>1, ParamAssumption DEF RestoreInv, RestoreEnds, ParamTypeOK
  <2>3. TransferTypeOK /\ TimersFollowThePhase /\ now <= RestoreCount * Budget
    BY <2>1, <2>2, CountedIsOver DEF RestoreEnds
  <2> QED BY <1>7, <2>1, <2>3 DEF RestoreEnds, ParamRestoreIsBounded
<1>8. CASE op = "log"
  <2>1. LogEnds
    BY <1>8 DEF EndsInv
  <2>2. Asks \in Nat /\ MostAsks \in Nat /\ Asks <= MostAsks
    BY <2>1, AsksAre DEF LogEnds
  <2>3. TransferTypeOK /\ TimersFollowThePhase /\ now <= MostAsks * Budget
    BY <2>1, <2>2, CountedIsOver DEF LogEnds
  <2> QED BY <1>8, <2>1, <2>3 DEF LogEnds, LogDownloadIsBounded, MostAsks
<1>9. CASE op = "log-list"
  <2>1. ListEnds
    BY <1>9 DEF EndsInv
  <2>2. Cardinality(entries) \in Nat /\ Cardinality(entries) <= LogCount /\ LogCount \in Nat
    BY <2>1, EntriesAreCounted, LogAssumption DEF ListEnds, LogTypeOK
  <2>3. Cardinality(entries) + 1 \in Nat /\ LogCount + 1 \in Nat /\ Cardinality(entries) + 1 <= LogCount + 1
    BY <2>2
  <2>4. TransferTypeOK /\ TimersFollowThePhase /\ now <= (LogCount + 1) * Budget
    BY <2>1, <2>3, CountedIsOver DEF ListEnds
  <2> QED BY <1>9, <2>1, <2>4 DEF ListEnds, LogListIsBounded
<1>10. CASE op = "ftp"
  BY <1>10, FtpEndsSuffices DEF EndsInv
<1>11. CASE op = "ftp-tree"
  BY <1>11, TreeInvSuffices DEF EndsInv
<1> QED BY <1>1, <1>2, <1>4, <1>5, <1>6, <1>7, <1>8, <1>9, <1>10, <1>11, OpsAssumption

\* Before anything happens nothing has been waited for.
LEMMA NothingIsAwaited ==
  ASSUME Init, OutcomesInv
  PROVE  EndsInv
<1> USE UploadAssumption, DownloadAssumption, LogAssumption, ParamAssumption, FtpAssumption, BudgetAssumption
<1>1. /\ phase = "idle" /\ outcome = "none" /\ up = {} /\ step = NoStep /\ ~Running /\ ~(phase = "settled")
      /\ stepRetries = 0 /\ timer = Unarmed /\ deadline = Unarmed /\ now = 0 /\ refused = FALSE
  BY DEF Init, TransferInit, Running
<1>2. TransferTypeOK /\ TimersFollowThePhase /\ DeadlineIsArmed
  <2>1. 0 \in 0..MaxRetries
    OBVIOUS
  <2> QED BY <1>1, <2>1 DEF TransferTypeOK, TimersFollowThePhase, DeadlineIsArmed
<1>3. \A limit \in Nat : Waits(limit)
  <2>1. 0 \in 0..MaxRetries
    OBVIOUS
  <2>2. refused \in BOOLEAN
    BY <1>1
  <2> QED BY <1>1, <2>1, <2>2 DEF Waits
<1>4. \A n, most : Waits(Counted(n, most))
  BY <1>1, <1>3 DEF Counted
<1>5. OnceEnds
  BY <1>1, <1>3, BudgetsAre DEF OnceEnds
<1>6. op = "upload" => UploadEnds
  <2> HAVE op = "upload"
  <2>1. answered = {} /\ held = {} /\ down = {UploadAck("accepted")}
    BY DEF Init, UploadInit, UploadLink
  <2>2. Budgets(UploadCount + 1) \in Nat
    BY BudgetsAre, UploadCount + 1 \in Nat
  <2> QED BY <1>1, <1>2, <2>1, <2>2 DEF UploadEnds, UploadTypeOK, UploadAck
<1>7. MissionTypeOK
  <2>1. count = Unknown /\ expectedSeq = 0 /\ items = {} /\ done = FALSE
    BY DEF Init, MissionInit
  <2>2. 0 \in 0..HeldCount
    OBVIOUS
  <2> QED BY <1>1, <2>1, <2>2 DEF MissionTypeOK
<1>8. op = "download" => DownloadEnds
  BY <1>1, <1>3, <1>7, 0 \in Nat DEF DownloadEnds, DownloadBudget
<1>9. ParamTypeOK
  <2>1. /\ bytewise \in BOOLEAN /\ expected = NoCount /\ byIndex = {} /\ index = 0 /\ readValue = 0
        /\ tableSize \in TableSizes /\ grown = FALSE /\ streamed = {}
        /\ store = [id \in Ids |-> 0] /\ everHeld = {<<id, 0>> : id \in Ids}
    BY DEF Init, ParamInit
  <2>2. 0 \in 0..RestoreCount /\ 0 \in Values
    BY DEF Values
  <2>3. store \in [Ids -> Values] /\ everHeld \subseteq Ids \X Values
    BY <2>1, <2>2
  <2> QED BY <1>1, <2>1, <2>2, <2>3 DEF ParamTypeOK
<1>10. /\ op = "param-read" => ReadEnds
       /\ op = "param-restore" => RestoreEnds
  BY <1>1, <1>4, <1>5, <1>9 DEF ReadEnds, RestoreEnds
<1>11. op = "param-backup" => BackupEnds
  <2>1. Waits(Backup)
    BY <1>1, <1>3, 0 \in Nat DEF Backup
  <2>2. streamed = {}
    BY DEF Init, ParamInit
  <2> QED BY <1>1, <1>9, <2>1, <2>2 DEF BackupEnds
<1>12. /\ sized \in BOOLEAN /\ logSize \in LogSizes /\ logSize \in Nat /\ received = {} /\ eofSize = NoEnd
       /\ windowStart = 0 /\ requestEnd = WindowSize /\ entries = {} /\ endError = FALSE
  BY DEF Init, LogInit
<1>13. WindowSize \in Nat \ {0} /\ Aligned(0) /\ 0 \in 0..logSize /\ WindowSize \in 1..(logSize + WindowSize)
  <2>1. WindowSize \in Nat \ {0} /\ Aligned(0)
    BY PacketsAre
  <2> QED BY <1>12, <2>1
<1>14. LogTypeOK
  BY <1>1, <1>12, <1>13 DEF LogTypeOK
<1>15. LogData
  <2>1. Held({}, NoEnd)
    BY DEF Held, Whole
  <2> QED BY <1>1, <1>12, <1>13, <2>1 DEF LogData
<1>16. /\ op = "log" => LogEnds
       /\ op = "log-list" => ListEnds
  BY <1>4, <1>12, <1>14, <1>15 DEF LogEnds, ListEnds
<1>17. op = "ftp" => FtpEnds
  <2> HAVE op = "ftp"
  <2>1. FtpInv
    BY DEF OutcomesInv
  <2>2. fileSize = 0 /\ written = {} /\ chunks = <<>> /\ down = Earlier
    BY DEF Init, FtpInit, FtpLink
  <2>3. \A m \in Earlier : m.n = 1
    BY DEF Earlier, Reply
  <2>4. 0 \in 0..(FileSize + 1) /\ 1 \in 0..(FileSize + 1)
    OBVIOUS
  <2>5. WithinTheFile
    BY <2>2, <2>3, <2>4 DEF WithinTheFile
  <2> QED BY <1>4, <2>1, <2>5 DEF FtpEnds
<1>18. op = "ftp-tree" => TreeInv
  <2> HAVE op = "ftp-tree"
  <2>1. TreeInit
    BY DEF Init
  <2>2. TreeEnds
    BY <1>1, <1>2, <2>1 DEF TreeInit, TreeEnds
  <2> QED BY <1>1, <2>1, <2>2, TreeBegins DEF TreeInv
<1> QED BY <1>5, <1>6, <1>7, <1>8, <1>10, <1>11, <1>16, <1>17, <1>18, <1>1 DEF EndsInv, SingleEnds

\* A step of a tree is one of its machine.
LEMMA TreesStepsAreIts ==
  ASSUME [Next]_vars, op = "ftp-tree"
  PROVE  \/ TreeNext
         \/ TreeGoesOn
         \/ Tick /\ UNCHANGED treeVars
         \/ UNCHANGED <<transferVars, linkVars, treeVars>>
BY DEF Next, TimerFires, Pass, vars, machineVars, MissionOps

\* Each machine's steps keep it.
LEMMA EndsInvKeeps ==
  ASSUME NumbersSuffice, OutcomesInv, EndsInv, [Next]_vars
  PROVE  EndsInv'
<1>1. op' = op /\ OutcomesInv'
  BY StepsAreIts, OutcomesInvKeeps
<1>2. op = "upload" => UploadEnds'
  BY StepsAreIts, UploadEndsKeeps DEF EndsInv
<1>3. op = "download" => DownloadEnds'
  BY <1>1, StepsAreIts, DownloadEndsKeeps DEF EndsInv, OutcomesInv
<1>4. op \in {"clear", "set-current"} => SingleEnds'
  BY StepsAreIts, SingleEndsKeeps DEF EndsInv
<1>5. op = "param-backup" => BackupEnds'
  BY StepsAreIts, BackupEndsKeeps DEF EndsInv, OutcomesInv
<1>6. op = "param-read" => ReadEnds'
  BY StepsAreIts, ReadEndsKeeps DEF EndsInv, OutcomesInv
<1>7. op = "param-restore" => RestoreEnds'
  BY <1>1, StepsAreIts, RestoreEndsKeeps DEF EndsInv, OutcomesInv
<1>8. op = "log" => LogEnds'
  BY StepsAreIts, LogEndsKeeps DEF EndsInv, LogOps
<1>9. op = "log-list" => ListEnds'
  BY <1>1, StepsAreIts, ListEndsKeeps DEF EndsInv, OutcomesInv, LogOps
<1>10. op = "ftp" => FtpEnds'
  BY <1>1, StepsAreIts, FtpEndsKeeps DEF EndsInv, OutcomesInv
<1>11. op = "ftp-tree" => TreeInv'
  BY TreesStepsAreIts, TreeInvKeeps DEF EndsInv
<1> QED BY <1>1, <1>2, <1>3, <1>4, <1>5, <1>6, <1>7, <1>8, <1>9, <1>10, <1>11 DEF EndsInv

\* Timers and conversations end with the transfer, and the transfer with its
\* budget: one for each item, parameter, log or unit there is and for each of the
\* few requests beside them, whatever is lost, late or repeated, for any sizes and
\* timeouts.
THEOREM TransfersEndInTime == ASSUME NumbersSuffice PROVE Spec => []TransfersEnd
<1> DEFINE Inv == op \in Ops /\ OutcomesInv /\ EndsInv
<1>1. Init => Inv
  BY NothingIsTold, NothingIsAwaited DEF Init
<1>2. Inv /\ [Next]_vars => Inv'
  BY OutcomesInvKeeps, EndsInvKeeps, StepsAreIts
<1>3. Inv => TransfersEnd
  BY EndsInvSuffices
<1> QED BY <1>1, <1>2, <1>3, PTL DEF Spec

\* A log that is handed on is the vehicle's log, whatever came twice, late, short
\* or not at all; a tree of files that is backed up or put back is the whole tree,
\* in an order that serves, whichever order the vehicle lists it in and whatever
\* was in its place; and one that stopped says how far it came.  For logs, packets,
\* windows and trees of any size.
THEOREM DataStaysExact == Spec => []DataIsExact
<1> DEFINE LogInv == op = "log" => LogEnds /\ LogIsExact
           Inv == LogInv /\ (op = "ftp-tree" => TreeInv)
<1>1. Init => Inv
  <2> SUFFICES ASSUME Init
               PROVE  Inv
    OBVIOUS
  <2>1. OutcomesInv
    BY NothingIsTold
  <2>2. EndsInv
    BY <2>1, NothingIsAwaited
  <2>3. op = "log" => LogIsExact
    BY DEF Init, TransferInit, LogIsExact
  <2> QED BY <2>2, <2>3 DEF EndsInv
<1>2. Inv /\ [Next]_vars => Inv'
  <2> SUFFICES ASSUME Inv, [Next]_vars
               PROVE  Inv'
    OBVIOUS
  <2>1. op' = op
    BY StepsAreIts
  <2>2. op = "log" => LogEnds'
    BY StepsAreIts, LogEndsKeeps DEF LogOps
  <2>3. op = "log" => LogIsExact'
    BY <2>2, StepsAreIts, LogIsExactKeeps DEF LogOps
  <2>4. op = "ftp-tree" => TreeInv'
    BY TreesStepsAreIts, TreeInvKeeps
  <2> QED BY <2>1, <2>2, <2>3, <2>4
<1>3. Inv => DataIsExact
  BY TreeInvSuffices DEF DataIsExact
<1> QED BY <1>1, <1>2, <1>3, PTL DEF Spec
=================================================================================
