----------------------------- MODULE ParamTransfer -----------------------------
(***************************************************************************)
(* Parameters (lib/param/backup.js and the matching of index.js): backing  *)
(* up the whole table, reading one parameter, restoring saved ones one at  *)
(* a time, each confirmed by the value the vehicle echoes.                 *)
(*                                                                         *)
(* The vehicle is the environment.  It streams its table once for every    *)
(* request that reaches it, and the table may grow while it does; it takes *)
(* a value, keeps another or refuses; other stations set values as well,   *)
(* and everybody hears every echo.                                         *)
(***************************************************************************)
EXTENDS Transfer

CONSTANTS
  TableSizes,   \* sizes the vehicle's table may have at first
  RestoreCount  \* parameters to restore

ASSUME ParamAssumption == TableSizes \subseteq Nat /\ RestoreCount \in Nat

\* A float32 holds all values but the last, which becomes the one before
\* (16777216 and 16777217, say).
Values == {0, 1, 2}
Float(v) == IF v = 2 THEN 1 ELSE v
Wanted == 2

Ids == 1..RestoreCount
Unlisted == 65535
NoCount == -1

TableRequest == [kind |-> "param-list"]
ReadRequest(id) == [kind |-> "param-read", id |-> id]
SetRequest(id) == [kind |-> "param-set", id |-> id]
Value(id, v) == [id |-> id, value |-> v]

VARIABLES
  bytewise,   \* the encoding, rather than c-cast: a choice, never changed
  expected,   \* the count the first PARAM_VALUE advertised, or NoCount
  byIndex,    \* indices collected
  index,      \* parameters of the restore that are confirmed
  readValue,  \* what a read returned
  tableSize,  \* environment: the size of the table
  grown,      \* environment: it grew by one
  streamed,   \* environment: frames of each stream that were delivered
  store,      \* environment: the vehicle's values
  everHeld    \* environment, history: the values it ever held

tableVars == <<expected, byIndex, tableSize, grown, streamed>>
storeVars == <<store, everHeld>>
paramVars == <<bytewise, tableVars, index, readValue, storeVars>>

\* What a value becomes on the wire.
Wire(v) == IF bytewise THEN v ELSE Float(v)

-----------------------------------------------------------------------------
(* Backup *)

ParamBackupStarts ==
  /\ phase = "idle"
  /\ Step(TableRequest, Unarmed)
  /\ UNCHANGED <<linkVars, paramVars>>

\* The frame is a member of the list whose size was advertised first.
MemberOf(i, size) == i # Unlisted /\ i < size

\* createParamListCollector#accept and ParamBackup#_onMessage: the first count
\* is pinned; a member re-arms the timer, a member or not of the rest, until
\* all are here.
OnParamValue(i, advertised) ==
  LET size == IF expected = NoCount THEN advertised ELSE expected
      got == byIndex \cup {i}
  IN /\ expected' = size
     /\ \/ size = 0 /\ Settle("succeeded") /\ UNCHANGED byIndex
        \/ size > 0 /\ ~MemberOf(i, size) /\ UNCHANGED <<phase, outcome, timer, deadline, byIndex>>
        \/ /\ size > 0 /\ MemberOf(i, size) /\ byIndex' = got
           /\ IF Cardinality(got) < size
              THEN timer' = now + StepTimeout /\ UNCHANGED <<phase, outcome, deadline>>
              ELSE Settle("succeeded")

\* A frame of the stream of the n-th request, each delivered once at most, or
\* the echo of somebody's set.  It advertises the size as it was or as it is.
ParamBackupHears ==
  /\ Running
  /\ \E advertised \in {tableSize} \cup (IF grown THEN {tableSize + 1} ELSE {}) :
       \/ \E n \in 0..stepRetries, i \in 0..(advertised - 1) :
            /\ <<n, i>> \notin streamed
            /\ streamed' = streamed \cup {<<n, i>>}
            /\ OnParamValue(i, advertised)
       \/ OnParamValue(Unlisted, advertised) /\ UNCHANGED streamed
  /\ UNCHANGED <<up, stepVars, linkVars, bytewise, tableSize, grown, index, readValue, storeVars>>

TableGrows ==
  /\ ~grown /\ grown' = TRUE
  /\ UNCHANGED <<transferVars, linkVars, bytewise, expected, byIndex, tableSize, streamed,
                 index, readValue, storeVars>>

-----------------------------------------------------------------------------
(* Read and restore *)

ParamReadStarts ==
  /\ phase = "idle"
  /\ Step(ReadRequest(1), Unarmed)
  /\ UNCHANGED <<linkVars, paramVars>>

\* matchesParamReadReply and ParamRead#_onMessage.
ParamReadHears ==
  /\ Running
  /\ \E m \in down : m.id = 1 /\ readValue' = m.value
  /\ Settle("succeeded")
  /\ UNCHANGED <<up, stepVars, linkVars, bytewise, tableVars, index, storeVars>>

\* _begin: the first parameter goes out, unless there is nothing to restore.
ParamRestoreStarts ==
  /\ phase = "idle"
  /\ IF RestoreCount = 0 THEN Settle("succeeded") /\ UNCHANGED <<up, stepVars>>
     ELSE Step(SetRequest(1), Unarmed)
  /\ UNCHANGED <<linkVars, paramVars>>

\* numericEqual: exactly where the wire is exact, as floats where it is not.
SameValue(v) == IF bytewise THEN v = Wanted ELSE Float(v) = Float(Wanted)

\* matchesParamEcho and ParamRestore#_onMessage: the echo of the current
\* parameter confirms it and the next goes out.
ParamRestoreHears ==
  /\ Running
  /\ \E m \in down : m.id = index + 1 /\ SameValue(m.value)
  /\ index' = index + 1
  /\ IF index' = RestoreCount THEN Settle("succeeded") /\ UNCHANGED <<up, stepVars>>
     ELSE Step(SetRequest(index' + 1), Unarmed)
  /\ UNCHANGED <<linkVars, bytewise, tableVars, readValue, storeVars>>

\* ParamRestore#_onStepExhausted: silence does not say that it was not taken.
ParamRestoreTimesOut ==
  /\ TimedOut
  /\ \/ Retries /\ SendStep(step, Unarmed)
     \/ Exhausted /\ Settle("unconfirmed") /\ UNCHANGED <<up, stepRetries>>
  /\ UNCHANGED <<step, linkVars, paramVars>>

-----------------------------------------------------------------------------
(* The vehicle *)

\* A value is stored and told to everybody.
Holds(id, v) ==
  /\ store' = [store EXCEPT ![id] = v]
  /\ everHeld' = everHeld \cup {<<id, v>>}
  /\ Answers(Value(id, Wire(v)))
  /\ UNCHANGED <<bytewise, tableVars, index, readValue>>

\* It takes the value as it came, puts it into its limits, or keeps its own;
\* other stations set values too.
VehicleTakes == \E id \in Ids : SetRequest(id) \in up /\ Holds(id, Wire(Wanted))
VehicleHolds == \E id \in Ids, v \in Values \ {Wanted} : Holds(id, v)
VehicleTells == \E id \in Ids : Holds(id, store[id])

-----------------------------------------------------------------------------
ParamInit ==
  /\ bytewise \in BOOLEAN
  /\ expected = NoCount /\ byIndex = {}
  /\ index = 0 /\ readValue = 0
  /\ tableSize \in TableSizes /\ grown = FALSE /\ streamed = {}
  /\ store = [id \in Ids |-> 0] /\ everHeld = {<<id, 0>> : id \in Ids}

ParamBackupNext ==
  \/ ParamBackupStarts
  \/ ParamBackupHears
  \/ TableGrows
  \/ Cancelled /\ UNCHANGED paramVars

ParamReadNext ==
  \/ ParamReadStarts
  \/ ParamReadHears
  \/ VehicleHolds
  \/ VehicleTells
  \/ Cancelled /\ UNCHANGED paramVars

ParamRestoreNext ==
  \/ ParamRestoreStarts
  \/ ParamRestoreHears
  \/ VehicleTakes
  \/ VehicleHolds
  \/ VehicleTells
  \/ Cancelled /\ UNCHANGED paramVars

-----------------------------------------------------------------------------
(* Properties *)

ParamFrames == {TableRequest, ReadRequest(1)} \cup {SetRequest(id) : id \in Ids}

\* Every variable of a parameter transfer holds what its declaration says.
ParamTypeOK ==
  /\ step \in ParamFrames \cup {NoStep} /\ up \subseteq ParamFrames
  /\ bytewise \in BOOLEAN /\ grown \in BOOLEAN /\ tableSize \in TableSizes
  /\ expected \in {NoCount, tableSize, tableSize + 1}
  /\ byIndex \subseteq 0..tableSize
  /\ index \in 0..RestoreCount /\ readValue \in Values
  /\ streamed \subseteq (0..MaxRetries) \X (0..tableSize)
  /\ store \in [Ids -> Values] /\ everHeld \subseteq Ids \X Values

\* A table that is handed on is whole: every index below the count that the
\* vehicle advertised, though frames repeat, echoes mix in and the table grows
\* (param/index.js:216-273).
TableIsWhole == outcome = "succeeded" => byIndex = 0..(expected - 1)

\* What a read hands on is a value that parameter had.
ReadIsTrue == outcome = "succeeded" => \E v \in Values : <<1, v>> \in everHeld /\ readValue = Wire(v)

\* A restored parameter was taken: the vehicle held exactly the value as the
\* encoding carries it, not one that merely looks alike (param/index.js:77-107),
\* and a restore only succeeds with all of them.
RestoredMeansTaken ==
  /\ \A id \in 1..index : \E v \in Values : <<id, v>> \in everHeld /\ Wire(v) = Wire(Wanted)
  /\ outcome = "succeeded" => index = RestoreCount

\* Every member re-arms the wait of a backup but only a request spends retries,
\* so it ends once the streams of all requests have passed (backup.js:97-107).
ParamBackupIsBounded == now <= (MaxRetries + 1) * (tableSize + 2) * StepTimeout

\* A restore ends within a budget for each parameter.
ParamRestoreIsBounded == now <= RestoreCount * Budget
=============================================================================
