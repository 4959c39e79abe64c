--------------------------- MODULE MissionTransfers ---------------------------
(***************************************************************************)
(* The mission machines.                                                   *)
(*                                                                         *)
(* Uploading (lib/mission/upload.js): the count is declared, the vehicle   *)
(* asks for items in any order and form, and acknowledges.  Downloading    *)
(* (lib/mission/download.js): the list is requested, the count opens a     *)
(* walk over the items, and a last acknowledgement closes the transfer.    *)
(* Clearing a plan (lib/mission/clear.js) and selecting the current item   *)
(* (lib/mission/set-current.js) are single steps.                          *)
(*                                                                         *)
(* The vehicle is the environment.  It keeps what it receives and accepts  *)
(* when it holds everything, but it also asks again for what it has, asks  *)
(* for what does not exist, reports sequence errors and refuses.  It       *)
(* serves the mission it holds, and repeats itself; on the same link it    *)
(* serves a plan of another mission type to us, since locks only exclude   *)
(* transfers of one type, and items to stations that do not fill in whom   *)
(* they address.                                                           *)
(***************************************************************************)
EXTENDS Transfer

CONSTANT UploadCount  \* items to upload

ASSUME UploadAssumption == UploadCount \in Nat

UploadSeqs == 0..(UploadCount - 1)
Forms == {"int", "float"}
CountFrame == [kind |-> "count"]
ItemFrame(seq, form) == [kind |-> "item", seq |-> seq, form |-> form]
ItemRequest(seq, form) == [kind |-> "request", seq |-> seq, form |-> form]
UploadAck(type) == [kind |-> "ack", type |-> type]

VARIABLES
  answered,  \* distinct sequences answered
  held       \* environment: items the vehicle has

uploadVars == <<answered, held>>

\* start() and _begin(): declare the count, with the deadline armed first.
UploadStarts ==
  /\ phase = "idle"
  /\ Step(CountFrame, now + Budget)
  /\ UNCHANGED <<linkVars, uploadVars>>

\* Mutant: every answer counts as progress.
ProgressByAlways(seq) == now + Budget

\* The deadline once seq is answered: re-armed only for one never answered before.
ProgressBy(seq) == IF seq \in answered THEN deadline ELSE now + Budget

\* _answer: the item in the form it was asked in, or the transfer fails.
AnswerItem(seq, form) ==
  \/ /\ seq \notin UploadSeqs
     /\ Settle("out-of-range")
     /\ UNCHANGED <<answered, stepVars, up>>
  \/ /\ seq \in UploadSeqs
     /\ answered' = answered \cup {seq}
     /\ Step(ItemFrame(seq, form), ProgressBy(seq))

\* Everything declared was asked for at least once.
ExpectingAck == UploadCount = 0 \/ Cardinality(answered) >= UploadCount

\* _onAck: acceptance ends it, well or as a protocol error; a refusal ends it;
\* a sequence error is left to the step timer.
OnUploadAck(type) ==
  /\ \/ type = "accepted" /\ Settle(IF ExpectingAck THEN "succeeded" ELSE "protocol-error")
     \/ type = "error" /\ Settle("rejected")
     \/ type = "invalid_sequence" /\ UNCHANGED <<phase, outcome, timer, deadline>>
  /\ UNCHANGED <<up, answered, stepVars>>

\* A reply is delivered: only a running transfer listens.
UploadHears ==
  /\ Running
  /\ \/ \E r \in {m \in down : m.kind = "request"} : AnswerItem(r.seq, r.form)
     \/ \E a \in {m \in down : m.kind = "ack"} : OnUploadAck(a.type)
  /\ UNCHANGED <<linkVars, held>>

\* The no-progress deadline.
UploadDeadline ==
  /\ Running /\ deadline # Unarmed /\ now >= deadline
  /\ Settle("no-progress")
  /\ UNCHANGED <<stepVars, up, linkVars, uploadVars>>

-----------------------------------------------------------------------------
(* The vehicle of an upload *)

\* It asks for any item, again or for the first time, once it knows of the upload.
VehicleRequests ==
  /\ CountFrame \in up
  /\ \E seq \in 0..UploadCount, form \in Forms : Answers(ItemRequest(seq, form))
  /\ UNCHANGED uploadVars

VehicleStores ==
  /\ \E m \in up : m.kind = "item" /\ held' = held \cup {m.seq}
  /\ UNCHANGED <<transferVars, linkVars, answered>>

\* It accepts what it holds in full, reports a sequence error, or refuses.
VehicleAcksUpload ==
  /\ CountFrame \in up
  /\ \/ held = UploadSeqs /\ Answers(UploadAck("accepted"))
     \/ Answers(UploadAck("invalid_sequence"))
     \/ Says(UploadAck("error")) /\ refused' = TRUE
  /\ UNCHANGED uploadVars

-----------------------------------------------------------------------------
UploadInit == answered = {} /\ held = {}

\* An acceptance of an earlier transfer may still be on the link.
UploadLink == down = {UploadAck("accepted")}

UploadNext ==
  \/ UploadStarts
  \/ UploadHears
  \/ MissionCancelled /\ UNCHANGED uploadVars
  \/ VehicleRequests
  \/ VehicleStores
  \/ VehicleAcksUpload

-----------------------------------------------------------------------------
(* Properties of an upload *)

UploadFrames == {CountFrame, CancelFrame} \cup {ItemFrame(s, f) : s \in UploadSeqs, f \in Forms}

\* Every variable of an upload holds what its declaration says.
UploadTypeOK ==
  /\ step \in UploadFrames \cup {NoStep} /\ up \subseteq UploadFrames
  /\ answered \subseteq UploadSeqs /\ held \subseteq UploadSeqs

\* The deadline of a running upload is armed all along (upload.js:68).
DeadlineIsArmed == Running => deadline # Unarmed

\* Success is only reported when the vehicle asked for every declared item,
\* even if the acceptance of an earlier transfer arrives (upload.js:171-174).
SucceededMeansServed == outcome = "succeeded" => answered = UploadSeqs

\* An upload ends within one step budget per declared item and one for the
\* count, however the vehicle repeats its requests (upload.js:22-27).
UploadIsBounded == now <= (UploadCount + 1) * Budget

-----------------------------------------------------------------------------
(* Download, clear and set-current *)

CONSTANTS
  HeldCount,  \* items the vehicle holds
  OtherCount  \* items of the plan of the other type

ASSUME DownloadAssumption == HeldCount \in Nat /\ OtherCount \in Nat

Types == {"mission", "fence"}
OurType == "mission"
SizeOf(type) == IF type = OurType THEN HeldCount ELSE OtherCount

RequestList == [kind |-> "request-list"]
RequestItem(seq) == [kind |-> "request-item", seq |-> seq]
ClosingAck == [kind |-> "ack"]
ClearAll == [kind |-> "clear-all"]
SetCurrent(seq) == [kind |-> "set-current", seq |-> seq]

CountReply(type) == [kind |-> "count", type |-> type]
ItemReply(type, seq) == [kind |-> "item", type |-> type, seq |-> seq]
AckReply(type, result) == [kind |-> "ack", type |-> type, result |-> result]
CurrentReply(seq) == [kind |-> "current", seq |-> seq]

Unknown == -1

VARIABLES
  count,        \* the declared count, or Unknown
  expectedSeq,  \* the item being requested
  items,        \* what was received: sequences with the plan they came from
  done          \* environment: the vehicle cleared its plan, or took the current item

missionVars == <<count, expectedSeq, items, done>>
walkVars == <<count, expectedSeq, items>>

\* start() and _begin() of the three machines.
MissionStarts(frame) ==
  /\ phase = "idle"
  /\ Step(frame, Unarmed)
  /\ UNCHANGED <<linkVars, missionVars>>

\* The transfer is over: the closing ack goes out, or its send throws and the
\* reply handler aborts.
CloseDownload ==
  /\ \/ up' = up \cup {ClosingAck} /\ Settle("succeeded")
     \/ SendMayThrow /\ UNCHANGED up /\ Settle("reply-handling-failed")
  /\ UNCHANGED <<stepVars, expectedSeq>>

WalkTo(seq) == expectedSeq' = seq /\ Step(RequestItem(seq), Unarmed)

\* _onCount: the first count opens the walk, or ends it when there is nothing.
OnCount(type) ==
  /\ count = Unknown
  /\ count' = SizeOf(type)
  /\ UNCHANGED items
  /\ IF SizeOf(type) = 0 THEN CloseDownload ELSE WalkTo(0)

\* _onItem: the item that was asked for; anything else is left to the timer.
OnItem(type, seq) ==
  /\ count # Unknown /\ seq = expectedSeq
  /\ items' = items \cup {<<seq, type>>}
  /\ UNCHANGED count
  /\ IF seq = count - 1 THEN CloseDownload ELSE WalkTo(seq + 1)

\* Mutant: replies about any plan are taken.
TypeMatchesAny(m) == TRUE

\* _typeMatches: the reply is about the plan that was asked for.
TypeMatches(m) == m.type = OurType

\* A reply to a download is delivered and acted on; one that is ignored changes
\* nothing.  Of the acknowledgements only a refusal means anything.
DownloadHears ==
  /\ Running
  /\ \E m \in {r \in down : TypeMatches(r)} :
       \/ m.kind = "count" /\ OnCount(m.type)
       \/ m.kind = "item" /\ OnItem(m.type, m.seq)
       \/ /\ m.kind = "ack" /\ m.result = "error" /\ Settle("rejected")
          /\ UNCHANGED <<up, stepVars, walkVars>>
  /\ UNCHANGED <<linkVars, done>>

\* MissionClear#_onMessage: the acknowledgement of our type ends it either way.
ClearHears ==
  /\ Running
  /\ \E m \in {r \in down : TypeMatches(r)} :
       m.kind = "ack" /\ Settle(IF m.result = "accepted" THEN "succeeded" ELSE "rejected")
  /\ UNCHANGED <<up, stepVars, linkVars, missionVars>>

\* MissionSetCurrent#_onMessage: a status that shows the item asked for.
CurrentConfirms(m) == m.kind = "current" /\ SetCurrent(m.seq) = step

SetCurrentHears ==
  /\ Running
  /\ \E m \in down : CurrentConfirms(m) /\ Settle("succeeded")
  /\ UNCHANGED <<up, stepVars, linkVars, missionVars>>

-----------------------------------------------------------------------------
(* The vehicle of a download, a clear and a selection *)

VehicleCounts ==
  /\ RequestList \in up
  /\ \E type \in Types : Answers(CountReply(type))
  /\ UNCHANGED missionVars

\* It serves what we or, unaddressed, another station asked for, and the other
\* plan to whoever reads that.
VehicleServes ==
  /\ RequestList \in up
  /\ \E type \in Types : \E seq \in 0..(SizeOf(type) - 1) : Answers(ItemReply(type, seq))
  /\ UNCHANGED missionVars

\* It refuses, or it acknowledges what other transfers of ours do.
VehicleAcks ==
  /\ up # {}
  /\ \/ Says(AckReply(OurType, "error")) /\ refused' = TRUE
     \/ RequestList \in up /\ Answers(AckReply(OurType, "invalid_sequence"))
     \/ \E result \in {"accepted", "error"} : Answers(AckReply("fence", result))
  /\ UNCHANGED missionVars

VehicleClears ==
  /\ ClearAll \in up
  /\ done' = TRUE /\ Answers(AckReply(OurType, "accepted"))
  /\ UNCHANGED walkVars

\* It flies on to items of its own accord and reports where it is, and goes to
\* the one that was asked for.
VehicleReportsCurrent ==
  \E seq \in {0, 1} :
    /\ SetCurrent(1) \in up
    /\ Answers(CurrentReply(seq)) /\ done' = (done \/ seq = 1)
    /\ UNCHANGED walkVars

-----------------------------------------------------------------------------
MissionInit == count = Unknown /\ expectedSeq = 0 /\ items = {} /\ done = FALSE

DownloadNext ==
  \/ MissionStarts(RequestList)
  \/ DownloadHears
  \/ VehicleCounts
  \/ VehicleServes
  \/ VehicleAcks
  \/ MissionCancelled /\ UNCHANGED missionVars

ClearNext ==
  \/ MissionStarts(ClearAll)
  \/ ClearHears
  \/ VehicleClears
  \/ VehicleAcks
  \/ MissionCancelled /\ UNCHANGED missionVars

SetCurrentNext ==
  \/ MissionStarts(SetCurrent(1))
  \/ SetCurrentHears
  \/ VehicleReportsCurrent
  \/ Cancelled /\ UNCHANGED missionVars

-----------------------------------------------------------------------------
(* Properties of a download, a clear and a selection *)

MissionFrames ==
  {RequestList, ClosingAck, CancelFrame, ClearAll, SetCurrent(1)}
    \cup {RequestItem(s) : s \in 0..(HeldCount + OtherCount)}

\* Every variable of a mission transfer holds what its declaration says.
MissionTypeOK ==
  /\ step \in MissionFrames \cup {NoStep} /\ up \subseteq MissionFrames
  /\ count \in {Unknown, HeldCount}
  /\ expectedSeq \in 0..HeldCount
  /\ items \subseteq (0..HeldCount) \X Types
  /\ done \in BOOLEAN

\* What is handed to the flow as a mission is the vehicle's mission: every item,
\* once, of the type asked for, though counts and items repeat, come out of order and
\* belong to other plans (download.js:100-148).
DownloadIsExact == outcome = "succeeded" => items = (0..(HeldCount - 1)) \X {OurType}

\* A repeated count restarts nothing: the walk ends within one step budget per
\* item and one for the count (download.js:101-107).
DownloadIsBounded == now <= (HeldCount + 1) * Budget

\* A clear that is reported done was done, and so was a selection, though
\* acknowledgements of other plans and statuses of other items arrive
\* (clear.js:28-38, set-current.js:54-58).
SucceededMeansDone == outcome = "succeeded" => done
===============================================================================
