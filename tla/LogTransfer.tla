------------------------------ MODULE LogTransfer ------------------------------
(***************************************************************************)
(* Listing and downloading onboard logs (lib/log/transfer.js, list.js,     *)
(* download.js).  A download asks for a window of packets at a time, fills *)
(* the gaps the link leaves and stops at the end the vehicle, or the       *)
(* caller, names; however it settles, the vehicle is told to stop.         *)
(*                                                                         *)
(* Data is abstracted to offsets: received is the merged list of ranges as *)
(* the set of offsets it covers.  The vehicle is the environment: it       *)
(* streams what it is asked for, and the link loses, repeats and delays    *)
(* packets of any request, and of another log.                             *)
(***************************************************************************)
EXTENDS Transfer, FiniteSetsExt

CONSTANTS
  LogSizes,       \* sizes a log may have
  PacketSize,     \* LOG_DATA_BYTES: offsets in a full packet
  WindowPackets,  \* LOG_REQUEST_BYTES / LOG_DATA_BYTES
  LogCount        \* logs the vehicle advertises

ASSUME LogAssumption ==
  /\ LogSizes \subseteq Nat /\ LogCount \in Nat
  /\ PacketSize \in Nat \ {0} /\ WindowPackets \in Nat \ {0}

WindowSize == PacketSize * WindowPackets

\* Requests: the kind stands for the label of the step as well.
WindowRequest(ofs) == [kind |-> "log-window", ofs |-> ofs, size |-> WindowSize]
HoleRequest(ofs, size) == [kind |-> "log-hole", ofs |-> ofs, size |-> size]
ListRequest == [kind |-> "log-list"]
EndRequest == [kind |-> "log-end"]
Data(id, ofs, size) == [id |-> id, ofs |-> ofs, size |-> size]

OurLog == 1
OtherLog == 2
NoEnd == -1

VARIABLES
  sized,        \* the caller supplied the size: a choice, never changed
  logSize,      \* environment: offsets the log holds, never changed
  received,     \* offsets covered by _ranges
  eofSize,      \* the end the vehicle named, or NoEnd
  windowStart,
  requestEnd,   \* where the outstanding request ends
  entries,      \* ids of the list
  endError      \* LOG_REQUEST_END could not be sent

dataVars == <<received, eofSize, windowStart, requestEnd>>
logVars == <<sized, logSize, dataVars, entries, endError>>

windowEnd == windowStart + WindowSize

\* LogTransfer#_settle: whatever the outcome, the vehicle is told once.
LogSettle(how) ==
  /\ Settle(how)
  /\ \/ up' = up \cup {EndRequest} /\ UNCHANGED endError
     \/ SendMayThrow /\ endError' = TRUE /\ UNCHANGED up

\* _arm and _sendStep of a log transfer, whose abort settles as above.
LogSend(frame) ==
  \/ Transmit(frame, Unarmed) /\ UNCHANGED endError
  \/ SendMayThrow /\ LogSettle("send-failed")

LogStep(frame) == step' = frame /\ stepRetries' = 0 /\ LogSend(frame)

\* _noteProgress: a reply that is kept restarts the wait.
NoteProgress ==
  /\ stepRetries' = 0 /\ timer' = now + StepTimeout
  /\ UNCHANGED <<phase, outcome, deadline, step, up, endError>>

\* cancel(), which settles like the rest.
LogCancelled == Running /\ LogSettle("cancelled") /\ UNCHANGED <<stepVars, linkVars, sized, logSize, dataVars, entries>>

-----------------------------------------------------------------------------
(* Download *)

\* _knownEnd: the vehicle's word before the caller's.
KnownEnd(eof) == IF eof = NoEnd /\ sized THEN logSize ELSE eof

\* _maybeComplete: everything up to the known end is here.
Complete(got, eof) == KnownEnd(eof) # NoEnd /\ 0..(KnownEnd(eof) - 1) \subseteq got

\* _missingRange: the first hole of the window below the known end.
Limit(eof) == IF KnownEnd(eof) = NoEnd THEN windowEnd ELSE Min({KnownEnd(eof), windowEnd})
Missing(got, eof) == (windowStart..(Limit(eof) - 1)) \ got
Hole(got, eof) ==
  LET start == Min(Missing(got, eof))
      end == Min({o \in (start + 1)..Limit(eof) : o = Limit(eof) \/ o \in got})
  IN HoleRequest(start, end - start)

\* _windowComplete.
WindowComplete(got) == windowStart..(windowEnd - 1) \subseteq got

\* _request: a hole that is being asked for already is not asked for again.
AsksHole(got, eof) == Missing(got, eof) # {} /\ step # Hole(got, eof)
AsksWindow(got, eof) == Missing(got, eof) = {} /\ WindowComplete(got)

RequestWindow(ofs) ==
  windowStart' = ofs /\ requestEnd' = ofs + WindowSize /\ LogStep(WindowRequest(ofs))

\* _requestGap: the first hole, or the next window.
RequestGap(got, eof) ==
  \/ /\ AsksHole(got, eof)
     /\ UNCHANGED windowStart
     /\ requestEnd' = Hole(got, eof).ofs + Hole(got, eof).size
     /\ LogStep(Hole(got, eof))
  \/ AsksWindow(got, eof) /\ RequestWindow(windowEnd)

\* _settleSuccess.
LogDone == LogSettle("succeeded") /\ UNCHANGED <<stepVars, windowStart, requestEnd>>

\* _begin.
LogDownloadStarts ==
  /\ phase = "idle"
  /\ IF Complete({}, NoEnd) THEN LogDone ELSE RequestWindow(0)
  /\ UNCHANGED <<linkVars, sized, logSize, received, eofSize, entries>>

\* The vehicle names the end; what it names again changes nothing.
OnEof(ofs) ==
  /\ eofSize' = ofs /\ UNCHANGED received
  /\ \/ Complete(received, ofs) /\ LogDone
     \/ ~Complete(received, ofs) /\ RequestGap(received, ofs)
     \/ /\ ~Complete(received, ofs) /\ ~AsksHole(received, ofs) /\ ~AsksWindow(received, ofs)
        /\ UNCHANGED <<transferVars, windowStart, requestEnd, endError>>

\* Mutant: a short packet is taken for the last even where the end is known.
EndByAnyShort(end, size) == IF size < PacketSize THEN end ELSE eofSize

\* A short packet is taken for the last, unless the end is known.
EndBy(end, size) == IF size < PacketSize /\ ~sized THEN end ELSE eofSize

\* A packet with something new: the transfer is complete, or the outstanding
\* request has been answered and the next goes out, or more is awaited.
OnData(ofs, size) ==
  LET end == ofs + size
      got == received \cup ofs..(end - 1)
      eof == EndBy(end, size)
      asks == (size < PacketSize \/ end >= requestEnd) /\ (AsksHole(got, eof) \/ AsksWindow(got, eof))
  IN /\ got # received
     /\ received' = got /\ eofSize' = eof
     /\ \/ Complete(got, eof) /\ LogDone
        \/ ~Complete(got, eof) /\ asks /\ RequestGap(got, eof)
        \/ ~Complete(got, eof) /\ ~asks /\ NoteProgress /\ UNCHANGED <<windowStart, requestEnd>>

\* What the vehicle streams for a request: full packets up to the end of the
\* request or of the log, where a request that goes on meets the end mark.
\* Where the size is known from elsewhere, it may also read short.
Streamed(r) ==
  LET last == Min({r.ofs + r.size, logSize})
      full == {Data(OurLog, o, Min({PacketSize, last - o})) :
                 o \in {p \in r.ofs..(last - 1) : (p - r.ofs) % PacketSize = 0}}
      short == UNION {{Data(OurLog, m.ofs, s) : s \in 1..(m.size - 1)} : m \in full}
  IN full \cup (IF sized THEN short ELSE {})
          \cup (IF r.ofs + r.size > logSize THEN {Data(OurLog, logSize, 0)} ELSE {})

\* A packet is delivered: one of our requests, perhaps again, or of another log.
LogDownloadHears ==
  /\ Running
  /\ \E m \in {Data(OtherLog, 0, PacketSize)} \cup
              UNION {Streamed(r) : r \in {f \in up : f.kind \in {"log-window", "log-hole"}}} :
       /\ m.id = OurLog
       /\ IF m.size = 0 THEN OnEof(m.ofs) ELSE OnData(m.ofs, m.size)
  /\ UNCHANGED <<linkVars, sized, logSize, entries>>

\* _retryStep of a download: the first hole as it is now, or the next window.
LogDownloadTimesOut ==
  /\ TimedOut
  /\ \/ /\ Retries /\ Missing(received, eofSize) # {}
        /\ step' = Hole(received, eofSize) /\ LogSend(Hole(received, eofSize))
        /\ requestEnd' = Hole(received, eofSize).ofs + Hole(received, eofSize).size
     \/ Exhausted /\ LogSettle("stalled") /\ UNCHANGED <<stepVars, requestEnd>>
  /\ UNCHANGED <<linkVars, sized, logSize, received, eofSize, windowStart, entries>>

-----------------------------------------------------------------------------
(* List *)

LogListStarts ==
  /\ phase = "idle"
  /\ LogStep(ListRequest)
  /\ UNCHANGED <<linkVars, sized, logSize, dataVars, entries>>

\* An entry: the number of logs is the vehicle's word, and 0 of them an answer.
OnEntry(id) ==
  \/ /\ LogCount = 0
     /\ LogSettle("succeeded") /\ UNCHANGED <<stepVars, entries>>
  \/ /\ LogCount > 0 /\ id \notin entries
     /\ entries' = entries \cup {id}
     /\ IF Cardinality(entries') = LogCount THEN LogSettle("succeeded") /\ UNCHANGED stepVars
        ELSE NoteProgress

LogListHears ==
  /\ Running /\ ListRequest \in up
  /\ \E id \in 1..Max({LogCount, 1}) : OnEntry(id)
  /\ UNCHANGED <<linkVars, sized, logSize, dataVars>>

LogListTimesOut ==
  /\ TimedOut
  /\ \/ Retries /\ LogSend(ListRequest)
     \/ Exhausted /\ LogSettle("stalled") /\ UNCHANGED stepRetries
  /\ UNCHANGED <<step, linkVars, sized, logSize, dataVars, entries>>

-----------------------------------------------------------------------------
LogInit ==
  /\ sized \in BOOLEAN /\ logSize \in LogSizes
  /\ received = {} /\ eofSize = NoEnd
  /\ windowStart = 0 /\ requestEnd = WindowSize
  /\ entries = {} /\ endError = FALSE

LogDownloadNext ==
  \/ LogDownloadStarts
  \/ LogDownloadHears
  \/ LogCancelled

LogListNext ==
  \/ LogListStarts
  \/ LogListHears
  \/ LogCancelled

-----------------------------------------------------------------------------
(* Properties *)

LogFrames ==
  {ListRequest, EndRequest} \cup {WindowRequest(o) : o \in 0..logSize}
    \cup {HoleRequest(o, s) : o \in 0..logSize, s \in 1..WindowSize}

\* Every variable of a log transfer holds what its declaration says.
LogTypeOK ==
  /\ step \in LogFrames \cup {NoStep} /\ up \subseteq LogFrames
  /\ sized \in BOOLEAN /\ logSize \in LogSizes
  /\ received \subseteq 0..(logSize - 1) /\ eofSize \in (0..logSize) \cup {NoEnd}
  /\ windowStart \in 0..logSize /\ requestEnd \in 1..(logSize + WindowSize)
  /\ entries \subseteq 1..LogCount /\ endError \in BOOLEAN

\* A log that is handed on is the vehicle's log: all of it, and no shorter than
\* the vehicle or the caller said, whatever came twice, late, short or not at
\* all (download.js:42-92).
LogIsExact ==
  outcome = "succeeded" => KnownEnd(eofSize) = logSize /\ received = 0..(logSize - 1)

\* A list that is handed on names every log (list.js:26-62).
ListIsWhole == outcome = "succeeded" => entries = 1..LogCount

\* However a log transfer ends, the vehicle was told to stop streaming, or it
\* is reported that it could not be told (log/transfer.js:44-58).
VehicleIsReleased == phase = "settled" => EndRequest \in up \/ endError

\* What a download keeps starts the wait again, and so does the end mark where a
\* packet came since the last request; nothing else does, so it ends within a
\* budget for each of these, each window and the first end mark (download.js:60,
\* 102).
LogDownloadIsBounded == now <= (2 * logSize + logSize \div WindowSize + 2) * Budget

\* A list ends within a budget for each log and one for the request.
LogListIsBounded == now <= (LogCount + 1) * Budget
=============================================================================
