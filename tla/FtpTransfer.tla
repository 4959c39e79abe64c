------------------------------ MODULE FtpTransfer ------------------------------
(***************************************************************************)
(* One MAVLink FTP conversation (lib/ftp/machine.js): listing a directory, *)
(* reading a file, writing one, making a directory.  Requests are numbered *)
(* and answered one at a time; a session that was opened is terminated     *)
(* before the outcome is reported.                                         *)
(*                                                                         *)
(* Data is abstracted to its position: unit n of a file, entry n of a      *)
(* directory.  The vehicle is the environment: it executes a request once  *)
(* and repeats its reply to a resend, reads and writes short, misstates    *)
(* sizes, refuses, answers malformed and forgets sessions.                 *)
(***************************************************************************)
EXTENDS Transfer, Sequences, FiniteSetsExt

CONSTANTS
  FileSize,  \* units of the file, or entries of the directory
  MaxData    \* MAX_DATA_BYTES: units in a request or a reply

ASSUME FtpAssumption == FileSize \in Nat /\ MaxData \in Nat \ {0}

SEQUENCE_STEP == 2
SeqSpace == 2^16
FirstSequence == SeqSpace - 2  \* the conversation may be numbered across the wrap

FtpWorks == {"list", "download", "upload", "create-directory"}
Opens == {"open", "create"}  \* opcodes that open a session
NoSession == -1
OurSession == 1
NotPending == "none"

Request(opcode, of, ofs, size, seq) ==
  [opcode |-> opcode, session |-> of, ofs |-> ofs, size |-> size, seq |-> seq]

\* A reply echoes what it answers and carries a count: entries, units read, the
\* size of the file, units written.  A refusal names a reason.
OurFile == 1
OtherFile == 2
Reply(request, of, says, file, n) ==
  [seq |-> (request.seq + 1) % SeqSpace, opcode |-> request.opcode, session |-> of,
   ofs |-> request.ofs, says |-> says, file |-> file, n |-> n]
Refusals == {"eof", "refused"}

VARIABLES
  work,       \* the operation: a choice, never changed
  nextSeq,    \* nextSequenceNumber, shared by all conversations
  session,    \* the session the machine knows of, or NoSession
  fileSize,   \* the size the open acknowledgement gave
  offset,     \* units, or entries, transferred
  chunks,     \* what was read or listed, in order
  cleanup,    \* the outcome that waits for the session to be terminated
  opened,     \* history: the machine knew of a session
  untold,     \* history: the vehicle could not be told to terminate it
  handled,    \* environment: sequence numbers the vehicle executed
  served,     \* environment: the session the vehicle has open, or NoSession
  written     \* environment: units of the file, or the directory, it has

conversationVars == <<nextSeq, session, fileSize, offset, chunks, cleanup, opened, untold>>
serverVars == <<handled, served, written>>
ftpVars == <<work, conversationVars, serverVars>>
contentVars == <<fileSize, offset, chunks>>

\* takeSequence, called n times.
Later(n) == (nextSeq + n * SEQUENCE_STEP) % SeqSpace

-----------------------------------------------------------------------------
(* Settling *)

\* _cleanupFailed: what a conversation ends as.
WithoutCleanup(how) == IF how = "succeeded" THEN "cleanup-failed" ELSE how

\* Mutant: a session is only terminated after success.
SettleThenLeaves(how, taken, known) ==
  /\ session' = NoSession
  /\ \/ /\ known # NoSession /\ how = "succeeded"
        /\ step' = Request("terminate", known, 0, 0, Later(taken)) /\ stepRetries' = 0
        /\ nextSeq' = Later(taken + 1)
        /\ Transmit(step', Unarmed) /\ cleanup' = how /\ UNCHANGED untold
     \/ /\ known = NoSession \/ how # "succeeded"
        /\ Settle(how) /\ nextSeq' = Later(taken) /\ UNCHANGED <<up, stepVars, cleanup, untold>>

\* _settle, after taken sequence numbers: with a session open the vehicle is
\* asked to terminate it and the outcome waits, or the send throws.
SettleThen(how, taken, known) ==
  /\ session' = NoSession
  /\ \/ /\ known # NoSession
        /\ step' = Request("terminate", known, 0, 0, Later(taken)) /\ stepRetries' = 0
        /\ nextSeq' = Later(taken + 1)
        /\ \/ Transmit(step', Unarmed) /\ cleanup' = how /\ UNCHANGED untold
           \/ /\ SendMayThrow /\ Settle(WithoutCleanup(how)) /\ untold' = TRUE
              /\ UNCHANGED <<up, cleanup>>
     \/ /\ known = NoSession
        /\ Settle(how) /\ nextSeq' = Later(taken) /\ UNCHANGED <<up, stepVars, cleanup, untold>>

\* _cleanupSucceeded, _cleanupFailed.
CleanupEnds(how) ==
  /\ Settle(how) /\ cleanup' = NotPending
  /\ UNCHANGED <<up, stepVars, nextSeq, session, untold>>

\* _finish.
Finish == SettleThen("succeeded", 0, session) /\ UNCHANGED opened

\* _fail: during the cleanup it is the cleanup that failed.
Fail(how) ==
  /\ \/ cleanup = NotPending /\ SettleThen(how, 0, session)
     \/ cleanup # NotPending /\ CleanupEnds(WithoutCleanup(cleanup))
  /\ UNCHANGED <<contentVars, opened>>

\* _sendRequest: a new number and a step of its own, or a send that throws and
\* fails the conversation.
SendRequest(opcode, known, ofs, size) ==
  LET request == Request(opcode, IF known = NoSession THEN 0 ELSE known, ofs, size, nextSeq) IN
  /\ opened' = (opened \/ known # NoSession)
  /\ \/ /\ step' = request /\ stepRetries' = 0 /\ Transmit(request, Unarmed)
        /\ nextSeq' = Later(1) /\ session' = known /\ UNCHANGED <<cleanup, untold>>
     \/ SendMayThrow /\ SettleThen("send-failed", 1, known)

-----------------------------------------------------------------------------
(* The conversation *)

FirstOpcode == [w \in FtpWorks |->
  CASE w = "list" -> "list" [] w = "download" -> "open"
    [] w = "upload" -> "create" [] w = "create-directory" -> "make-directory"]

\* _begin.
FtpStarts ==
  /\ phase = "idle"
  /\ SendRequest(FirstOpcode[work], NoSession, 0, 0)
  /\ UNCHANGED <<linkVars, work, contentVars, serverVars>>

\* _sendRead, _sendWrite.
SendRead(known, size, ofs) ==
  SendRequest("read", known, ofs, IF ofs < size THEN Min({MaxData, size - ofs}) ELSE MaxData)
SendWrite(known, ofs) == SendRequest("write", known, ofs, Min({MaxData, FileSize - ofs}))

\* What a reply carries: the units at its offset.
Content(m) == [i \in 1..m.n |-> <<m.file, m.ofs + i - 1>>]

\* _listAck: a page, and the next from where it ended.
OnPage(m) ==
  /\ chunks' = chunks \o Content(m) /\ offset' = offset + m.n /\ UNCHANGED fileSize
  /\ SendRequest("list", NoSession, offset', 0)

\* _openAck.
OnOpened(m) ==
  /\ fileSize' = m.n /\ offset' = 0 /\ chunks' = <<>>
  /\ SendRead(m.session, m.n, 0)

\* _readAck.
OnRead(m) ==
  /\ chunks' = chunks \o Content(m) /\ offset' = offset + m.n /\ UNCHANGED fileSize
  /\ SendRead(session, fileSize, offset')

\* _createAck: an empty file is complete with it.
OnCreated(m) ==
  /\ offset' = 0 /\ UNCHANGED <<fileSize, chunks>>
  /\ IF FileSize = 0 THEN SettleThen("succeeded", 0, m.session) /\ opened' = TRUE
     ELSE SendWrite(m.session, 0)

\* _writeAck: the next units go out from where the vehicle says it got to.
OnWritten(m) ==
  /\ offset' = offset + m.n /\ UNCHANGED <<fileSize, chunks>>
  /\ IF offset' >= FileSize THEN Finish ELSE SendWrite(session, offset')

\* _handleAck.
OnAck(m) ==
  \/ m.opcode = "list" /\ OnPage(m)
  \/ m.opcode = "open" /\ OnOpened(m)
  \/ m.opcode = "read" /\ OnRead(m)
  \/ m.opcode = "create" /\ OnCreated(m)
  \/ m.opcode = "write" /\ OnWritten(m)
  \/ m.opcode = "make-directory" /\ Finish /\ UNCHANGED contentVars
  \/ m.opcode = "terminate" /\ CleanupEnds(cleanup) /\ UNCHANGED <<contentVars, opened>>

\* _handleNak: the end of a listing or a file is how it completes.
OnNak(m) ==
  \/ m.says = "eof" /\ m.opcode \in {"list", "read"} /\ Finish /\ UNCHANGED contentVars
  \/ ~(m.says = "eof" /\ m.opcode \in {"list", "read"}) /\ Fail("refused")

\* _responseMatches.
ResponseMatches(m) ==
  /\ m.seq = (step.seq + 1) % SeqSpace
  /\ m.opcode = step.opcode
  /\ step.opcode \in Opens \/ m.session = step.session
  /\ m.says \in Refusals \/ m.ofs = step.ofs

\* _onMessage: a reply of the vehicle is delivered, perhaps again.
FtpHears ==
  /\ Running
  /\ \E m \in down :
       /\ ResponseMatches(m)
       /\ \/ m.says = "ack" /\ OnAck(m)
          \/ m.says = "malformed" /\ Fail("protocol-error")
          \/ m.says \in Refusals /\ OnNak(m)
  /\ UNCHANGED <<linkVars, work, serverVars>>

\* _onTimeout: the request again under its own number, or the conversation fails.
FtpTimesOut ==
  /\ TimedOut
  /\ \/ /\ Retries /\ Transmit(step, Unarmed)
        /\ UNCHANGED <<step, conversationVars>>
     \/ stepRetries < MaxRetries /\ SendMayThrow /\ Fail("send-failed")
     \/ Exhausted /\ Fail("timed-out")
  /\ UNCHANGED <<linkVars, work, serverVars>>

\* cancel: an open session is terminated without waiting for the answer; a
\* cleanup under way is abandoned.
FtpCancelled ==
  /\ Running
  /\ Settle("cancelled") /\ cleanup' = NotPending /\ session' = NoSession
  /\ \/ /\ session # NoSession /\ nextSeq' = Later(1)
        /\ \/ up' = up \cup {Request("terminate", session, 0, 0, nextSeq)} /\ UNCHANGED untold
           \/ SendMayThrow /\ untold' = TRUE /\ UNCHANGED up
     \/ session = NoSession /\ UNCHANGED <<up, nextSeq, untold>>
  /\ UNCHANGED <<stepVars, linkVars, work, contentVars, opened, serverVars>>

-----------------------------------------------------------------------------
(* The vehicle *)

\* A request is executed once, answered once and the reply is kept.
Executes(request, reply) ==
  /\ handled' = handled \cup {request.seq}
  /\ Answers(reply)
  /\ UNCHANGED <<work, conversationVars>>

Asked(opcode) == {r \in up : r.opcode = opcode /\ r.seq \notin handled}
Acks(r, n) == Reply(r, r.session, "ack", OurFile, n)

VehicleRefuses ==
  /\ \E r \in {r \in up : r.seq \notin handled}, says \in {"refused", "malformed"} :
       Executes(r, Reply(r, r.session, says, OurFile, 0))
  /\ UNCHANGED <<served, written>>

\* Entries from the offset on, as many as it likes, until there are none.
VehicleLists ==
  /\ \E r \in Asked("list") :
       \/ \E n \in 1..Min({MaxData, FileSize - r.ofs}) : Executes(r, Acks(r, n))
       \/ r.ofs >= FileSize /\ Executes(r, Reply(r, r.session, "eof", OurFile, 0))
  /\ UNCHANGED <<served, written>>

\* A session, and the size of the file: the truth, or what it was.
VehicleOpens ==
  /\ \E r \in Asked("open"), size \in {0, FileSize, FileSize + 1} :
       Executes(r, Reply(r, OurSession, "ack", OurFile, size))
  /\ served' = OurSession /\ UNCHANGED written

VehicleCreates ==
  /\ \E r \in Asked("create") : Executes(r, Reply(r, OurSession, "ack", OurFile, 0))
  /\ served' = OurSession /\ written' = {}

\* Reads and writes may be short.
VehicleReads ==
  /\ \E r \in Asked("read") :
       /\ served = r.session
       /\ \/ \E n \in 1..Min({r.size, FileSize - r.ofs}) : Executes(r, Acks(r, n))
          \/ r.ofs >= FileSize /\ Executes(r, Reply(r, r.session, "eof", OurFile, 0))
  /\ UNCHANGED <<served, written>>

VehicleWrites ==
  /\ \E r \in Asked("write") :
       /\ served = r.session
       /\ \E n \in 1..r.size :
            Executes(r, Acks(r, n)) /\ written' = written \cup r.ofs..(r.ofs + n - 1)
  /\ UNCHANGED served

VehicleMakesDirectory ==
  /\ \E r \in Asked("make-directory") : Executes(r, Acks(r, 0))
  /\ written' = {0} /\ UNCHANGED served

VehicleTerminates ==
  /\ \E r \in Asked("terminate") : served = r.session /\ Executes(r, Acks(r, 0))
  /\ served' = NoSession /\ UNCHANGED written

\* It restarts, or lets the session expire.
VehicleForgets ==
  /\ served # NoSession /\ served' = NoSession
  /\ UNCHANGED <<transferVars, linkVars, work, conversationVars, handled, written>>

-----------------------------------------------------------------------------
\* The last replies of an earlier conversation, about another file.
Earlier ==
  {Reply(Request(o, IF o = "list" THEN 0 ELSE OurSession, 0, 1, FirstSequence - SEQUENCE_STEP),
         IF o = "list" THEN 0 ELSE OurSession, "ack", OtherFile, 1) :
     o \in {"list", "open", "read", "write", "terminate"}}

FtpInit ==
  /\ work \in FtpWorks
  /\ nextSeq = FirstSequence
  /\ session = NoSession /\ fileSize = 0 /\ offset = 0 /\ chunks = <<>>
  /\ cleanup = NotPending /\ opened = FALSE /\ untold = FALSE
  /\ handled = {} /\ served = NoSession /\ written = {}

FtpLink == down = Earlier

FtpNext ==
  \/ FtpStarts
  \/ FtpHears
  \/ FtpCancelled
  \/ VehicleRefuses
  \/ VehicleLists
  \/ VehicleOpens
  \/ VehicleCreates
  \/ VehicleReads
  \/ VehicleWrites
  \/ VehicleMakesDirectory
  \/ VehicleTerminates
  \/ VehicleForgets

-----------------------------------------------------------------------------
(* Properties *)

\* Every variable of a conversation holds what its declaration says.
FtpTypeOK ==
  /\ work \in FtpWorks
  /\ nextSeq \in 0..(SeqSpace - 1)
  /\ session \in {NoSession, OurSession} /\ served \in {NoSession, OurSession}
  /\ fileSize \in 0..(FileSize + 1) /\ offset \in 0..FileSize
  /\ chunks \in Seq({OurFile, OtherFile} \X (0..FileSize))
  /\ opened \in BOOLEAN /\ untold \in BOOLEAN
  /\ written \subseteq 0..FileSize

\* What a conversation reports is what the vehicle has: the entries and the data
\* are those of this path, each once and in order, though reads are short, sizes
\* misstated and replies old; what was written is all there
\* (ftp/machine.js:341-355, 415-503).
FilesAreExact ==
  outcome = "succeeded" =>
    /\ work \in {"list", "download"} => chunks = [i \in 1..FileSize |-> <<OurFile, i - 1>>]
    /\ work = "upload" => written = 0..(FileSize - 1)
    /\ work = "create-directory" => written = {0}

\* No session is left open: success waits for the vehicle to have closed it, and
\* every other end at least asked for it or could not (ftp/machine.js:528-589).
SessionsAreClosed ==
  phase = "settled" =>
    /\ outcome = "succeeded" => served = NoSession
    /\ opened => untold \/ \E r \in up : r.opcode = "terminate"

\* Requests of a conversation that goes on: one for each entry or unit at most,
\* the end, and one each to open and to terminate.
FtpIsBounded == now <= (FileSize + 3) * Budget
=============================================================================
