------------------------------- MODULE Transfers -------------------------------
(***************************************************************************)
(* The transfer machines, each on the one skeleton and alone on its link.  *)
(* A behaviour runs one of them, chosen at the start.                      *)
(***************************************************************************)
EXTENDS MissionTransfers, LogTransfer, ParamTransfer, FtpTransfer, FtpTree

CONSTANT Ops  \* the machines to run

MissionOps == {"upload", "download", "clear", "set-current"}
LogOps == {"log", "log-list"}
ParamOps == {"param-backup", "param-read", "param-restore"}

ASSUME OpsAssumption == Ops \subseteq MissionOps \cup LogOps \cup ParamOps \cup {"ftp", "ftp-tree"}

VARIABLE op  \* the machine this behaviour runs: a choice, never changed

machineVars == <<uploadVars, missionVars, logVars, paramVars, ftpVars, treeVars>>
vars == <<transferVars, linkVars, machineVars, op>>

\* The variables of the machines of the other families.
NotUpload == UNCHANGED <<missionVars, logVars, paramVars, ftpVars, treeVars>>
NotMission == UNCHANGED <<uploadVars, logVars, paramVars, ftpVars, treeVars>>
NotLog == UNCHANGED <<uploadVars, missionVars, paramVars, ftpVars, treeVars>>
NotParam == UNCHANGED <<uploadVars, missionVars, logVars, ftpVars, treeVars>>
NotFtp == UNCHANGED <<uploadVars, missionVars, logVars, paramVars, treeVars>>
NotTree == UNCHANGED <<uploadVars, missionVars, logVars, paramVars, ftpVars>>

\* A timer that is due fires: the step timer, the deadline of an upload, or the
\* last timer of a conversation in a tree; and the await of that one returns.
TimerFires ==
  /\ UNCHANGED op
  /\ \/ op \in MissionOps \cup {"param-backup", "param-read"} /\ StepTimesOut /\ UNCHANGED machineVars
     \/ op = "upload" /\ UploadDeadline /\ NotUpload
     \/ op = "log" /\ LogDownloadTimesOut /\ NotLog
     \/ op = "log-list" /\ LogListTimesOut /\ NotLog
     \/ op = "param-restore" /\ ParamRestoreTimesOut /\ NotParam
     \/ op = "ftp" /\ FtpTimesOut /\ NotFtp
     \/ op = "ftp-tree" /\ TreeGoesOn /\ NotTree

Pass == Tick /\ UNCHANGED <<machineVars, op>>

Init ==
  /\ op \in Ops
  /\ TransferInit /\ UploadInit /\ MissionInit /\ LogInit /\ ParamInit /\ FtpInit
  /\ op = "upload" => UploadLink
  /\ op = "ftp" => FtpLink
  /\ op \notin {"upload", "ftp"} => down = {}
  /\ IF op = "ftp-tree" THEN TreeInit
     ELSE /\ composite = "none" /\ tree = <<>> /\ recorded = <<>> /\ queue = <<>>
          /\ fetched = <<>> /\ restored = 0 /\ child = NoChild /\ fileSystem = <<>>
  /\ op # "ftp" => work = "list"
  /\ op # "log" => ~sized /\ logSize = Min(LogSizes)
  /\ op \notin ParamOps => bytewise
  /\ op # "param-backup" => tableSize = Min(TableSizes)

Next ==
  \/ /\ UNCHANGED op
     /\ \/ op = "upload" /\ UploadNext /\ NotUpload
        \/ op = "download" /\ DownloadNext /\ NotMission
        \/ op = "clear" /\ ClearNext /\ NotMission
        \/ op = "set-current" /\ SetCurrentNext /\ NotMission
        \/ op = "log" /\ LogDownloadNext /\ NotLog
        \/ op = "log-list" /\ LogListNext /\ NotLog
        \/ op = "param-backup" /\ ParamBackupNext /\ NotParam
        \/ op = "param-read" /\ ParamReadNext /\ NotParam
        \/ op = "param-restore" /\ ParamRestoreNext /\ NotParam
        \/ op = "ftp" /\ FtpNext /\ NotFtp
        \/ op = "ftp-tree" /\ TreeNext /\ NotTree
  \/ TimerFires
  \/ Pass

Spec == Init /\ [][Next]_vars

\* Due timers run and time passes; nothing is asked of the link or the vehicle.
FairSpec == Spec /\ WF_vars(TimerFires) /\ WF_vars(Pass)

-----------------------------------------------------------------------------
(* Properties *)

\* Every variable holds what its declaration says.
TypeOK ==
  /\ TransferTypeOK
  /\ op = "upload" => UploadTypeOK
  /\ op \in {"download", "clear", "set-current"} => MissionTypeOK
  /\ op \in LogOps => LogTypeOK
  /\ op \in ParamOps => ParamTypeOK
  /\ op = "ftp" => FtpTypeOK
  /\ op = "ftp-tree" => TreeTypeOK

\* Timers and conversations end with the transfer, and the transfer with its budget.
TransfersEnd ==
  /\ TypeOK
  /\ IF op = "ftp-tree" THEN NothingRunsAfter ELSE TimersFollowThePhase
  /\ op = "upload" => DeadlineIsArmed /\ UploadIsBounded
  /\ op = "download" => DownloadIsBounded
  /\ op \in {"clear", "set-current"} => now <= Budget
  /\ op = "log" => LogDownloadIsBounded
  /\ op = "log-list" => LogListIsBounded
  /\ op = "param-backup" => ParamBackupIsBounded
  /\ op = "param-read" => now <= Budget
  /\ op = "param-restore" => ParamRestoreIsBounded
  /\ op = "ftp" => FtpIsBounded

\* However a transfer ends, the vehicle is told that its stream or its session
\* is over (log/transfer.js:48-64, ftp/machine.js:528-590).
VehicleIsLeftFree ==
  /\ op \in LogOps => VehicleIsReleased
  /\ op = "ftp" => SessionsAreClosed

\* What is reported of a plan, of parameters, of the logs there are or of a
\* conversation about files is what the vehicle holds and did, and it is left
\* free (upload.js:152-195, download.js:99-148, param/backup.js:99-252,
\* log/list.js:26-62, ftp/machine.js:298-590).
OutcomeIsTrue ==
  /\ op \in {"upload", "download", "clear"} => RejectedMeansRefused
  /\ op = "upload" => SucceededMeansServed
  /\ op = "download" => DownloadIsExact
  /\ op \in {"clear", "set-current"} => SucceededMeansDone
  /\ op = "param-backup" => TableIsWhole
  /\ op = "param-read" => ReadIsTrue
  /\ op = "param-restore" => RestoredMeansTaken
  /\ op = "log-list" => ListIsWhole
  /\ op = "ftp" => FilesAreExact
  /\ VehicleIsLeftFree

\* A log, or a tree of files, is handed on and put back as it is: windows with
\* gaps and repeats make one whole log, and conversations one after another a
\* whole tree (log/download.js:37-84, ftp/machine.js:146-250).
DataIsExact ==
  /\ op = "log" => LogIsExact
  /\ op = "ftp-tree" => TreesAreExact /\ CountsAreTrue /\ AsksAreMet

\* A transfer left alone ends.
AlwaysSettles == Running ~> phase = "settled"
=============================================================================
