-------------------------------- MODULE FtpTree --------------------------------
(***************************************************************************)
(* Backup and restore of a tree of files (lib/ftp/machine.js): one machine *)
(* that runs conversations one after another, a listing of each directory  *)
(* and a download of each file, or a directory to make and a file to       *)
(* upload for each that was recorded.                                      *)
(*                                                                         *)
(* A conversation is seen by how it ends and by what the vehicle is left   *)
(* with; FtpTransfer is the conversation itself.  A path is a sequence of  *)
(* names, and the data of a file is the path it was recorded under.        *)
(***************************************************************************)
EXTENDS Transfer, SequencesExt

CONSTANTS
  Names,     \* names in a directory
  TreeSize   \* bound: directories and files of a tree

ASSUME TreeAssumption == Names \subseteq Nat \ {0} /\ IsFiniteSet(Names) /\ TreeSize \in Nat

Root == <<0>>  \* this._path
Dot == 0       \* the names "." and ".."

\* remotePath.join: "." joined to a directory is the directory.
Join(directory, name) == IF name = Dot THEN directory ELSE Append(directory, name)

TreePaths == [1..1 -> Names] \cup [1..2 -> Names]
Trees ==
  {t \in UNION {[ps -> {"directory", "file"}] :
                  ps \in {ps \in SUBSET TreePaths : Cardinality(ps) <= TreeSize}} :
     \A p \in DOMAIN t :
       Len(p) > 1 => Front(p) \in DOMAIN t /\ t[Front(p)] = "directory"}

PathsOf(t, kind) == {p \in DOMAIN t : t[p] = kind}

\* What the vehicle has at a path.
Directory == [kind |-> "directory", data |-> <<>>]
FileOf(data) == [kind |-> "file", data |-> data]
Other == FileOf(<<>>)  \* a file of other data, or part of one

NoChild == [work |-> "none"]

VARIABLES
  composite,   \* "backup" or "restore": a choice, never changed
  tree,        \* the tree to back up, or that was: a choice, never changed
  recorded,    \* its directories and files in order: the result, or the input
  queue,       \* directories left to list
  fetched,     \* data of the files downloaded
  restored,    \* directories and files restored, the root among them
  child,       \* the conversation that is awaited, and how it ended
  fileSystem   \* environment: what the vehicle has, by absolute path

treeVars == <<composite, tree, recorded, queue, fetched, restored, child, fileSystem>>
treeChoices == <<composite, tree>>

\* What the skeleton keeps of a conversation of its own: this machine has none.
NoStepOfItsOwn == UNCHANGED <<stepVars, up, linkVars>>
Goes == phase' = "running" /\ UNCHANGED <<outcome, timer, deadline>>

\* _startChild.
StartChild(work, path) ==
  child' = [work |-> work, path |-> path, ends |-> "running", found |-> <<>>, data |-> <<>>]

\* _settle, with childOutcome when it is a conversation that failed.
TreeSettles(how) == Settle(how) /\ child' = NoChild

-----------------------------------------------------------------------------
(* Backup *)

\* What a listing names, in its order: traversal names are left out.
Found(kind) ==
  LET OfKind(e) == e.kind = kind /\ e.name # Dot
      found[n \in 0..Len(child.found)] ==
        IF n = 0 THEN <<>>
        ELSE IF OfKind(child.found[n])
             THEN Append(found[n - 1], Join(Tail(child.path), child.found[n].name))
             ELSE found[n - 1]
  IN found[Len(child.found)]

\* The next directory, then the next file, then the result.
BackupGoesOn(directories, files, left, got) ==
  /\ recorded' = [directories |-> directories, files |-> files]
  /\ fetched' = got /\ UNCHANGED restored
  /\ \/ left # <<>> /\ StartChild("list", Root \o Head(left)) /\ queue' = Tail(left) /\ Goes
     \/ /\ left = <<>> /\ queue' = <<>>
        /\ IF Len(got) < Len(files)
           THEN StartChild("download", Root \o files[Len(got) + 1]) /\ Goes
           ELSE TreeSettles("succeeded")

\* _beginBackup, after a conversation that succeeded.
BackedUp ==
  LET directories == recorded.directories \o Found("directory")
      files == recorded.files \o Found("file")
  IN \/ child.work = "list" /\ BackupGoesOn(directories, files, queue \o Found("directory"), fetched)
     \/ child.work = "download"
        /\ BackupGoesOn(recorded.directories, recorded.files, queue, Append(fetched, child.data))

-----------------------------------------------------------------------------
(* Restore *)

\* What is restored after the root: directories, then files.
Plan == recorded.directories \o recorded.files

RestoreGoesOn ==
  LET next == Root \o Plan[restored + 1] IN
  /\ restored' = restored + 1 /\ UNCHANGED <<recorded, queue, fetched>>
  /\ IF restored = Len(Plan) THEN TreeSettles("succeeded")
     ELSE /\ StartChild(IF restored < Len(recorded.directories) THEN "create-directory" ELSE "upload", next)
          /\ Goes

\* _restoreDirectory: a name that is taken is a directory if it can be listed.
TakenIsListed ==
  /\ composite = "restore" /\ child.ends = "exists"
  /\ StartChild("list", child.path) /\ Goes
  /\ UNCHANGED <<recorded, queue, fetched, restored>>

-----------------------------------------------------------------------------
(* The machine *)

\* _begin.
TreeStarts ==
  /\ phase = "idle" /\ Goes
  /\ StartChild(IF composite = "backup" THEN "list" ELSE "create-directory", Root)
  /\ NoStepOfItsOwn /\ UNCHANGED <<treeChoices, recorded, queue, fetched, restored, fileSystem>>

ChildEnded == child # NoChild /\ child.ends # "running"

\* "if (this._settled) return", after every await.
MayGoOn == Running

\* The await returns, in a turn of its own.
TreeContinues ==
  /\ ChildEnded
  /\ \/ ~MayGoOn /\ child' = NoChild
        /\ UNCHANGED <<phase, outcome, timer, deadline, recorded, queue, fetched, restored>>
     \/ MayGoOn /\ TakenIsListed
     \/ MayGoOn /\ child.ends = "succeeded" /\ composite = "backup" /\ BackedUp
     \/ MayGoOn /\ child.ends = "succeeded" /\ composite = "restore" /\ RestoreGoesOn
     \/ MayGoOn /\ child.ends = "failed" /\ TreeSettles("failed")
        /\ UNCHANGED <<recorded, queue, fetched, restored>>
  /\ NoStepOfItsOwn /\ UNCHANGED <<treeChoices, fileSystem>>

\* cancel: the conversation too, unless it has ended already.
TreeCancelled ==
  /\ Running
  /\ Settle("cancelled")
  /\ child' = [child EXCEPT !.ends = IF @ = "running" THEN "cancelled" ELSE @]
  /\ NoStepOfItsOwn /\ UNCHANGED <<treeChoices, recorded, queue, fetched, restored, fileSystem>>

-----------------------------------------------------------------------------
(* The conversations, and the vehicle *)

ChildRuns(work) == child.work = work /\ child.ends = "running"
ChildEnds(how) == child' = [child EXCEPT !.ends = how]
VehicleHas(content) ==
  fileSystem' = [p \in DOMAIN fileSystem \cup {child.path} |->
                   IF p = child.path THEN content ELSE fileSystem[p]]
HasAt(path) == IF path \in DOMAIN fileSystem THEN fileSystem[path].kind ELSE "nothing"
HasParent(path) == path = Root \/ HasAt(Front(path)) = "directory"
Alone == UNCHANGED <<transferVars, linkVars, treeChoices, recorded, queue, fetched, restored>>

\* Refused, unanswered or not sent.
ChildFails ==
  /\ child # NoChild /\ child.ends = "running" /\ ChildEnds("failed")
  /\ UNCHANGED fileSystem /\ Alone

\* The entries in any order, beside the traversal names.
ChildLists ==
  /\ ChildRuns("list") /\ HasAt(child.path) = "directory"
  /\ LET inside == {p \in DOMAIN fileSystem : Len(p) > 1 /\ Front(p) = child.path}
         Entry(p) == [name |-> Last(p), kind |-> fileSystem[p].kind]
     IN \E order \in SetToSeqs({Entry(p) : p \in inside}) :
          child' = [child EXCEPT !.ends = "succeeded",
                                 !.found = <<[name |-> Dot, kind |-> "directory"]>> \o order]
  /\ UNCHANGED fileSystem /\ Alone

ChildDownloads ==
  /\ ChildRuns("download") /\ HasAt(child.path) = "file"
  /\ child' = [child EXCEPT !.ends = "succeeded", !.data = fileSystem[child.path].data]
  /\ UNCHANGED fileSystem /\ Alone

\* A conversation that failed may have written some, or all of it.
ChildUploads ==
  /\ ChildRuns("upload") /\ HasParent(child.path) /\ HasAt(child.path) # "directory"
  /\ \/ VehicleHas(FileOf(Tail(child.path))) /\ \E how \in {"succeeded", "failed"} : ChildEnds(how)
     \/ VehicleHas(Other) /\ ChildEnds("failed")
  /\ Alone

\* A request that was executed may be refused when it is repeated, or time out.
ChildMakesDirectory ==
  /\ ChildRuns("create-directory") /\ HasParent(child.path)
  /\ \/ HasAt(child.path) = "nothing" /\ VehicleHas(Directory)
        /\ \E how \in {"succeeded", "exists", "failed"} : ChildEnds(how)
     \/ HasAt(child.path) # "nothing" /\ ChildEnds("exists") /\ UNCHANGED fileSystem
  /\ Alone

-----------------------------------------------------------------------------
\* The vehicle that has the tree, at the root.
Absolute(t) ==
  [p \in {Root} \cup {Root \o q : q \in DOMAIN t} |->
     IF p = Root \/ t[Tail(p)] = "directory" THEN Directory ELSE FileOf(Tail(p))]

\* What the vehicle may have before a restore: nothing, a file in the place of
\* the root, or the root with files and directories of the same names in it.
Before ==
  LET inside == SUBSET {Root \o <<n>> : n \in Names}
  IN [{} -> {Other}] \cup [{Root} -> {Other}] \cup
     {held \in UNION {[{Root} \cup ps -> {Directory, Other}] : ps \in inside} :
        held[Root] = Directory}

\* As a backup records it: parents first.
AsRecorded(t, kind) ==
  CHOOSE s \in SetToSeqs(PathsOf(t, kind)) :
    \A i, j \in DOMAIN s : i < j => Len(s[i]) <= Len(s[j])

TreeInit ==
  /\ tree \in Trees
  /\ queue = <<>> /\ fetched = <<>> /\ restored = 0 /\ child = NoChild
  /\ \/ composite = "backup" /\ fileSystem = Absolute(tree) /\ recorded = [directories |-> <<>>, files |-> <<>>]
     \/ /\ composite = "restore" /\ fileSystem \in Before
        /\ recorded = [directories |-> AsRecorded(tree, "directory"), files |-> AsRecorded(tree, "file")]

TreeNext ==
  \/ TreeStarts
  \/ TreeCancelled
  \/ ChildLists
  \/ ChildDownloads
  \/ ChildUploads
  \/ ChildMakesDirectory

\* What happens whatever the vehicle does: an await returns, and a conversation
\* that is not answered runs out of retries.
TreeGoesOn == TreeContinues \/ ChildFails

-----------------------------------------------------------------------------
(* Properties *)

\* Every variable of a composite transfer holds what its declaration says.
TreeTypeOK ==
  /\ composite \in {"backup", "restore"} /\ tree \in Trees
  /\ {Len(recorded.directories), Len(recorded.files), Len(queue), Len(fetched)} \subseteq 0..TreeSize
  /\ restored \in 0..(TreeSize + 1)
  /\ child = NoChild \/ child.ends \in {"running", "succeeded", "exists", "failed", "cancelled"}

\* The paths of a sequence are those of a set, each once.
Lists(s, paths) == Len(s) = Cardinality(paths) /\ {s[i] : i \in DOMAIN s} = paths

HasAsRecorded(p) ==
  LET at == Root \o p IN at \in DOMAIN fileSystem /\ fileSystem[at] = Absolute(tree)[at]

\* A backup that succeeded has every directory and file of the tree once, parents
\* before children and each file with its own data; after a restore that
\* succeeded the vehicle has all of it, whatever was in its place before
\* (ftp/machine.js:148-250).
TreesAreExact ==
  outcome = "succeeded" =>
    /\ Lists(recorded.directories, PathsOf(tree, "directory"))
    /\ Lists(recorded.files, PathsOf(tree, "file"))
    /\ \A i, j \in DOMAIN recorded.directories :
         i < j => Len(recorded.directories[i]) <= Len(recorded.directories[j])
    /\ composite = "backup" => fetched = recorded.files
    /\ composite = "restore" => \A p \in DOMAIN tree : HasAsRecorded(p)

\* What a restore says it restored is on the vehicle, and no file beyond the next
\* one: one that failed or was cancelled stopped there.
CountsAreTrue ==
  composite = "restore" =>
    /\ \A i \in 1..(restored - 1) : HasAsRecorded(Plan[i])
    /\ \A i \in (restored + 1)..Len(Plan) : tree[Plan[i]] = "file" => ~HasAsRecorded(Plan[i])

\* A vehicle that answers is never asked for what it cannot do: a backup asks for
\* what was listed, by its whole path, and a restore for no child before its
\* parent (ftp/machine.js:163-178, 224-250).
AsksAreMet ==
  child # NoChild =>
    /\ composite = "backup" =>
         HasAt(child.path) = IF child.work = "list" THEN "directory" ELSE "file"
    /\ composite = "restore" => HasParent(child.path)

\* No conversation is left running by a transfer that is over, and none starts
\* afterwards: a cancel may come between the end of one and the next
\* (ftp/machine.js:79-84, 157, 185, 212).
NothingRunsAfter == phase = "settled" => child = NoChild \/ child.ends # "running"
=============================================================================
