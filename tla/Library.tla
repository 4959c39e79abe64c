-------------------------------- MODULE Library --------------------------------
(***************************************************************************)
(* What the nodes read from disk, what the editor shows of it, and what the *)
(* forms that are filled in there stand for on the wire.                    *)
(***************************************************************************)
EXTENDS Integers, Sequences, FiniteSets, TLC

CONSTANTS None, Empty, NaN

VARIABLES part,                    \* which of the parts this behaviour is about
          library, entry, bundle,  \* one compilation (DialectLibrary)
          head, seed, snaps, compiled, packed, memo, updates, node, first, \* DialectLibrary
          profile, holding, request, query, was, \* ParamDefs
          conns, saved, valid, stack, live, options, pending, touched, refill, changes, \* EditorDialogs
          form, kept, disclosed, vehicle, edits, \* Moves
          asked, target            \* Addressing

-----------------------------------------------------------------------------
(* The libraries that are compiled *)

Include(names) == [i \in DOMAIN names |-> [tag |-> "include", name |-> names[i]]]
Messages(ms)   == <<[tag |-> "messages", of |-> ms]>>
Enums(es)      == <<[tag |-> "enums", of |-> es]>>
Version(n)     == <<[tag |-> "version", number |-> n]>>
Message(n, id, fields) == [name |-> n, id |-> id, children |-> fields]
Enum(n, bits, entries) == [name |-> n, bitmask |-> bits, detail |-> None, entries |-> entries]
Upto(n, S)     == UNION {[1..k -> S] : k \in 0..n}
Distinct(names) == \A i, j \in DOMAIN names : names[i] = names[j] => i = j

\* Every include graph of three files, one name of them not provided.
Graphs3 ==
  {[entry |-> "a", library |-> [n \in {"a", "b", "c"} |-> Include(f[n])]] :
     f \in [{"a", "b", "c"} -> {names \in Upto(2, {"a", "b", "c", "missing"}) : Distinct(names)}]}

\* The chain a -> b -> c with the diamond a -> c, and what each file says.
Chain(a, b, c) ==
  [entry |-> "a", library |-> ("a" :> Include(<<"b", "c">>) \o a @@ "b" :> Include(<<"c">>) \o b @@ "c" :> c)]

Definitions == {Message(n, id, << >>) : n \in {"M", "N"}, id \in {1, 2}}
Merges ==
  {Chain(Messages(a), Messages(b), Messages(c)) :
     a \in Upto(1, Definitions), b \in Upto(1, Definitions), c \in Upto(2, Definitions)}

Values == {[form |-> "plain", sign |-> 1, digits |-> 2], [form |-> "power", sign |-> 1, digits |-> 1],
           [form |-> "plain", sign |-> -1, digits |-> 2]}
Entries(details) == {[name |-> n, value |-> v, detail |-> x] : n \in {"X", "Y"}, v \in Values, x \in details}
EnumMerges ==
  {Chain(Enums(<<Enum("MAV_CMD", FALSE, a)>>), Enums(<<Enum("MAV_CMD", bits, b)>>), Enums(<<Enum("MAV_CMD", FALSE, c)>>)) :
     a \in Upto(1, Entries({"a"})), b \in Upto(1, Entries({"b", None})), c \in Upto(2, Entries({"c"})), bits \in BOOLEAN}

Children == {[tag |-> "extensions"]}
            \cup {[tag |-> "field", enum |-> e, display |-> x, special |-> s] :
                    e \in {None, "E", "undeclared"}, x \in {None, "hex"}, s \in BOOLEAN}
FieldCases ==
  {Chain(Version(v) \o Enums(<<Enum("E", TRUE, << >>)>>), Messages(<<Message("M", 1, f)>>), Enums(<<Enum("E", FALSE, << >>)>>)) :
     v \in {1, 2}, f \in Upto(2, Children)}

\* A message that two files define, each with a version of its own.
OverrideCases ==
  {Chain(Version(v) \o Messages(<<Message("M", 1, f)>>), Messages(<<Message("M", 2, g)>>), Enums(<<Enum("E", TRUE, << >>)>>)) :
     v \in {1, 3}, f \in Upto(2, Children), g \in Upto(1, Children)}

DialectCases == Graphs3 \cup Merges \cup EnumMerges \cup FieldCases \cup OverrideCases

-----------------------------------------------------------------------------
(* The definitions upstream, commit by commit, and the profiles *)

Text(n, includes) == [text |-> n, includes |-> includes]
Commit1 == "base" :> Text(1, << >>) @@ "ext" :> Text(1, <<"base">>) @@ "solo" :> Text(1, << >>)
Commit2 == "base" :> Text(2, << >>) @@ "ext" :> Text(2, <<"base", "solo">>) @@ "solo" :> Text(2, << >>)
Definitions3 == <<Commit1, Commit2, Commit1>>

Pick(d, r) == [dialect |-> d, revision |-> r]
Profiles == {<<Pick("solo", 0), Pick("ext", 0)>>, <<Pick("solo", 0), Pick("ext", 1)>>, <<Pick("ext", 2)>>}

L == INSTANCE DialectLibrary
       WITH Names <- {"a", "b", "c", "missing", "base", "ext", "solo", "_profile"}, Null <- None,
            Cases <- DialectCases, Upstream <- Definitions3, Picks <- Profiles,
            Updaters <- {"u1", "u2"}, MaxSnaps <- 2

-----------------------------------------------------------------------------
(* The parameter documents *)

Bit(n) == [bit |-> n, label |-> "bit"]
Value(n) == [value |-> n, label |-> "value"]
Switch == [name |-> "SW", type |-> "INT32", short_desc |-> "a switch", code |-> << >>, boolean |-> TRUE, bit |-> << >>]
Flags  == [name |-> "FLAGS", type |-> "INT32", short_desc |-> "flags", long_desc |-> "all flags", unit |-> "u",
           min |-> 0, code |-> << >>, boolean |-> FALSE, bit |-> <<Bit(4), Bit(0), Bit(40)>>]
Gain   == [name |-> "thr_max", type |-> "DOUBLE", long_desc |-> "gain", max |-> 2, increment |-> 1,
           code |-> <<Value(-1), Value(1)>>, boolean |-> TRUE, bit |-> << >>]
Px4Xml == [form |-> "xml", root |-> "parameters", groups |-> <<<<Switch, Flags>>, <<Gain>>>>]
Page   == [form |-> "xml", root |-> "html"]
ApmJson ==
  [form |-> "ardupilot",
   entries |-> <<[name |-> "ArduCopter", entry |-> [version |-> "4"],
                  nested |-> <<[name |-> "thr_max", entry |-> [Description |-> "throttle", Range |-> <<0, NaN>>]],
                               [name |-> "THR_MAX", entry |-> [documentation |-> "", humanName |-> "throttle",
                                                               Range |-> <<0, 8>>, Values |-> <<Value(0)>>]]>>],
                 [name |-> "MODE", entry |-> [DisplayName |-> "mode", Units |-> "m", Bitmask |-> <<Bit(NaN), Bit(3), Bit(1)>>],
                  nested |-> << >>]>>]
Other  == [form |-> "other"]

Def(text, n) == [description |-> text, unit |-> "", min |-> n, max |-> None, increment |-> None,
                 values |-> <<Value(n)>>, bits |-> None, type |-> None]
SeedOf ==
  [ardupilot |-> [ArduCopter |-> [MODE |-> Def("mode", 1)], Rover |-> [MODE |-> Def("mode", 2), CRUISE |-> Def("speed", 3)]],
   px4 |-> [default |-> [SW |-> Def("switch", 0)]]]
FamilyOf == [copter |-> "ArduCopter", rover |-> "Rover", boat |-> "Rover"]

Asked(v, firmware, family) == [vehicle |-> v, firmware |-> firmware, family |-> family]
Asking == {Asked(TRUE, None, None), Asked(FALSE, "ardupilot", "unknown"), Asked(TRUE, "ardupilot", "boat"),
           Asked(TRUE, "px4", None), Asked(FALSE, None, None)}

P == INSTANCE ParamDefs
       WITH Null <- None, Updates <- {"u1", "u2"}, Published <- {Px4Xml, Page, ApmJson, Other},
            SeedDocs <- SeedOf, Families <- FamilyOf, Queries <- Asking

-----------------------------------------------------------------------------
(* The nodes in the editor *)

Config(delivery, dialect, c, i, component, command) ==
  [delivery |-> delivery, dialect |-> dialect, vehicle |-> "v2", connection |-> c, identity |-> i,
   action |-> "read", targetComponent |-> component, advancedCommand |-> command]
Saved2 ==
  {[n1 |-> Config("confirm", "", "k1", "gcs", "1", "GO"), n2 |-> Config("build", d, "k2", i, "", "STOP")] :
     d \in {"common", "__vehicle"}, i \in {"", "pi"}}

E == INSTANCE EditorDialogs
       WITH Null <- None, DialectOf <- [v1 |-> "common", v2 |-> "all"], SysidOf <- [v1 |-> 1, v2 |-> 255],
            Roles <- [gcs |-> [role |-> "gcs", sysid |-> 255, compid |-> 190],
                      pi |-> [role |-> "companion", sysid |-> 0, compid |-> 190]],
            ConnsAtOpen <- [k1 |-> [vehicle |-> "v1", ids |-> <<"gcs", "pi">>], k2 |-> [vehicle |-> "v2", ids |-> <<"gcs">>]],
            ConnEdits <- {[vehicle |-> "v2", ids |-> <<"gcs", "pi">>], [vehicle |-> "v1", ids |-> <<"pi">>]},
            SavedAtOpen <- Saved2, CatalogOf <- [common |-> <<"1", "GO">>, all |-> <<"STOP", "GO">>],
            Matches <- [go |-> [GO |-> "exact", STOP |-> "none"] @@ ("1" :> "none"),
                        o |-> [GO |-> "contains", STOP |-> "contains"] @@ ("1" :> "described")],
            MaxChanges <- 3

M == INSTANCE Moves WITH Undefined <- None, Blank <- Empty, MaxEdits <- 4
A == INSTANCE Addressing WITH Undefined <- None, Blank <- Empty

-----------------------------------------------------------------------------
evars == <<conns, saved, valid, stack, live, options, pending, touched, refill, changes>>
NoEditor == conns = << >> /\ saved = << >> /\ valid = << >> /\ stack = << >> /\ live = << >> /\ options = << >>
            /\ pending = {} /\ touched = {} /\ refill = FALSE /\ changes = 0
dvars == <<library, entry, bundle>>
lvars == <<head, seed, snaps, compiled, packed, memo, updates, node, first>>
pvars == <<profile, holding, request, query, was>>
mvars == <<form, kept, disclosed, vehicle, edits>>
avars == <<asked, target>>
NoMoves == form = None /\ kept = None /\ disclosed = {} /\ vehicle = None /\ edits = 0
NoAddress == asked = None /\ target = None
NoDialects == library = << >> /\ entry = None /\ bundle = None
NoLibrary == head = 0 /\ seed = 0 /\ snaps = << >> /\ compiled = << >> /\ packed = 0 /\ memo = << >>
             /\ updates = << >> /\ node = None /\ first = << >>
NoDefs == profile = None /\ holding = None /\ request = << >> /\ query = None /\ was = {}

CompilesOnce == part = "compile" /\ L!Compile /\ UNCHANGED <<part, lvars, pvars, evars, mvars, avars>>
LibrarySteps == part = "library" /\ L!LibraryNext /\ UNCHANGED <<part, dvars, pvars, evars, mvars, avars>>
DefsSteps == part = "defs" /\ P!DefsNext /\ UNCHANGED <<part, dvars, lvars, evars, mvars, avars>>
EditorSteps == part = "editor" /\ E!EditorNext /\ UNCHANGED <<part, dvars, lvars, pvars, mvars, avars>>
MoveSteps == part = "move" /\ M!MovesNext /\ UNCHANGED <<part, dvars, lvars, pvars, evars, avars>>
AddressSteps == part = "address" /\ A!Addresses /\ UNCHANGED <<part, dvars, lvars, pvars, evars, mvars>>

Init == \/ part = "compile" /\ L!CompileInit /\ NoLibrary /\ NoDefs /\ NoEditor /\ NoMoves /\ NoAddress
        \/ part = "library" /\ L!LibraryInit /\ NoDialects /\ NoDefs /\ NoEditor /\ NoMoves /\ NoAddress
        \/ part = "defs" /\ P!DefsInit /\ NoDialects /\ NoLibrary /\ NoEditor /\ NoMoves /\ NoAddress
        \/ part = "editor" /\ E!EditorInit /\ NoDialects /\ NoLibrary /\ NoDefs /\ NoMoves /\ NoAddress
        \/ part = "move" /\ M!MovesInit /\ NoDialects /\ NoLibrary /\ NoDefs /\ NoEditor /\ NoAddress
        \/ part = "address" /\ A!AddressingInit /\ NoDialects /\ NoLibrary /\ NoDefs /\ NoEditor /\ NoMoves
Next == CompilesOnce \/ LibrarySteps \/ DefsSteps \/ EditorSteps \/ MoveSteps \/ AddressSteps
vars == <<part, dvars, lvars, pvars, evars, mvars, avars>>
Spec == Init /\ [][Next]_vars

\* A bundle is what the MAVLink rules make of its dialects, whatever includes what
\* and in whichever order (compile.js:480-678).
BundlesAreRight == part = "compile" => L!BundlesAreRight

\* A snapshot is one commit's files, whole, or it is not there; the parameter
\* document held is a whole one, and what the editor is told is of it
\* (xml-catalog.js:189-212, param/defs.js:77-91, mavlink-param.js:111-126).
DefinitionsAreWhole ==
  /\ part = "library" => L!SnapshotsAreExact
  /\ part = "defs" => P!HoldingIsWhole /\ P!AnswersAreTrue

\* A dialog shows what is selected, changes what was changed, and leaves every
\* other node's verdict alone (mavlink-editor.js:1037-1046, 1189-1225, 1592-1612).
\* A Move form that is accepted commands what is filled in on it and nothing else
\* (mavlink-move.html:941-945, lib/move), and a node addresses whom its dialog
\* shows, never everybody for a blank (resolve.js:22-35, mavlink-editor.js:1795-1820).
DialogsAreSound ==
  /\ part = "editor" => E!DialogsAreSound
  /\ part = "move" => M!MovesAreMeant
  /\ part = "address" => A!TargetsAreMeant

\* A profile deploys what was picked for it, and a seed profile the same for good.
DeploysArePinned == [][part = "library" => L!DeploysAsPicked /\ L!SeedStaysPinned]_vars

\* The same of every profile, also one with a snapshot among its picks, as the
\* seed's README has it.
ProfilesArePinned == [][part = "library" => L!ProfilesStayPinned]_vars
=============================================================================
