---------------------------- MODULE DialectLibrary ----------------------------
(***************************************************************************)
(* Where a profile's dialect comes from: the seed shipped with the package, *)
(* the bundles compiled from it and kept on disk (lib/metadata/bundled.js), *)
(* the snapshots downloaded beside it (lib/metadata/xml-catalog.js), and    *)
(* the profile node that puts its picks together (lib/vehicle,              *)
(* nodes/mavlink-vehicle.js).  Files are written one after the other, and   *)
(* the process may die between any two writes.                              *)
(*                                                                         *)
(* First the compiler (lib/metadata/compile.js), as pure operators: the     *)
(* files a dialect includes are put in order, dependencies first, and their *)
(* enums and messages are merged into one bundle.  A parsed file is a record *)
(* [includes, version, enums, messages]; a library is a function from the   *)
(* names that were provided to files.  Maps that keep the order of insertion *)
(* are sequences of records with a name.                                    *)
(*                                                                         *)
(* Then the library: there a text is a record [includes, text], and a       *)
(* compiled bundle is the texts it was compiled from, by name.              *)
(***************************************************************************)
EXTENDS Integers, Sequences, FiniteSets, SequencesExt, Functions

CONSTANTS Names,  \* names of dialect files
          Null,   \* what an element leaves unsaid
          Cases   \* the libraries that are compiled: sets of element sequences by name

CONSTANTS Upstream,  \* the definitions directory at each commit, a sequence
          Picks,     \* the profiles that are deployed: sequences of [dialect, revision]
          Updaters,  \* update requests that may be under way together
          MaxSnaps   \* bound on the snapshots on disk

-----------------------------------------------------------------------------
(* Parsing: a file is the sequence of its elements, an element a record with a
   tag; what an element does not say is Null.  A torn file does not validate. *)

\* The integer a value is written as: a sign, and digits in base ten or sixteen
\* or a power of two.
parseIntLiteral(raw) == IF raw.form = "power" THEN 2 ^ raw.digits ELSE raw.sign * raw.digits

parseEntry(node) ==
  [name |-> node.name, value |-> parseIntLiteral(node.value), detail |-> node.detail]

parseEnum(node) ==
  [name |-> node.name, bitmask |-> node.bitmask, detail |-> node.detail,
   entries |-> [i \in DOMAIN node.entries |-> parseEntry(node.entries[i])]]

\* The version field is a special of its own type; whether a field is an
\* extension depends on the marker before it.
parseField(node, extension) ==
  [extension |-> extension, enum |-> node.enum, display |-> node.display,
   special |-> node.special, const |-> Null]

parseMessage(node) ==
  LET child(acc, c) ==
        IF c.tag = "extensions" THEN [acc EXCEPT !.extension = TRUE]
        ELSE [acc EXCEPT !.fields = Append(@, parseField(c, acc.extension))]
  IN [id |-> node.id, name |-> node.name,
      fields |-> FoldLeft(child, [extension |-> FALSE, fields |-> << >>], node.children).fields]

EmptyFile == [includes |-> << >>, version |-> 2, enums |-> << >>, messages |-> << >>]

\* Unknown elements are passed over; of two versions the last counts.
parseFile(nodes) ==
  FoldLeft(LAMBDA out, n :
             CASE n.tag = "include"  -> [out EXCEPT !.includes = Append(@, n.name)]
               [] n.tag = "version"  -> [out EXCEPT !.version = n.number]
               [] n.tag = "enums"    -> [out EXCEPT !.enums = @ \o [i \in DOMAIN n.of |-> parseEnum(n.of[i])]]
               [] n.tag = "messages" -> [out EXCEPT !.messages = @ \o [i \in DOMAIN n.of |-> parseMessage(n.of[i])]]
               [] OTHER              -> out,
           EmptyFile, nodes)

-----------------------------------------------------------------------------
(* Include order *)

Unvisited == [order |-> << >>, error |-> "none", at |-> Null]
VisitState == [order : Seq(Names), error : {"none", "missing", "cycle"}, at : Names \cup {Null}]

\* A file is done, and placed, after everything it includes.
Finish(before, after, name) == [after EXCEPT !.order = Append(@, name)]

\* visit: a missing file and a cycle throw, a file that is done is skipped.
visitIn(files) ==
  LET visit[name \in Names, stack \in Seq(Names), st \in VisitState] ==
        IF st.error # "none" THEN st
        ELSE IF name \notin DOMAIN files THEN [st EXCEPT !.error = "missing", !.at = name]
        ELSE IF name \in Range(stack) THEN [st EXCEPT !.error = "cycle", !.at = name]
        ELSE IF name \in Range(st.order) THEN st
        ELSE   LET after == FoldLeft(LAMBDA acc, inc : visit[inc, Append(stack, name), acc],
                                     st, files[name].includes)
               IN IF after.error # "none" THEN after ELSE Finish(st, after, name)
  IN visit

resolveIncludeOrder(files, entry) == visitIn(files)[entry, << >>, Unvisited]

-----------------------------------------------------------------------------
(* Merging *)

Named(seq, name) == SelectSeq(seq, LAMBDA r : r.name = name)
Has(seq, name)   == Named(seq, name) # << >>
Get(seq, name)   == Named(seq, name)[1]

\* Map.set: in place when the key is there, at the end otherwise.
Put(seq, r) ==
  IF Has(seq, r.name) THEN [i \in DOMAIN seq |-> IF seq[i].name = r.name THEN r ELSE seq[i]]
  ELSE Append(seq, r)

Newer(new, old) == IF new = Null THEN old ELSE new

\* An entry met again with its value keeps the newer detail; with another value
\* the later file's entry replaces it whole.
MergedEntry(old, new) ==
  IF old.value = new.value THEN [old EXCEPT !.detail = Newer(new.detail, @)] ELSE new

mergeEntries(entries, new) ==
  FoldLeft(LAMBDA acc, e : Put(acc, IF Has(acc, e.name) THEN MergedEntry(Get(acc, e.name), e) ELSE e),
           entries, new)

mergeEnums(enums, fileEnums) ==
  FoldLeft(LAMBDA acc, e :
             LET old == IF Has(acc, e.name) THEN Get(acc, e.name)
                        ELSE [name |-> e.name, bitmask |-> FALSE, detail |-> Null, entries |-> << >>]
             IN Put(acc, [name |-> e.name, bitmask |-> old.bitmask \/ e.bitmask,
                          detail |-> Newer(e.detail, old.detail),
                          entries |-> mergeEntries(old.entries, e.entries)]),
           enums, fileEnums)

\* Mutant: a message that moves to another id still holds its old one.
FreedKeepsId(st, m) == st.idToName

\* The id an earlier definition of m held is free again, if it still was m's.
Freed(st, m) ==
  IF Has(st.messages, m.name)
  THEN LET id == Get(st.messages, m.name).id
       IN [k \in DOMAIN st.idToName \ (IF id \in DOMAIN st.idToName /\ st.idToName[id] = m.name THEN {id} ELSE {})
             |-> st.idToName[k]]
  ELSE st.idToName

\* A later definition replaces one of its name; an id another message holds is
\* a collision.  A versioned field takes its file's version.
mergeMessage(st, m, version) ==
  LET ids == Freed(st, m)
  IN IF st.error # "none" THEN st
     ELSE IF m.id \in DOMAIN ids /\ ids[m.id] # m.name
       THEN [st EXCEPT !.error = "collision", !.idToName = ids]
       ELSE [st EXCEPT !.messages = Put(@, [m EXCEPT !.fields = [i \in DOMAIN @ |->
                                              [@[i] EXCEPT !.const = IF m.fields[i].special THEN version ELSE Null]]]),
                       !.idToName = [k \in DOMAIN ids \cup {m.id} |-> IF k = m.id THEN m.name ELSE ids[k]]]

mergeMessages(st, file) ==
  FoldLeft(LAMBDA acc, m : mergeMessage(acc, m, file.version), st, file.messages)

-----------------------------------------------------------------------------
(* The bundle *)

\* byValue: of two names with one value the first declared is shown.
byValue(entries) ==
  [v \in {e.value : e \in Range(entries)} |->
     SelectSeq(entries, LAMBDA e : e.value = v)[1].name]

\* A field of a bitmask enum is shown as one unless the file says otherwise; a
\* field of an enum nobody declares makes the compiler throw.
shapeField(f, enums) ==
  [f EXCEPT !.display = IF @ = Null /\ f.enum # Null /\ Get(enums, f.enum).bitmask THEN "bitmask" ELSE @]

Throws(f, enums) == f.display = Null /\ f.enum # Null /\ ~Has(enums, f.enum)

\* The command view: the entries of MAV_CMD, none when nobody declares it.
buildCommands(enums) == IF Has(enums, "MAV_CMD") THEN Get(enums, "MAV_CMD").entries ELSE << >>

Refused(error) == [error |-> error, files |-> << >>, enums |-> << >>, messages |-> << >>, commands |-> << >>]

assembleBundle(order, enums, messages) ==
  IF \E m \in Range(messages) : \E f \in Range(m.fields) : Throws(f, enums) THEN Refused("undeclared enum")
  ELSE [error |-> "none", files |-> order,
        enums |-> [i \in DOMAIN enums |->
                     [name |-> enums[i].name, bitmask |-> enums[i].bitmask, detail |-> enums[i].detail,
                      entries |-> enums[i].entries, byValue |-> byValue(enums[i].entries)]],
        messages |-> [i \in DOMAIN messages |->
                        [messages[i] EXCEPT !.fields = [j \in DOMAIN @ |-> shapeField(@[j], enums)]]],
        commands |-> buildCommands(enums)]

\* compileXml: order, merge file by file, assemble; the first error is thrown.
compileXml(files, entry) ==
  LET resolved == resolveIncludeOrder(files, entry)
      parsed   == [i \in DOMAIN resolved.order |-> files[resolved.order[i]]]
      enums    == FoldLeft(LAMBDA acc, f : mergeEnums(acc, f.enums), << >>, parsed)
      merged   == FoldLeft(mergeMessages,
                           [messages |-> << >>, idToName |-> << >>, error |-> "none"], parsed)
  IN IF resolved.error # "none" THEN Refused(resolved.error)
     ELSE IF merged.error # "none" THEN Refused(merged.error)
     ELSE assembleBundle(resolved.order, enums, merged.messages)

-----------------------------------------------------------------------------
(* What a compiled bundle must be, of the files alone *)

\* Reference: the files the entry reaches, provided or not.
Reaches(files, entry) ==
  LET grows(S) == S \cup UNION {Range(files[n].includes) : n \in S \cap DOMAIN files}
      reach[i \in Nat] == IF i = 0 THEN {entry} ELSE grows(reach[i - 1])
  IN reach[Cardinality(Names)]

\* Reference: some file the entry reaches is included, further down, by itself.
HasCycle(files, entry) ==
  \E n \in Reaches(files, entry) \cap DOMAIN files :
    \E inc \in Range(files[n].includes) : n \in Reaches(files, inc)

\* The order has every file the entry reaches once, each after what it
\* includes, and is refused exactly when a file is missing or a cycle is
\* reached (compile.js:480).
OrderIsRight(files, entry) ==
  LET r == resolveIncludeOrder(files, entry)
      place(n) == CHOOSE i \in DOMAIN r.order : r.order[i] = n
  IN IF r.error # "none"
     THEN ~(Reaches(files, entry) \subseteq DOMAIN files) \/ HasCycle(files, entry)
     ELSE /\ Reaches(files, entry) \subseteq DOMAIN files /\ ~HasCycle(files, entry)
          /\ IsInjective(r.order) /\ Range(r.order) = Reaches(files, entry)
          /\ \A n \in Range(r.order) : \A inc \in Range(files[n].includes) : place(inc) < place(n)

\* Every definition of a kind in the order it is merged.
AllOf(files, order, F(_)) == FlattenSeq([i \in DOMAIN order |-> F(files[order[i]])])

\* Reference: what the definitions of one name leave, the last value and the
\* last detail given since the name has it.
Final(all) ==
  LET value == Last(all).value
      from  == SelectLastInSeq(all, LAMBDA y : y.value # value) + 1
      said  == SelectSeq(SubSeq(all, from, Len(all)), LAMBDA y : y.detail # Null)
  IN [name |-> Last(all).name, value |-> value, detail |-> IF said = << >> THEN Null ELSE Last(said).detail]

\* One message to an id, each the last definition of its name; only a message
\* that claims an id another one holds is a collision (compile.js:610).
MessagesAreRight(files, entry, b) ==
  LET defs == AllOf(files, resolveIncludeOrder(files, entry).order, LAMBDA f : f.messages)
      names == {m.name : m \in Range(defs)}
      before(i, n) == Named(SubSeq(defs, 1, i), n)
      claimed(i) == \E n \in names \ {defs[i].name} : before(i, n) # << >> /\ Last(before(i, n)).id = defs[i].id
  IN /\ (b.error = "collision") = (resolveIncludeOrder(files, entry).error = "none" /\ \E i \in DOMAIN defs : claimed(i))
     /\ b.error = "none" =>
          /\ {[id |-> m.id, name |-> m.name] : m \in Range(b.messages)}
             = {[id |-> Last(Named(defs, n)).id, name |-> n] : n \in names}
          /\ Len(b.messages) = Cardinality(names)
          /\ \A i, j \in DOMAIN b.messages : b.messages[i].id = b.messages[j].id => i = j

\* Every enum is the union of its declarations, a name as its last definition
\* left it, and a value shows the name declared first; the commands are the
\* entries of MAV_CMD (compile.js:557, 639, 703).
EnumsAreRight(files, entry, b) ==
  LET defs == AllOf(files, resolveIncludeOrder(files, entry).order, LAMBDA f : f.enums)
      entriesOf(n) == FlattenSeq([i \in DOMAIN Named(defs, n) |-> Named(defs, n)[i].entries])
      first(n, x) == SelectInSeq(entriesOf(n), LAMBDA y : y.name = x)
  IN b.error = "none" =>
       /\ {e.name : e \in Range(b.enums)} = {d.name : d \in Range(defs)}
       /\ \A e \in Range(b.enums) :
            LET all == entriesOf(e.name)
                final == {Final(Named(all, n)) : n \in {x.name : x \in Range(all)}}
            IN /\ e.bitmask = \E d \in Range(defs) : d.name = e.name /\ d.bitmask
               /\ Range(e.entries) = final /\ Len(e.entries) = Cardinality(final)
               /\ DOMAIN e.byValue = {x.value : x \in final}
               /\ \A v \in DOMAIN e.byValue : \E y \in final : y.name = e.byValue[v] /\ y.value = v
               /\ \A x \in final : first(e.name, e.byValue[x.value]) <= first(e.name, x.name)
               /\ e.name = "MAV_CMD" => b.commands = e.entries

\* Reference: the message elements of a file.
MessageNodes(nodes) ==
  FlattenSeq([i \in DOMAIN nodes |-> IF nodes[i].tag = "messages" THEN nodes[i].of ELSE << >>])

\* A message has the fields of its last definition and of no other, in their
\* order: an extension exactly when the marker comes before it, the version field
\* with the version of that definition's file, a bitmask when any file makes its
\* enum one; an enum nobody declares is the compiler's refusal, and only where
\* the definition that counts names it (compile.js:415, 610, 688).
FieldsAreRight(xml, files, entry, b) ==
  LET order       == resolveIncludeOrder(files, entry).order
      names       == {m.name : m \in UNION {Range(files[x].messages) : x \in Range(order)}}
      home(n)     == order[SelectLastInSeq(order, LAMBDA x : Has(files[x].messages, n))]
      children(n) == Last(Named(MessageNodes(xml[home(n)]), n)).children
      places(n)   == SetToSortSeq({i \in DOMAIN children(n) : children(n)[i].tag = "field"}, <)
      declared(e) == \E x \in Range(order) : Has(files[x].enums, e)
      bitmask(e)  == \E x \in Range(order) : \E d \in Range(files[x].enums) : d.name = e /\ d.bitmask
      undeclared  == \E n \in names : \E i \in Range(places(n)) :
                       LET said == children(n)[i]
                       IN said.display = Null /\ said.enum # Null /\ ~declared(said.enum)
      isAsSaid(f, said, n) ==
        /\ f.enum = said.enum /\ f.special = said.special
        /\ f.const = IF said.special THEN files[home(n)].version ELSE Null
        /\ f.display = IF said.display = Null /\ said.enum # Null /\ bitmask(said.enum) THEN "bitmask" ELSE said.display
  IN /\ b.error \in {"none", "undeclared enum"} => (b.error = "undeclared enum") = undeclared
     /\ b.error = "none" => \A m \in Range(b.messages) :
          LET at == places(m.name)
          IN /\ Len(m.fields) = Len(at)
             /\ \A i \in DOMAIN at :
                  /\ m.fields[i].extension = \E j \in 1..at[i] : children(m.name)[j].tag = "extensions"
                  /\ isAsSaid(m.fields[i], children(m.name)[at[i]], m.name)

-----------------------------------------------------------------------------
(* One compilation of one library *)

VARIABLES library,  \* the XML of the files provided, by name
          entry,    \* the file compiled
          bundle    \* what compileXml returned, Null before

cvars == <<library, entry, bundle>>

parsedFiles == [n \in DOMAIN library |-> parseFile(library[n])]

CompileInit == \E c \in Cases : library = c.library /\ entry = c.entry /\ bundle = Null

Compile == bundle = Null /\ bundle' = compileXml(parsedFiles, entry) /\ UNCHANGED <<library, entry>>

\* The bundle is what the files say: refused exactly for a missing file, a
\* cycle, a collision of ids or an undeclared enum, and otherwise with every
\* message, enum and field as the files, dependencies first, leave them.
BundlesAreRight ==
  bundle # Null =>
    /\ OrderIsRight(parsedFiles, entry)
    /\ MessagesAreRight(parsedFiles, entry, bundle)
    /\ EnumsAreRight(parsedFiles, entry, bundle)
    /\ FieldsAreRight(library, parsedFiles, entry, bundle)

-----------------------------------------------------------------------------
(* The library *)

Commits == DOMAIN Upstream
Seed == 0            \* the revision that means the shipped seed; a snapshot's is its number

VARIABLES head,      \* the upstream commit the ref names now
          seed,      \* the commit of the seed in the installed package
          snaps,     \* snapshot directories, oldest first: [commit, files, manifest]
          compiled,  \* the compiled cache on disk: [torn, bundle] by key
          packed,    \* the seed this process has read, 0 before it reads one
          memo,      \* the bundles this process holds, by key
          updates,   \* each request: [phase, commit, fetched]
          node,      \* the profile node: [picks, result]
          first      \* history: what each profile was first deployed as since a rebuild

disk    == <<head, seed, snaps, compiled>>
process == <<packed, memo, updates, node>>
lvars   == <<disk, process, first>>

NoFiles == << >>
Idle    == [phase |-> "idle", commit |-> 0, fetched |-> NoFiles]
NoNode  == [picks |-> << >>, result |-> [error |-> "none", bundle |-> NoFiles]]

LibraryInit ==
  /\ head \in Commits /\ seed \in Commits /\ seed <= head
  /\ snaps = << >> /\ compiled = NoFiles
  /\ packed = 0 /\ memo = NoFiles /\ updates = [u \in Updaters |-> Idle] /\ node = NoNode
  /\ first = NoFiles

\* The process dies: what it held is gone, the disk stays.
Dies == packed' = 0 /\ memo' = NoFiles /\ updates' = [u \in Updaters |-> Idle] /\ node' = NoNode

-----------------------------------------------------------------------------
(* The catalog *)

\* list(): the manifests there are; a torn one makes it throw for everybody.
Torn     == \E i \in DOMAIN snaps : snaps[i].manifest = "torn"
Listed   == {i \in DOMAIN snaps : snaps[i].manifest = "whole"}
readSeed == IF packed = 0 THEN seed ELSE packed    \* loadPacked

\* update: the ref is pinned to a commit first.
UpdateStarts(u) ==
  /\ updates[u].phase = "idle" /\ Len(snaps) < MaxSnaps
  /\ updates' = [updates EXCEPT ![u] = [phase |-> "fetching", commit |-> head, fetched |-> NoFiles]]
  /\ UNCHANGED <<disk, packed, memo, node, first>>

\* Mutant: a file is fetched from whatever the ref names by then.
FetchedFromRef(u) == head

\* Every file is fetched from the pinned commit.
FetchedFrom(u) == updates[u].commit

Missing(u) == DOMAIN Upstream[updates[u].commit] \ DOMAIN updates[u].fetched

fetchFile(u) ==
  /\ updates[u].phase = "fetching" /\ Missing(u) # {}
  /\ \E f \in {CHOOSE f \in Missing(u) : TRUE} \cap DOMAIN Upstream[FetchedFrom(u)] :
       updates' = [updates EXCEPT ![u].fetched =
                     [n \in DOMAIN @ \cup {f} |-> IF n = f THEN Upstream[FetchedFrom(u)][f] ELSE @[n]]]
  /\ UNCHANGED <<disk, packed, memo, node, first>>

\* One file that does not come ends the whole update.
UpdateFails(u) ==
  /\ updates[u].phase = "fetching" /\ Missing(u) # {}
  /\ updates' = [updates EXCEPT ![u] = Idle]
  /\ UNCHANGED <<disk, packed, memo, node, first>>

\* fileList of what is newest: the last snapshot listed, else the seed.
newest == IF Listed = {} THEN Upstream[readSeed]
          ELSE snaps[CHOOSE i \in Listed : \A j \in Listed : j <= i].files

\* The directory, its files and last its manifest, one synchronous write after
\* another: all of them, or as far as the process came.
Writes(u) ==
  LET all == updates[u].fetched
      kept(files, manifest) ==
        snaps' = Append(snaps, [commit |-> updates[u].commit, files |-> files, manifest |-> manifest])
  IN \/ /\ kept(all, "whole") /\ updates' = [updates EXCEPT ![u] = Idle]
        /\ packed' = (IF Listed = {} THEN readSeed ELSE packed) /\ UNCHANGED <<memo, node>>
     \/ kept(NoFiles, "none") /\ Dies
     \/ kept(all, "torn") /\ Dies

\* The rest of update, with nothing awaited: what is the same as the newest is
\* not kept, and a torn manifest refuses.
UpdateEnds(u) ==
  /\ updates[u].phase = "fetching" /\ Missing(u) = {}
  /\ \/ /\ Torn \/ newest = updates[u].fetched
        /\ updates' = [updates EXCEPT ![u] = Idle]
        /\ packed' = (IF ~Torn /\ Listed = {} THEN readSeed ELSE packed)
        /\ UNCHANGED <<snaps, memo, node>>
     \/ ~Torn /\ newest # updates[u].fetched /\ Len(snaps) < MaxSnaps /\ Writes(u)
  /\ UNCHANGED <<head, seed, compiled, first>>

\* What the editor is offered of one dialect: the seed, and every snapshot listed.
dialectLibrary ==
  IF Torn THEN {}
  ELSE {[dialect |-> d, revision |-> Seed] : d \in DOMAIN Upstream[readSeed]}
       \cup UNION {{[dialect |-> d, revision |-> i] : d \in DOMAIN snaps[i].files} : i \in Listed}

-----------------------------------------------------------------------------
(* A profile's dialect *)

Failed(error)    == [error |-> error, bundle |-> NoFiles]
Compiled(files, order) == [error |-> "none", bundle |-> Restrict(files, Range(order))]

\* compileXmlFromFile and compileXml of one root: what its includes reach.
compileRoot(files, root) ==
  LET r == resolveIncludeOrder(files, root)
  IN IF r.error # "none" THEN Failed(r.error) ELSE Compiled(files, r.order)

\* compileProfile: a synthetic file includes the roots in their order; it is no
\* part of what the bundle is compared by.
compileProfile(files, entries) ==
  LET all == [n \in DOMAIN files \cup {"_profile"} |->
                IF n = "_profile" THEN [includes |-> entries, text |-> 0] ELSE files[n]]
      r == resolveIncludeOrder(all, "_profile")
  IN IF r.error # "none" THEN Failed(r.error) ELSE Compiled(files, Front(r.order))

DialectsOf(picks) == [i \in DOMAIN picks |-> picks[i].dialect]
AllSeed(picks)  == \A i \in DOMAIN picks : picks[i].revision = Seed

\* An entry on disk counts whatever seed is installed.
OnDisk(key) == key \in DOMAIN compiled

\* loadBundledSet without its memo: the seed's manifest spells the key, then the
\* compiled cache, then the compiler.
loadBundled(picks) ==
  LET key == DialectsOf(picks)
      sources == Upstream[readSeed]
  IN IF ~(Range(key) \subseteq DOMAIN sources) THEN Failed("unknown dialect")
     ELSE IF key \in DOMAIN memo THEN [error |-> "none", bundle |-> memo[key]]
     ELSE IF OnDisk(key)
       THEN IF compiled[key].torn THEN Failed("torn entry") ELSE [error |-> "none", bundle |-> compiled[key].bundle]
       ELSE IF Len(picks) > 1 THEN compileProfile(sources, key) ELSE compileRoot(sources, key[1])

\* catalogLookup: the snapshot's manifest, and the dialect's file in it.
catalogError(pick) ==
  CASE Torn                                           -> "torn manifest"
    [] ~Torn /\ pick.revision \notin Listed           -> "no such snapshot"
    [] ~Torn /\ pick.revision \in Listed /\ pick.dialect \notin DOMAIN snaps[pick.revision].files -> "not in snapshot"
    [] OTHER                                          -> "none"

PickError(pick) ==
  IF pick.revision # Seed THEN catalogError(pick)
  ELSE IF pick.dialect \in DOMAIN Upstream[readSeed] THEN "none" ELSE "unknown dialect"

sourceOf(pick) == IF pick.revision = Seed THEN Upstream[readSeed] ELSE snaps[pick.revision].files

\* Mutant: a snapshot lays its whole directory over what is there.
ContributesAll(pick) == sourceOf(pick)

\* A pick contributes the files its own includes reach.
Contributes(pick) == Restrict(sourceOf(pick), Range(resolveIncludeOrder(sourceOf(pick), pick.dialect).order))

\* resolveDialectSet with a snapshot among the picks: a file two picks reach is
\* the later one's.
resolveDialectSet(picks) ==
  LET refused == SelectSeq(picks, LAMBDA p : PickError(p) # "none")
      laid(files, p) == LET own == Contributes(p) IN
        [n \in DOMAIN files \cup DOMAIN own |-> IF n \in DOMAIN own THEN own[n] ELSE files[n]]
  IN IF refused # << >> THEN Failed(PickError(refused[1]))
     ELSE compileProfile(FoldLeft(laid, NoFiles, picks), DialectsOf(picks))

resolveDialect(picks) ==
  CASE AllSeed(picks)    -> loadBundled(picks)
    [] ~AllSeed(picks) /\ Len(picks) > 1 -> resolveDialectSet(picks)
    [] OTHER -> IF catalogError(picks[1]) # "none" THEN Failed(catalogError(picks[1]))
                ELSE compileRoot(sourceOf(picks[1]), picks[1].dialect)

\* The node is constructed: a refusal is kept and shown, a bundle is served.  A
\* bundle compiled of the seed alone is written to disk, which the process may
\* not survive, and held.
Deploy(picks) ==
  LET r == resolveDialect(picks)
      key == DialectsOf(picks)
      writes == AllSeed(picks) /\ r.error = "none" /\ key \notin DOMAIN memo /\ ~OnDisk(key)
      saved(torn) == compiled' = [k \in DOMAIN compiled \cup {key} |->
                        IF k = key THEN [torn |-> torn, bundle |-> IF torn THEN NoFiles ELSE r.bundle] ELSE compiled[k]]
  IN \/ /\ node' = [picks |-> picks, result |-> r]
        /\ packed' = (IF \E i \in DOMAIN picks : picks[i].revision = Seed THEN readSeed ELSE packed)
        /\ memo' = (IF AllSeed(picks) /\ r.error = "none"
                    THEN [k \in DOMAIN memo \cup {key} |-> IF k = key THEN r.bundle ELSE memo[k]] ELSE memo)
        /\ IF writes THEN saved(FALSE) ELSE UNCHANGED compiled
        /\ first' = (IF r.error = "none" /\ picks \notin DOMAIN first
                     THEN [p \in DOMAIN first \cup {picks} |-> IF p = picks THEN r.bundle ELSE first[p]] ELSE first)
        /\ UNCHANGED <<head, seed, snaps, updates>>
     \/ writes /\ saved(TRUE) /\ Dies /\ UNCHANGED <<head, seed, snaps, first>>

\* POST rebuild: every compiled dialect goes, in memory and on disk; the nodes
\* that are deployed keep what they have.
clearCompiledCache ==
  /\ compiled' = NoFiles /\ packed' = 0 /\ memo' = NoFiles /\ first' = NoFiles
  /\ UNCHANGED <<head, seed, snaps, updates, node>>

-----------------------------------------------------------------------------
(* Around it *)

Push    == head < Len(Upstream) /\ head' = head + 1 /\ UNCHANGED <<seed, snaps, compiled, process, first>>
Upgrade == seed < head /\ seed' = seed + 1 /\ UNCHANGED <<head, snaps, compiled, process, first>>
Restart == Dies /\ UNCHANGED <<disk, first>>

LibraryNext ==
  \/ \E u \in Updaters : UpdateStarts(u) \/ fetchFile(u) \/ UpdateFails(u) \/ UpdateEnds(u)
  \/ \E picks \in Picks : Deploy(picks)
  \/ clearCompiledCache \/ Push \/ Upgrade \/ Restart

-----------------------------------------------------------------------------
(* Properties, the last three of a step *)

\* A snapshot that is listed is the whole definitions directory at its commit,
\* whatever was pushed while it was downloaded and wherever the process died,
\* differs from the one listed before it, and everything the editor is offered
\* compiles as long as the compiled cache is whole (xml-catalog.js:189).
SnapshotsAreExact ==
  /\ \A i \in Listed :
       /\ snaps[i].files = Upstream[snaps[i].commit]
       /\ \A j \in Listed : j < i /\ (\A k \in Listed : k <= j \/ k >= i) => snaps[j].files # snaps[i].files
  /\ (\A k \in DOMAIN compiled : ~compiled[k].torn) =>
       \A pick \in dialectLibrary : resolveDialect(<<pick>>).error = "none"

\* Reference: the text of one file in a profile is that of the last pick whose
\* includes reach it.
TextOf(picks, n, seedCommit) ==
  LET source(p) == IF p.revision = Seed THEN Upstream[seedCommit] ELSE snaps[p.revision].files
      reaching == SelectSeq(picks, LAMBDA p : n \in Reaches(source(p), p.dialect))
  IN source(Last(reaching))[n]

\* A deployed profile is made of exactly the files its picks reach, each as the
\* last pick that reaches it has it, and all its seed files are of one seed, the
\* one the process has read unless the bundle was kept (vehicle/index.js:174).
DeploysAsPicked ==
  node' # node /\ node'.result.error = "none" /\ node'.picks # << >> =>
    \E s \in IF AllSeed(node'.picks) THEN {k \in Commits : k <= seed} ELSE {packed'} :
      /\ DOMAIN node'.result.bundle =
           UNION {Reaches(IF p.revision = Seed THEN Upstream[s] ELSE snaps[p.revision].files, p.dialect) :
                    p \in Range(node'.picks)}
      /\ \A n \in DOMAIN node'.result.bundle : node'.result.bundle[n] = TextOf(node'.picks, n, s)

Redeployed(picks) == node' # node /\ node'.picks = picks /\ node'.result.error = "none" /\ picks \in DOMAIN first

\* Until the operator rebuilds, a profile of the seed alone is deployed as it
\* was, whatever seed is installed meanwhile and however often the process is
\* started (bundled.js:137).
SeedStaysPinned ==
  \A picks \in Picks : AllSeed(picks) /\ Redeployed(picks) => node'.result.bundle = first[picks]

\* The same of every profile, also one with a snapshot among its picks.
ProfilesStayPinned ==
  \A picks \in Picks : Redeployed(picks) => node'.result.bundle = first[picks]
=============================================================================
