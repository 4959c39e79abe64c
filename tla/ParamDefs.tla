------------------------------- MODULE ParamDefs -------------------------------
(***************************************************************************)
(* The parameter definitions the editor shows: the seed in the package      *)
(* (lib/param/seed.js), the document downloaded for a profile               *)
(* (lib/param/defs.js) and the route that lays one over the other           *)
(* (nodes/mavlink-param.js).                                                *)
(*                                                                         *)
(* A published entry is a function from the keys it has to their values; a  *)
(* definition has every field, Null when nothing was said.  Text that is    *)
(* there and empty is "".                                                   *)
(***************************************************************************)
EXTENDS Integers, Sequences, FiniteSets, SequencesExt, Functions

CONSTANTS Null,      \* what was not said
          NaN,       \* what Number() makes of a text that is no number
          Updates,   \* requests that download a document
          Published, \* the documents there are to download
          SeedDocs,  \* the seed: the definitions by firmware and document
          Families,  \* ARDUPILOT_VEHICLE: the document of each vehicle family
          Queries    \* what the editor asks: [vehicle, firmware, family]

Corrupt == [form |-> "corrupt"]   \* a holding file that is no JSON
Absent  == [form |-> "absent"]

-----------------------------------------------------------------------------
(* Parsing a document *)

Said(e, keys) == SelectSeq(keys, LAMBDA k : k \in DOMAIN e)
FirstSaid(e, keys, default) == IF Said(e, keys) = << >> THEN default ELSE e[Said(e, keys)[1]]
FirstText(e, keys) == LET k == SelectSeq(Said(e, keys), LAMBDA x : e[x] # "")
                      IN IF k = << >> THEN "" ELSE e[k[1]]
Finite(n) == IF n = NaN THEN Null ELSE n
NullIfEmpty(seq) == IF seq = << >> THEN Null ELSE seq

\* Names are compared trimmed and in capitals.
Capital(name) == IF name = "thr_max" THEN "THR_MAX" ELSE name

looksLikeParamEntry(e) ==
  DOMAIN e \cap {"humanName", "documentation", "Description", "DisplayName", "shortDesc", "longDesc"} # {}

mavParamType(e) ==
  IF "type" \notin DOMAIN e THEN Null
  ELSE CASE e.type = "FLOAT" -> "REAL32" [] e.type = "INT32" -> "INT32" [] OTHER -> Null

\* Bits that a 32-bit parameter cannot hold are dropped, the others in order.
BitsOf(raw) ==
  NullIfEmpty(SortSeq(SelectSeq(raw, LAMBDA b : b.bit # NaN /\ b.bit \in 0..31), LAMBDA x, y : x.bit < y.bit))

\* One entry in either publisher's spelling; a later one of a name replaces it.
addParam(map, name, e) ==
  LET range == FirstSaid(e, <<"Range">>, <<Null, Null>>)
      bound(i, key) == IF range[i] # Null THEN Finite(range[i]) ELSE FirstSaid(e, <<key>>, Null)
      long == FirstSaid(e, <<"documentation", "Description", "longDesc">>, "")
      values == FirstSaid(e, <<"Values", "values">>, Null)
      bits == FirstSaid(e, <<"Bitmask", "bitmask">>, Null)
      def == [description |-> IF long # "" THEN long ELSE FirstText(e, <<"humanName", "DisplayName", "shortDesc">>),
              unit |-> FirstSaid(e, <<"Units", "units">>, ""),
              min |-> bound(1, "min"), max |-> bound(2, "max"),
              increment |-> Finite(FirstSaid(e, <<"Increment", "increment">>, Null)),
              values |-> CASE values = Null -> Null
                           [] values # Null /\ "values" \in DOMAIN e /\ "Values" \notin DOMAIN e ->
                                NullIfEmpty(SelectSeq(values, LAMBDA v : v.value # NaN))
                           [] OTHER -> values,
              bits |-> IF bits = Null THEN Null ELSE BitsOf(bits),
              type |-> mavParamType(e)]
      id == Capital(name)
  IN IF name = "" THEN map
     ELSE [n \in DOMAIN map \cup {id} |-> IF n = id THEN def ELSE map[n]]

\* PX4's flat array, ArduPilot's objects one or two levels deep; any other JSON
\* has no definitions.
parsePdefJson(doc) ==
  CASE doc.form = "px4" ->
         FoldLeft(LAMBDA acc, e : IF looksLikeParamEntry(e) THEN addParam(acc, e.name, e) ELSE acc, << >>, doc.entries)
    [] doc.form = "ardupilot" ->
         FoldLeft(LAMBDA acc, k :
                    IF looksLikeParamEntry(k.entry) THEN addParam(acc, k.name, k.entry)
                    ELSE FoldLeft(LAMBDA a, n : IF looksLikeParamEntry(n.entry) THEN addParam(a, n.name, n.entry) ELSE a,
                                  acc, k.nested),
                  << >>, doc.entries)
    [] OTHER -> << >>

Pair == <<[value |-> 0, label |-> "Disabled"], [value |-> 1, label |-> "Enabled"]>>

\* One XML element as the JSON entry it mirrors: a text that is missing is
\* empty, a boolean is the pair the JSON spells out.
xmlParamEntry(x) ==
  LET text(key) == IF key \in DOMAIN x THEN x[key] ELSE ""
      number(key) == IF key \in DOMAIN x THEN Finite(x[key]) ELSE Null
      finite == SelectSeq(x.code, LAMBDA v : v.value # NaN)
      values == IF finite = << >> /\ x.boolean THEN Pair ELSE finite
      bits == SelectSeq(x.bit, LAMBDA b : b.bit # NaN)
      given(key, f, has) == IF has THEN {<<key, f>>} ELSE {}
      all == {<<"name", x.name>>, <<"shortDesc", text("short_desc")>>, <<"longDesc", text("long_desc")>>,
              <<"units", text("unit")>>}
             \cup given("type", text("type"), "type" \in DOMAIN x)
             \cup given("min", number("min"), number("min") # Null)
             \cup given("max", number("max"), number("max") # Null)
             \cup given("increment", number("increment"), number("increment") # Null)
             \cup given("values", values, values # << >>) \cup given("bitmask", bits, bits # << >>)
  IN [k \in {p[1] : p \in all} |-> (CHOOSE p \in all : p[1] = k)[2]]

\* An XML without its root, a page of an error say, throws.
paramDocumentFromXml(x) ==
  IF x.root # "parameters" THEN Corrupt
  ELSE [form |-> "px4",
        entries |-> FlattenSeq([g \in DOMAIN x.groups |->
                      LET named == SelectSeq(x.groups[g], LAMBDA n : n.name # "")
                      IN [i \in DOMAIN named |-> xmlParamEntry(named[i])]])]

\* What defaultFetch returns of the text that came: the first byte tells XML.
defaultFetch(text) == IF text.form = "xml" THEN paramDocumentFromXml(text) ELSE text

-----------------------------------------------------------------------------
(* The seed *)

Acting == {"min", "max", "increment", "values", "type", "bits"}

\* What survives a union of documents that disagree: nothing that acts.
unionSafe(def) == [k \in DOMAIN def |-> IF k \in Acting THEN Null ELSE def[k]]

\* The vehicle's own document, or every name any document of the firmware has.
defsFor(firmware, family) ==
  IF firmware \notin DOMAIN SeedDocs THEN << >>
  ELSE LET docs == SeedDocs[firmware]
           named == IF firmware = "px4" THEN "default"
                    ELSE IF family \in DOMAIN Families THEN Families[family] ELSE Null
       IN IF named \in DOMAIN docs THEN docs[named]
          ELSE [id \in UNION {DOMAIN docs[v] : v \in DOMAIN docs} |->
                  unionSafe(docs[CHOOSE v \in DOMAIN docs : id \in DOMAIN docs[v]][id])]

\* What the answer says it is: the vehicle only when its own document is served.
catalogLabel(firmware, family, source) ==
  [firmware |-> firmware, source |-> source,
   vehicle |-> IF firmware = "ardupilot" /\ family \in DOMAIN Families THEN family ELSE Null]

-----------------------------------------------------------------------------
(* The holding file and the two routes *)

VARIABLES profile,   \* the deployed Vehicle Profile: [firmware, family], Null when there is none
          holding,   \* the profile's holding file
          request,   \* each POST update: [phase, doc, answer]
          query,     \* the GET under way: [phase, asked, firmware, family, answer]
          was        \* history: what the holding file has held since the query began

pvars == <<profile, holding, request, query, was>>

NoRequest == [phase |-> "idle", doc |-> Absent, answer |-> Null]
NoQuery   == [phase |-> "idle", asked |-> Null, firmware |-> Null, family |-> Null, answer |-> Null]

DefsInit ==
  /\ profile \in {[firmware |-> "ardupilot", family |-> "copter"], [firmware |-> "px4", family |-> "copter"]}
  /\ holding \in {Absent, Corrupt}
  /\ request = [u \in Updates |-> NoRequest] /\ query = NoQuery /\ was = {}

\* The download and its parse: a document that is no JSON ends the request.
Fetched(u) ==
  /\ request[u].phase = "idle"
  /\ \E text \in Published :
       LET doc == defaultFetch(text)
       IN request' = [request EXCEPT ![u] =
            IF doc = Corrupt THEN [phase |-> "failed", doc |-> Absent, answer |-> "500"]
            ELSE [phase |-> "fetched", doc |-> doc, answer |-> Null]]
  /\ UNCHANGED <<profile, holding, query, was>>

\* It is written to a file of its own first, that no two requests share.
WrittenAside(u) == UNCHANGED <<holding, was>>

Writing(u) ==
  /\ request[u].phase = "fetched" /\ WrittenAside(u)
  /\ request' = [request EXCEPT ![u].phase = "writing"]
  /\ UNCHANGED <<profile, query>>

Written(u) ==
  /\ request[u].phase = "writing"
  /\ request' = [request EXCEPT ![u].phase = "written"]
  /\ UNCHANGED <<profile, holding, query, was>>

\* The rename replaces the holding file at once, and the count is answered.
Renamed(u) ==
  /\ request[u].phase = "written"
  /\ holding' = request[u].doc /\ was' = was \cup {request[u].doc}
  /\ request' = [request EXCEPT ![u].phase = "done", ![u].answer = Cardinality(DOMAIN parsePdefJson(request[u].doc))]
  /\ UNCHANGED <<profile, query>>

WriteFails(u) ==
  /\ request[u].phase \in {"fetched", "writing", "written"}
  /\ request' = [request EXCEPT ![u] = [phase |-> "failed", doc |-> Absent, answer |-> "500"]]
  /\ UNCHANGED <<profile, holding, query, was>>

\* GET: what the query does not say comes from the deployed profile; the seed is
\* looked up, and without a profile answered, at once.
merged(seeded, own) == [n \in DOMAIN seeded \cup DOMAIN own |-> IF n \in DOMAIN own THEN own[n] ELSE seeded[n]]

answer(defs, firmware, family, source) ==
  IF DOMAIN defs = {} THEN [status |-> 200, defs |-> << >>, label |-> Null]
  ELSE [status |-> 200, defs |-> defs, label |-> catalogLabel(firmware, family, source)]

Asks(q) ==
  LET of(said, key) == IF said = Null /\ q.vehicle /\ profile # Null THEN profile[key] ELSE said
      firmware == of(q.firmware, "firmware")
      family == of(q.family, "family")
  IN /\ query.phase # "reading"
     /\ query' = [phase |-> IF q.vehicle THEN "reading" ELSE "answered", asked |-> q,
                  firmware |-> firmware, family |-> family,
                  answer |-> IF q.vehicle THEN Null
                             ELSE answer(defsFor(firmware, family), firmware, family, "seed")]
     /\ was' = {holding}
     /\ UNCHANGED <<profile, holding, request>>

\* The holding file has been read: laid over the seed, and reported when it is
\* no JSON.
Answers ==
  LET seeded == defsFor(query.firmware, query.family)
      own == parsePdefJson(holding)
  IN /\ query.phase = "reading"
     /\ query' = [query EXCEPT !.phase = "answered",
          !.answer = IF holding = Corrupt THEN [status |-> 500, defs |-> << >>, label |-> Null]
                     ELSE IF DOMAIN own # {} THEN answer(merged(seeded, own), query.firmware, query.family, "profile")
                     ELSE answer(seeded, query.firmware, query.family, "seed")]
     /\ UNCHANGED <<profile, holding, request, was>>

\* A deploy changes or removes the profile while requests are under way.
Redeploys ==
  /\ profile' \in {Null, [firmware |-> "px4", family |-> "copter"]} /\ profile' # profile
  /\ UNCHANGED <<holding, request, query, was>>

Dies ==
  /\ request' = [u \in Updates |-> NoRequest] /\ query' = NoQuery
  /\ UNCHANGED <<profile, holding, was>>

DefsNext ==
  \/ \E u \in Updates : Fetched(u) \/ Writing(u) \/ Written(u) \/ Renamed(u) \/ WriteFails(u)
  \/ \E q \in Queries : Asks(q)
  \/ Answers \/ Redeploys \/ Dies

-----------------------------------------------------------------------------
(* Properties *)

\* Reference: the JSON PX4 publishes beside an XML.
JsonOf(x) ==
  [form |-> "px4",
   entries |-> FlattenSeq([g \in DOMAIN x.groups |-> [i \in DOMAIN x.groups[g] |->
      LET n == x.groups[g][i]
          spelled == [name |-> "name", type |-> "type", short_desc |-> "shortDesc", long_desc |-> "longDesc",
                      unit |-> "units", min |-> "min", max |-> "max", increment |-> "increment"]
          keys == {k \in DOMAIN spelled : k \in DOMAIN n}
      IN [k \in {spelled[s] : s \in keys} \cup {"values", "bitmask"} |->
            CASE k = "values"  -> IF n.code = << >> /\ n.boolean THEN Pair ELSE n.code
              [] k = "bitmask" -> n.bit
              [] OTHER         -> n[CHOOSE s \in keys : spelled[s] = k]]]])]

\* The holding file is always a whole document, or what it was before: no
\* request, and no death of the process in the middle of one, leaves a torn one.
\* A document means the same whichever of its two forms was downloaded
\* (defs.js:77, 369).
HoldingIsWhole ==
  /\ holding = Corrupt => \A u \in Updates : request[u].phase # "done"
  /\ holding \notin {Absent, Corrupt} =>
       \E text \in Published :
         /\ defaultFetch(text) # Corrupt
         /\ parsePdefJson(holding) = parsePdefJson(IF text.form = "xml" THEN JsonOf(text) ELSE text)

\* An answer is the seed of the firmware it names with one document over it that
\* was the holding file while the query was under way; it names a vehicle only
\* when it serves that vehicle's own document, and otherwise no seed definition
\* in it bounds or enumerates a value (mavlink-param.js:54, seed.js:79).
AnswersAreTrue ==
  query.phase = "answered" /\ query.answer.status = 200 =>
    \E doc \in was :
      LET own == parsePdefJson(doc)
          a == query.answer
          over == IF query.asked.vehicle THEN own ELSE << >>
      IN /\ query.asked.vehicle => doc # Corrupt
         /\ \A id \in DOMAIN a.defs : id \in DOMAIN over => a.defs[id] = over[id]
         /\ \A id \in DOMAIN a.defs \ DOMAIN over :
              IF a.label.vehicle # Null \/ a.label.firmware = "px4"
              THEN \E d \in DOMAIN SeedDocs[a.label.firmware] :
                     /\ id \in DOMAIN SeedDocs[a.label.firmware][d]
                     /\ a.defs[id] = SeedDocs[a.label.firmware][d][id]
                     /\ a.label.vehicle # Null => d = Families[a.label.vehicle]
              ELSE \A k \in Acting : a.defs[id][k] = Null
         /\ a.label # Null => (a.label.source = "profile") = (DOMAIN over # {})
         /\ query.asked.firmware # Null /\ a.label # Null => a.label.firmware = query.asked.firmware
=============================================================================
