------------------------------ MODULE EditorDialogs ------------------------------
(***************************************************************************)
(* The dialog of a node in the editor (resources/mavlink-editor.js): fields*)
(* that depend on each other, two selects filled from catalogs that arrive *)
(* late, and validators that may run while another dialog is open.         *)
(*                                                                         *)
(* A handler is one step; what is asked of the server is answered in any   *)
(* order, or fails.  One node dialog is open at a time, and the dialog of  *)
(* a Connection on top of it.  The editor itself (its edit stack, what a   *)
(* save copies and validates) is external.                                 *)
(***************************************************************************)
EXTENDS Integers, FiniteSets, SequencesExt

CONSTANTS
  Null,           \* a select without options
  DialectOf,      \* [Vehicle Profile -> its dialect]
  SysidOf,        \* [Vehicle Profile -> its target system]
  Roles,          \* [Local Identity -> [role, sysid, compid]]
  ConnsAtOpen,    \* [Connection -> [vehicle, ids]], the default identity first
  ConnEdits,      \* what an edit of a Connection may make of it
  SavedAtOpen,    \* [node -> config]
  CatalogOf,      \* [dialect -> its entries, in order]
  Matches,        \* [text -> [entry -> how it matches]]
  MaxChanges      \* a bound: changes by the operator

VARIABLES
  conns, saved, valid,   \* Connections; configs and cached validity of the nodes
  stack,                 \* RED.editor.getEditStack()
  live,                  \* the fields of the dialog
  options,               \* [select -> [from, has]]: the target and entries it was filled with
  pending,               \* requests: [to, age, from, want]; age 0 is the last one
  touched,               \* history: fields the operator set since the dialog opened
  refill,                \* the editor is about to fire change on the Connection picker
  changes

editorVars == <<conns, saved, valid, stack, live, options, pending, touched, refill, changes>>

Blank == ""
Escape == "__vehicle"
Selects == {"targetComponent", "advancedCommand"}
Fields == {"delivery", "dialect", "connection", "identity", "action"}
Deliveries == <<"build", "send", "confirm", "collect">>
Actions == <<"read", "set", "request-list">>

-----------------------------------------------------------------------------
(* What the fields say *)

Nowhere == [profile |-> Blank, dialect |-> Blank]
ForProfile(v) == [profile |-> v, dialect |-> DialectOf[v]]

\* resolveCatalogTarget: its key and query.
resolveCatalogTarget(fields, cs) ==
  IF fields.delivery = "build"
  THEN IF fields.dialect = Blank THEN Nowhere
       ELSE IF fields.dialect = Escape THEN ForProfile(fields.vehicle)
       ELSE [profile |-> Blank, dialect |-> fields.dialect]
  ELSE IF fields.connection = Blank THEN Nowhere ELSE ForProfile(cs[fields.connection].vehicle)

\* The dependentSelect of the Param node's action.
AllowedActions(delivery) ==
  CASE delivery = "confirm" -> {"read", "set"} [] delivery = "collect" -> {"request-list"}
    [] OTHER -> Range(Actions)

\* refreshOptionSelect, after a reset: the first that is left.
refreshOptionSelect(all, allowed) == SelectSeq(all, LAMBDA o : o \in allowed)[1]

\* identityOptionsFor, of every role.
identityOptionsFor(c, cs) == IF c = Blank THEN << >> ELSE cs[c].ids

\* fillIdentitySelect: the saved one if it is eligible, else the first.
fillIdentitySelect(c, cs, kept) ==
  LET ids == identityOptionsFor(c, cs)
  IN IF Contains(ids, kept) THEN kept ELSE IF ids = << >> THEN Blank ELSE ids[1]

\* identityWireIds: a companion is a component of the vehicle's system.
identityWireIds(i, v) ==
  <<IF Roles[i].role = "companion" THEN SysidOf[v] ELSE Roles[i].sysid, Roles[i].compid>>

duplicateBoundIdentity(c) ==
  \E i, j \in DOMAIN c.ids : i < j /\ identityWireIds(c.ids[i], c.vehicle) = identityWireIds(c.ids[j], c.vehicle)

-----------------------------------------------------------------------------
(* Validators *)

\* ownDialogField: the dialog on top is the node's own.
OwnDialog(n, st) == st # << >> /\ Last(st) = n

\* liveOr.
liveOr(n, f, st, form, cfg) == IF OwnDialog(n, st) /\ form[f] # Blank THEN form[f] ELSE cfg[f]

\* connectionDefault, buildTierDialectDefaults and identityOverrideValidator.
Validated(n, st, form, cfg, cs) ==
  LET build == liveOr(n, "delivery", st, form, cfg) = "build"
      escape == liveOr(n, "dialect", st, form, cfg) = Escape
      c == liveOr(n, "connection", st, form, cfg)
  IN /\ ~build => cfg.connection # Blank /\ ~duplicateBoundIdentity(cs[cfg.connection])
     /\ build => cfg.dialect # Blank
     /\ build /\ escape => cfg.vehicle # Blank
     /\ cfg.identity # Blank /\ c # Blank => Contains(identityOptionsFor(c, cs), cfg.identity)

-----------------------------------------------------------------------------
(* Catalogs *)

\* fillEnumSelect: the entries, and a value to keep that is not among them
\* beside them (ensureSavedEnumOption).
fillEnumSelect(keep, entries) ==
  [value |-> keep, has |-> entries \o (IF keep = Blank \/ Contains(entries, keep) THEN << >> ELSE <<keep>>)]

\* Which value a fill is to keep: components the one noted when they were asked
\* for, commands what the select shows by now, or else the saved one (preferLive).
Kept(select, noted, shown, cfg) ==
  IF select = "targetComponent" THEN noted
  ELSE IF shown \in {Null, Blank} THEN cfg.advancedCommand ELSE shown

\* Mutant: an answer is an answer.
AnyAnswer(r) == TRUE

\* seq === state.seq, Number($select.data(seqKey)) === seq.
Latest(r) == r.age = 0

Older(rs) == {IF r.to \in Selects THEN [r EXCEPT !.age = @ + 1] ELSE r : r \in rs}

\* What is asked of the server for a target (loadEnumsCatalog, loadCatalog).
Asked(rs, target, noted) ==
  Older(rs) \cup {[to |-> s, age |-> 0, from |-> target, noted |-> noted] : s \in Selects}

\* reloadTargetCompId and loadCatalog, for the fields of n's dialog.  Where there
\* is nothing to ask, both selects are filled with nothing at once.
Reloads(n, form, opts, rs, cs) ==
  LET target == resolveCatalogTarget(form, cs)
      noted == IF form.targetComponent = Null THEN saved[n].targetComponent ELSE form.targetComponent
      fill(s) == fillEnumSelect(Kept(s, noted, form[s], saved[n]), << >>)
  IN IF target = Nowhere
     THEN /\ live' = [f \in DOMAIN form |-> IF f \in Selects THEN fill(f).value ELSE form[f]]
          /\ options' = [s \in Selects |-> [from |-> target, has |-> fill(s).has]]
          /\ pending' = Older(rs)
     ELSE /\ live' = form /\ options' = opts
          /\ pending' = Asked(rs, target, noted)

\* An answer, or a failure: the last one asked for fills its select.
Answered(r, answers) ==
  LET entries == IF answers THEN CatalogOf[r.from.dialect] ELSE << >>
      fill == fillEnumSelect(Kept(r.to, r.noted, live[r.to], saved[stack[1]]), entries)
  IN /\ r \in pending /\ r.to \in Selects
     /\ pending' = pending \ {r}
     /\ IF stack # << >> /\ Latest(r)
        THEN /\ live' = [live EXCEPT ![r.to] = fill.value]
             /\ options' = [options EXCEPT ![r.to] = [from |-> r.from, has |-> fill.has]]
        ELSE UNCHANGED <<live, options>>
     /\ UNCHANGED <<conns, saved, valid, stack, touched, refill, changes>>

\* populateDialectSelect's answer: the other dialects; the saved one was there.
DialectsArrive ==
  /\ \E r \in pending : r.to = "dialect" /\ pending' = pending \ {r}
  /\ UNCHANGED <<conns, saved, valid, stack, live, options, touched, refill, changes>>

-----------------------------------------------------------------------------
(* The operator *)

Unfilled == [s \in Selects |-> [from |-> Nowhere, has |-> << >>]]
OnTop(n) == stack = <<n>> /\ ~refill
Changing(n) == OnTop(n) /\ changes < MaxChanges /\ changes' = changes + 1

\* oneditprepare: the saved dialect pinned, the identity filled in, catalogs asked.
Open(n) ==
  /\ stack = << >> /\ changes < MaxChanges /\ changes' = changes + 1
  /\ stack' = <<n>> /\ touched' = {}
  /\ LET cfg == saved[n]
         form == [cfg EXCEPT !.targetComponent = Null, !.advancedCommand = Null,
                             !.identity = fillIdentitySelect(cfg.connection, conns, @)]
     IN Reloads(n, form, Unfilled, pending \cup {[to |-> "dialect", age |-> 0, from |-> Nowhere, noted |-> Blank]}, conns)
  /\ UNCHANGED <<conns, saved, valid, refill>>

\* The change handlers of the fields that decide where catalogs come from.
ChangesField(n, f, v) ==
  /\ Changing(n) /\ live[f] # v /\ touched' = touched \cup {f}
  /\ f = "dialect" => ~\E r \in pending : r.to = "dialect"
  /\ LET form == [live EXCEPT ![f] = v]
     IN Reloads(n,
          CASE f = "connection" -> [form EXCEPT !.identity = fillIdentitySelect(v, conns, saved[n].identity)]
            [] f = "delivery"   -> [form EXCEPT !.action = refreshOptionSelect(Actions, AllowedActions(v))]
            [] OTHER            -> form,
          options, pending, conns)
  /\ UNCHANGED <<conns, saved, valid, stack, refill>>

\* The fields that decide nothing else.
Picks(n, f, v) ==
  /\ Changing(n) /\ live[f] # v /\ touched' = touched \cup {f}
  /\ CASE f \in Selects -> options[f].has # << >> /\ v \in Range(options[f].has) \cup {Blank}
       [] f = "identity" -> Contains(identityOptionsFor(live.connection, conns), v)
       [] f = "action"   -> v \in AllowedActions(live.delivery)
  /\ live' = [live EXCEPT ![f] = v]
  /\ UNCHANGED <<conns, saved, valid, stack, options, pending, refill>>

\* rankEnumEntries, and resolveEnumEntry: one that is named outright.
rankEnumEntries(entries, text) ==
  LET how(h) == SelectSeq(entries, LAMBDA e : Matches[text][e] = h)
  IN how("exact") \o how("starts") \o how("contains") \o how("described")
resolveEnumEntry(entries, text) == SelectSeq(entries, LAMBDA e : Matches[text][e] = "exact")

\* mountEnumSearch: Enter completes to the top row; what names an entry goes to
\* the select, anything else leaves it.
Types(n, text, enter) ==
  LET entries == SelectSeq(options.advancedCommand.has, LAMBDA e : Contains(CatalogOf[options.advancedCommand.from.dialect], e))
      rows == rankEnumEntries(entries, text)
      hits == IF enter /\ rows # << >> THEN <<rows[1]>> ELSE resolveEnumEntry(entries, text)
  IN /\ options.advancedCommand.from # Nowhere /\ hits # << >> /\ Picks(n, "advancedCommand", hits[1])

EditConnection(n) ==
  /\ OnTop(n) /\ changes < MaxChanges /\ changes' = changes + 1
  /\ live.connection # Blank /\ stack' = <<n, live.connection>>
  /\ UNCHANGED <<conns, saved, valid, live, options, pending, touched, refill>>

\* An update of the Connection validates its users, its own dialog still on top;
\* then the picker fires.
SaveConnection(new) ==
  /\ Len(stack) = 2
  /\ conns' = [conns EXCEPT ![stack[2]] = new]
  /\ valid' = [m \in DOMAIN saved |->
                 IF saved[m].connection = stack[2]
                 THEN Validated(m, stack, live, saved[m], [conns EXCEPT ![stack[2]] = new]) ELSE valid[m]]
  /\ stack' = <<stack[1]>> /\ refill' = TRUE
  /\ UNCHANGED <<saved, live, options, pending, touched, changes>>

ConnectionFires ==
  /\ refill /\ refill' = FALSE
  /\ LET n == stack[1]
         form == [live EXCEPT !.identity = fillIdentitySelect(live.connection, conns, saved[n].identity)]
     IN Reloads(n, form, options, pending, conns)
  /\ UNCHANGED <<conns, saved, valid, stack, touched, changes>>

\* A select without options saves nothing.
Done(n) ==
  /\ OnTop(n)
  /\ LET cfg == [f \in DOMAIN live |-> IF live[f] = Null THEN saved[n][f] ELSE live[f]]
     IN /\ saved' = [saved EXCEPT ![n] = cfg]
        /\ valid' = [valid EXCEPT ![n] = Validated(n, stack, live, cfg, conns)]
  /\ stack' = << >> /\ options' = Unfilled
  /\ pending' = {r \in pending : r.to = "advancedCommand"}   \* the others' selects are gone
  /\ UNCHANGED <<conns, live, touched, refill, changes>>

Cancel(n) ==
  /\ OnTop(n)
  /\ stack' = << >> /\ options' = Unfilled
  /\ pending' = {r \in pending : r.to = "advancedCommand"}
  /\ UNCHANGED <<conns, saved, valid, live, touched, refill, changes>>

-----------------------------------------------------------------------------
EditorInit ==
  /\ conns = ConnsAtOpen /\ saved \in SavedAtOpen
  /\ valid = [n \in DOMAIN saved |-> Validated(n, << >>, saved[n], saved[n], conns)]
  /\ stack = << >> /\ live = << >> /\ options = Unfilled /\ pending = {}
  /\ touched = {} /\ refill = FALSE /\ changes = 0

EditorNext ==
  \/ \E n \in DOMAIN saved :
       \/ Open(n) \/ EditConnection(n) \/ Done(n) \/ Cancel(n)
       \/ \E d \in Range(Deliveries) : ChangesField(n, "delivery", d)
       \/ \E d \in DOMAIN CatalogOf \cup {Escape} : ChangesField(n, "dialect", d)
       \/ \E c \in DOMAIN conns : ChangesField(n, "connection", c)
       \/ \E i \in DOMAIN Roles : Picks(n, "identity", i)
       \/ \E a \in Range(Actions) : Picks(n, "action", a)
       \/ \E s \in Selects : \E v \in Range(options[s].has) \cup {Blank} : Picks(n, s, v)
       \/ \E text \in DOMAIN Matches, enter \in BOOLEAN : Types(n, text, enter)
  \/ \E r \in pending, answers \in BOOLEAN : Answered(r, answers)
  \/ DialectsArrive \/ ConnectionFires
  \/ \E new \in ConnEdits : SaveConnection(new)

-----------------------------------------------------------------------------
(* Properties *)

\* What is on screen is of what is selected: once nothing is on its way, both
\* selects hold the catalog of the dialect the fields lead to now, whatever was
\* asked before, in this dialog or another (1189-1225, 1293-1325).
CatalogsAreCurrent ==
  stack # << >> /\ ~refill /\ (\A r \in pending : ~(r.to \in Selects /\ r.age = 0)) =>
    \A s \in Selects :
      /\ options[s].from = resolveCatalogTarget(live, conns)
      /\ live[s] \in Range(options[s].has) \cup {Blank}

\* A dialog changes what the operator changed.  A saved value that the catalog
\* lacks is kept, a command picked is kept by later catalogs, and the action is
\* one the delivery has (879-898, 1037-1046, 2116-2170).
OnlyTheTouchedChanges ==
  stack # << >> =>
    LET cfg == saved[stack[1]]
    IN /\ \A f \in (Fields \cup Selects) \ (touched \cup {"identity", "action"}) : live[f] \in {cfg[f], Null}
       /\ "delivery" \notin touched => "action" \in touched \/ live.action = cfg.action
       /\ live.action \in AllowedActions(live.delivery) \/ "delivery" \notin touched
       /\ ~refill /\ live.identity # cfg.identity =>
            \/ "identity" \in touched
            \/ ~Contains(identityOptionsFor(live.connection, conns), cfg.identity)

\* What the editor has cached of a node is what its config says, whichever dialog
\* was open when it was validated (1592-1612).
ValidityIsTrue ==
  \A n \in DOMAIN saved :
    LET cfg == saved[n]
        build == cfg.delivery = "build"
    IN valid[n] <=>
         /\ IF build THEN cfg.dialect # Blank /\ (cfg.dialect = Escape => cfg.vehicle # Blank)
            ELSE cfg.connection # Blank /\ ~duplicateBoundIdentity(conns[cfg.connection])
         /\ cfg.identity # Blank /\ cfg.connection # Blank => cfg.identity \in Range(conns[cfg.connection].ids)

DialogsAreSound == CatalogsAreCurrent /\ OnlyTheTouchedChanges /\ ValidityIsTrue
=============================================================================
