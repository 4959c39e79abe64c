-------------------------------- MODULE InNode --------------------------------
(***************************************************************************)
(* An In node (nodes/mavlink-in.js): which of the frames that reach its      *)
(* subscriptions it passes on.  The name, field, rate and changed-only       *)
(* filters each keep or read what earlier frames left behind.                *)
(***************************************************************************)
EXTENDS Integers, SequencesExt

CONSTANTS
  Arrivals,   \* [name, unknown, from, fields: [Fields -> values]], without the time stamps
  Configs,    \* [messages, showUnknown, changedOnly, changedFields, fieldName, fieldValue, rateLimit]
  Undefined,  \* a field that is not there, a setting left blank
  Second, StatusMs, \* clock ticks in a second, and between two badges
  MaxNow, MaxOut    \* bounds: the clock; messages passed on

InBounds == {Second, StatusMs, MaxNow, MaxOut} \subseteq Nat \ {0}

VARIABLES
  config, open, \* the node's settings; it has not been closed
  lastFieldJson, lastDeliveryMs,  \* [key -> what was compared], [key -> when it was passed on]
  shown, lastStatusMs,            \* the badge, and when it was written
  ticks,
  out, latest   \* history: what was passed on; the latest arrival, when it came and what had gone before

inVars == <<config, open, lastFieldJson, lastDeliveryMs, shown, lastStatusMs, ticks, out, latest>>

-----------------------------------------------------------------------------
Key(d) == [name |-> d.name, from |-> d.from]
Put(map, key, value) == [k \in DOMAIN map \cup {key} |-> IF k = key THEN value ELSE map[k]]

\* parseRateLimit: a bare rate is the default, a named one that message's; 0 is
\* no limit, and the last of a kind counts.
Interval(hz) == IF hz > 0 THEN Second \div hz ELSE 0
LimitIn(rates, name) ==
  LET named == SelectSeq(rates, LAMBDA t : t.name = name)
      bare == SelectSeq(rates, LAMBDA t : t.name = Undefined)
  IN  IF named # << >> THEN Interval(Last(named).hz)
      ELSE IF bare # << >> THEN Interval(Last(bare).hz) ELSE 0
LimitMs(name) == LimitIn(config.rateLimit, name)

\* How many of its subscriptions a frame reaches: one for each name, the
\* unfiltered one, or the one for unknown names beside the named.
Subscriptions(d) ==
  IF config.messages = {} THEN 1
  ELSE Cardinality({m \in config.messages : m = d.name}) + (IF config.showUnknown /\ d.unknown THEN 1 ELSE 0)

\* The field predicate.
HasField(d) ==
  config.fieldName # Undefined =>
    /\ d.fields[config.fieldName] # Undefined
    /\ config.fieldValue # Undefined => d.fields[config.fieldName] = config.fieldValue

\* What changed-only compares: the fields named, or all but the time stamps.
SubjectIn(names, d) ==
  IF names # {} THEN [f \in names |-> IF f \in DOMAIN d.fields THEN d.fields[f] ELSE Undefined] ELSE d.fields
Subject(d) == SubjectIn(config.changedFields, d)

InTime(d) ==
  \/ LimitMs(d.name) = 0 \/ Key(d) \notin DOMAIN lastDeliveryMs
  \/ ticks - lastDeliveryMs[Key(d)] >= LimitMs(d.name)
Changed(d) == Key(d) \in DOMAIN lastFieldJson => lastFieldJson[Key(d)] # Subject(d)

\* onDecoded, from the gates to what each leaves behind.
Wanted(d) == (d.unknown => config.showUnknown) /\ HasField(d)
ComparedBeforeTheRate(d) == IF config.changedOnly /\ Wanted(d) THEN Put(lastFieldJson, Key(d), Subject(d)) ELSE lastFieldJson
Compared(d) == IF config.changedOnly /\ Wanted(d) /\ InTime(d) THEN Put(lastFieldJson, Key(d), Subject(d)) ELSE lastFieldJson
Passes(d) == Wanted(d) /\ InTime(d) /\ (config.changedOnly => Changed(d))

OnDecoded(d) ==
  /\ lastFieldJson' = Compared(d)
  /\ lastDeliveryMs' = IF Passes(d) THEN Put(lastDeliveryMs, Key(d), ticks) ELSE lastDeliveryMs
  /\ out' = IF Passes(d) THEN Append(out, [frame |-> d, at |-> ticks]) ELSE out
  /\ IF Passes(d) /\ ticks - lastStatusMs >= StatusMs THEN shown' = d.name /\ lastStatusMs' = ticks
     ELSE UNCHANGED <<shown, lastStatusMs>>

-----------------------------------------------------------------------------
InInit ==
  /\ config \in Configs /\ open = TRUE
  /\ lastFieldJson = << >> /\ lastDeliveryMs = << >>
  /\ shown = "waiting" /\ lastStatusMs = -StatusMs /\ ticks = 0
  /\ out = << >> /\ latest = Undefined

Arrives(d) ==
  /\ Len(out) < MaxOut
  /\ latest' = [frame |-> d, at |-> ticks, before |-> Len(out)]
  /\ IF open /\ Subscriptions(d) > 0 THEN OnDecoded(d)
     ELSE UNCHANGED <<lastFieldJson, lastDeliveryMs, shown, lastStatusMs, out>>
  /\ UNCHANGED <<config, open, ticks>>

InCloses == open /\ open' = FALSE /\ latest' = Undefined
            /\ UNCHANGED <<config, lastFieldJson, lastDeliveryMs, shown, lastStatusMs, ticks, out>>

\* The wall clock moves on, or is set back.
Ticks == /\ \E t \in 0..MaxNow \ {ticks} : ticks' = t
         /\ UNCHANGED <<config, open, lastFieldJson, lastDeliveryMs, shown, lastStatusMs, out, latest>>

InNext == (\E d \in Arrivals : Arrives(d)) \/ InCloses \/ Ticks

-----------------------------------------------------------------------------
(* Properties *)

\* The filters together are one decision about what was passed on before: a
\* wanted frame goes on, once, when its interval is over and, with changed-only,
\* when it differs from the last of its kind that went on.  A change that arrives
\* too early is not forgotten: its next report goes on (mavlink-in.js:146-204).
LastOfKin(d, before, i) ==
  /\ i \in DOMAIN before /\ Key(before[i].frame) = Key(d)
  /\ \A j \in DOMAIN before : j > i => Key(before[j].frame) # Key(d)
Due(d, at, before) ==
  /\ open /\ Wanted(d) /\ (config.messages = {} \/ d.name \in config.messages \/ d.unknown)
  /\ \A i \in DOMAIN before : LastOfKin(d, before, i) =>
       /\ LimitMs(d.name) # 0 => at - before[i].at >= LimitMs(d.name)
       /\ config.changedOnly => Subject(before[i].frame) # Subject(d)

PassesOnAsConfigured ==
  latest # Undefined =>
    LET before == SubSeq(out, 1, latest.before)
    IN  out = IF Due(latest.frame, latest.at, before) THEN Append(before, [frame |-> latest.frame, at |-> latest.at]) ELSE before
=============================================================================
