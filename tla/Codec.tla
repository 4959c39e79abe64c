--------------------------------- MODULE Codec ---------------------------------
(***************************************************************************)
(* How a message becomes the bytes of a payload and comes back              *)
(* (lib/connection/wire.js, wire-classes.js), and how an integer parameter  *)
(* travels in a float's four bytes (lib/codec/param-union.js).              *)
(*                                                                         *)
(* A byte is a number.  A small integer v takes its type's size, lowest     *)
(* byte first; of a float only the highest byte counts here.  The checksum  *)
(* is what it is computed over.                                             *)
(***************************************************************************)
EXTENDS Integers, FiniteSets, Sequences

CONSTANTS
  Messages,   \* sets of fields [name, declared, type, arrayLength, extension, constValue],
              \* declared being the place in the definition
  Bags,       \* fields as a sender gives them: [some names -> values or sequences]
  Blank, NaN, Null, \* an empty input; not a number; nothing
  Parameters  \* values to send as integer parameters: [value, type]

VARIABLES step, message, bag, frame, slot
codecVars == <<step, message, bag, frame, slot>>

-----------------------------------------------------------------------------
(* Message classes *)

\* TYPE_INFO
Of(size, kind) == [size |-> size, kind |-> kind]
typeInfo == [uint8_t |-> Of(1, "uint"), int8_t |-> Of(1, "int"), uint16_t |-> Of(2, "uint"), int16_t |-> Of(2, "int"),
             uint32_t |-> Of(4, "uint"), int32_t |-> Of(4, "int"), uint64_t |-> Of(8, "uint64"), int64_t |-> Of(8, "int64"),
             float |-> Of(4, "float"), double |-> Of(8, "double"), char |-> Of(1, "char")]
elementSize(f) == typeInfo[f.type].size
Cells(f) == elementSize(f) * IF f.arrayLength = 0 THEN 1 ELSE f.arrayLength


\* Larger elements first, equal ones as declared; extensions behind, as declared.
Larger(f, g) == elementSize(f) > elementSize(g)
BeforeOfAll(f, g) == Larger(f, g) \/ (~Larger(g, f) /\ f.declared < g.declared)
Before(f, g) ==
  IF f.extension \/ g.extension THEN g.extension /\ (f.extension => f.declared < g.declared)
  ELSE Larger(f, g) \/ (~Larger(g, f) /\ f.declared < g.declared)
Core(fields) == {f \in fields : ~f.extension}

\* What CRC_EXTRA is computed over: in wire order, without extensions.
crcExtra(fields) ==
  {<<Cardinality({g \in Core(fields) : Before(g, f)}), f.type, f.name, f.arrayLength>> : f \in Core(fields)}

\* A field lies behind all the bytes of the fields before it.
CellsOf(fields) == UNION {{f} \X (1..Cells(f)) : f \in fields}
Offset(fields, f) == Cardinality({c \in CellsOf(fields) : Before(c[1], f)})
Place(fields, f) == Offset(fields, f) + 1 .. Offset(fields, f) + Cells(f)
PayloadLength(fields) == Cardinality(CellsOf(fields))

-----------------------------------------------------------------------------
(* Sending *)

IsFloat(f) == typeInfo[f.type].kind \in {"float", "double"}
IsInteger(f) == ~IsFloat(f) /\ typeInfo[f.type].kind # "char"
Given(f, b) == f.name \in DOMAIN b /\ b[f.name] # Blank

\* A core integer nobody spoke, or an array that does not fit, is refused.
assertCoreIntegerFieldsSpoken(fields, b) ==
  \A f \in fields :
    f.constValue = Null /\ ~f.extension /\ f.arrayLength = 0 /\ IsInteger(f) => Given(f, b) /\ b[f.name] # NaN
assertArraysFit(fields, b) ==
  \A f \in fields : f.constValue = Null /\ f.arrayLength > 0 /\ Given(f, b) => Len(b[f.name]) <= f.arrayLength

\* The class's defaults, then what the sender gave.
DefaultOf(f) == IF f.constValue # Null THEN f.constValue ELSE IF f.arrayLength > 0 THEN << >> ELSE 0
assignFields(fields, b) ==
  [f \in fields |-> IF f.constValue = Null /\ f.name \in DOMAIN b THEN b[f.name] ELSE DefaultOf(f)]

\* An element lies in its lowest byte, a float in its highest; what is not there is zero.
ValueByte(f) == IF IsFloat(f) THEN elementSize(f) ELSE 1
Element(f, v) == IF v = Blank \/ (v = NaN /\ IsInteger(f)) THEN 0 ELSE IF v = NaN THEN 255 ELSE v
ElementAt(f, v, i) == IF v = Blank \/ f.arrayLength = 0 THEN v ELSE IF i <= Len(v) THEN v[i] ELSE Blank
Bytes(f, v) ==
  [k \in 1..Cells(f) |-> IF (k - 1) % elementSize(f) = ValueByte(f) - 1
                         THEN Element(f, ElementAt(f, v, (k - 1) \div elementSize(f) + 1)) ELSE 0]

\* v2 cuts every trailing zero; one byte stays.
Truncated(payload) ==
  LET full == {i \in DOMAIN payload : payload[i] # 0}
      length == IF full = {} THEN 1 ELSE CHOOSE i \in full : \A j \in full : j <= i
  IN  [i \in 1..length |-> payload[i]]

Payload(fields, values) ==
  [at \in 1..PayloadLength(fields) |-> LET f == CHOOSE g \in fields : at \in Place(fields, g)
                                       IN  Bytes(f, values[f])[at - Offset(fields, f)]]

Nothing == [payload |-> << >>, seed |-> {}]
serialize(fields, b) ==
  IF ~assertCoreIntegerFieldsSpoken(fields, b) \/ ~assertArraysFit(fields, b) THEN Nothing
  ELSE [payload |-> Truncated(Payload(fields, assignFields(fields, b))), seed |-> crcExtra(fields)]

-----------------------------------------------------------------------------
(* Receiving *)

\* What was cut is zero; what goes past the message as this side knows it is left out.
Padded(payload, at) == IF at \in DOMAIN payload THEN payload[at] ELSE 0
Read(f, bytes) ==
  LET one(i) == LET byte == bytes[(i - 1) * elementSize(f) + ValueByte(f)]
                IN  IF IsFloat(f) /\ byte = 255 THEN NaN ELSE byte
  IN  IF f.arrayLength = 0 THEN one(1) ELSE [i \in 1..f.arrayLength |-> one(i)]
extractFields(fields, payload) ==
  {[name |-> f.name, value |-> Read(f, [k \in 1..Cells(f) |-> Padded(payload, Offset(fields, f) + k)])] : f \in fields}

-----------------------------------------------------------------------------
(* The parameter union *)

ParamTypes == [UINT8 |-> [bytes |-> 1, least |-> 0, most |-> 255], INT8 |-> [bytes |-> 1, least |-> -128, most |-> 127],
               UINT16 |-> [bytes |-> 2, least |-> 0, most |-> 65535],
               INT16 |-> [bytes |-> 2, least |-> -32768, most |-> 32767],
               INT32 |-> [bytes |-> 4, least |-> -2147483647 - 1, most |-> 2147483647]]
Weights == <<1, 256, 65536, 16777216>>
Byte(n, k) == (n \div Weights[k]) % 256
\* A signaling NaN comes out of a JavaScript number as a quiet one.
Quiet(four) == IF four[4] % 128 = 127 /\ four[3] >= 128 /\ four[3] < 192 /\ <<four[1], four[2], four[3]>> # <<0, 0, 128>>
               THEN [four EXCEPT ![3] = @ + 64] ELSE four
writeInt(n, t) == [k \in 1..4 |-> IF k <= ParamTypes[t].bytes THEN Byte(n, k) ELSE 0]
paramValueToWire(n, t) ==
  IF n < ParamTypes[t].least \/ n > ParamTypes[t].most THEN Null ELSE Quiet(writeInt(n, t))
readInt(four, t) ==
  LET size == ParamTypes[t].bytes
      top == IF ParamTypes[t].least < 0 /\ four[size] >= 128 THEN four[size] - 256 ELSE four[size]
  IN  CASE size = 1 -> top
        [] size = 2 -> top * 256 + four[1]
        [] size = 4 -> top * 16777216 + four[3] * 65536 + four[2] * 256 + four[1]
paramValueFromWire(four, t) == readInt(four, t)

-----------------------------------------------------------------------------
\* What a definition may be, and what may be given for its fields.
Spoken(f) == (0..254) \cup IF IsFloat(f) \/ IsInteger(f) THEN {NaN} ELSE {}
IsField(f) ==
  /\ f.declared \in Nat /\ f.type \in DOMAIN typeInfo /\ f.arrayLength \in Nat /\ f.extension \in BOOLEAN
  /\ f.constValue # Null => f.constValue \in 0..254 /\ f.arrayLength = 0
Fits(f, b) ==
  f.name \in DOMAIN b /\ b[f.name] # Blank => b[f.name] \in IF f.arrayLength = 0 THEN Spoken(f) ELSE Seq(Spoken(f))
CodecBounds ==
  /\ Blank \notin 0..255 /\ NaN \notin 0..255 /\ Blank # NaN
  /\ \A m \in Messages :
       /\ IsFiniteSet(m) /\ m # {}
       /\ \A f \in m : IsField(f) /\ \A g \in m : f.declared = g.declared => f = g
       /\ \A f \in m, b \in Bags : Fits(f, b)
  /\ Parameters \subseteq [value : Int, type : DOMAIN ParamTypes]

CodecInit == step = "send" /\ message \in Messages /\ bag \in Bags /\ frame = Null /\ slot = Null

Sends ==
  /\ step = "send" /\ step' = "sent"
  /\ frame' = serialize(message, bag)
  /\ slot' = [p \in Parameters |-> paramValueToWire(p.value, p.type)]
  /\ UNCHANGED <<message, bag>>

-----------------------------------------------------------------------------
(* Properties *)

\* What a receiver is owed of a field: what was spoken, zero for what was not,
\* arrays filled up.
Owed(f, b) ==
  LET spoken == f.name \in DOMAIN b /\ b[f.name] # Blank
      given == IF f.constValue # Null THEN f.constValue ELSE IF spoken THEN b[f.name] ELSE IF f.arrayLength > 0 THEN << >> ELSE 0
      meant(v) == IF v = NaN /\ IsInteger(f) THEN 0 ELSE v
  IN  IF f.arrayLength = 0 THEN meant(given) ELSE [i \in 1..f.arrayLength |-> IF i <= Len(given) THEN meant(given[i]) ELSE 0]

\* A frame says what its sender meant, to a receiver that knows the message and to
\* one that knows it without its extensions; an empty one still has a byte; and
\* nothing goes out with an integer nobody spoke or an array cut short.  An integer
\* parameter comes back as it went, unless its bytes spell a signaling NaN
\* (wire.js:261-301, 455-529; wire-classes.js:64-96; DESIGN.md 14.68).
FramesMeanTheSame ==
  step = "sent" =>
    /\ frame = Nothing <=>
         \E f \in message :
           /\ f.constValue = Null
           /\ \/ ~f.extension /\ f.arrayLength = 0 /\ IsInteger(f) /\ Owed(f, bag) = 0
                 /\ ~(f.name \in DOMAIN bag /\ bag[f.name] = 0)
              \/ f.arrayLength > 0 /\ f.name \in DOMAIN bag /\ bag[f.name] # Blank /\ Len(bag[f.name]) > f.arrayLength
    /\ frame # Nothing =>
         /\ Len(frame.payload) >= 1
         /\ \A reader \in {message, Core(message)} :
              /\ frame.seed = crcExtra(reader)
              /\ extractFields(reader, frame.payload) = {[name |-> f.name, value |-> Owed(f, bag)] : f \in reader}
    /\ \A p \in Parameters :
         LET signaling == p.type = "INT32" /\ p.value % 8388608 > 0 /\ p.value % 8388608 < 4194304 /\ (p.value \div 8388608) % 256 = 255
         IN  slot[p] # Null /\ ~signaling => paramValueFromWire(slot[p], p.type) = p.value
=============================================================================
