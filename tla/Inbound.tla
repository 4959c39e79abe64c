-------------------------------- MODULE Inbound --------------------------------
(***************************************************************************)
(* The way into a Connection, from the transports up: what they deliver and *)
(* release, the pipelines that make frames of it, what becomes of a frame,  *)
(* what an In node passes on, and the codec both ways share.  A behaviour   *)
(* is of one of them, chosen at the start; each sees the others through its *)
(* inputs only.                                                            *)
(***************************************************************************)
EXTENDS Integers, FiniteSets, TLC

CONSTANTS
  None,
  Kinds, Addresses, MaxSockets, WriteIds,         \* of Transports; Addresses are its Endpoints
  Senders, Datagrams, MaxDecoders, MaxPending, IdleMs, \* of Decoders; Senders are its Endpoints
  MaxHeard, MaxFailures, Sweeps,
  Frames, Filters, Own, MaxSubs, MaxFrames,       \* of Receiver
  Arrivals, Configs, Second, StatusMs, MaxNow, MaxOut, \* of InNode; MaxNow also of Decoders
  Messages, Bags, Parameters,                     \* of Codec
  Blank, NaN, e1, e2                              \* of the small values of Receiver and Codec

VARIABLES
  part,                                                                  \* a choice, never changed
  kind, opening, usable, closed, closes, calledBack, finishing, handles, \* Transports
  listener, peerOf, clients, pending, reports, sent, ready, listening, decoders,
  mode, pipes, crcFailures, clock, heard, told,                          \* Decoders
  regime, linkState, badge, lastReason, subs, nextId, queue, turn, peers, vouched, \* Receiver
  config, open, lastFieldJson, lastDeliveryMs, shown, lastStatusMs, ticks, out, latest, \* InNode
  step, message, bag, frame, slot                                        \* Codec

transportVars == <<kind, opening, usable, closed, closes, calledBack, finishing, handles,
                   listener, peerOf, clients, pending, reports, sent, ready, listening, decoders>>
decodeVars == <<mode, pipes, crcFailures, clock, heard, told>>
receiveVars == <<regime, linkState, badge, lastReason, subs, nextId, queue, turn, peers, vouched>>
inVars == <<config, open, lastFieldJson, lastDeliveryMs, shown, lastStatusMs, ticks, out, latest>>
codecVars == <<step, message, bag, frame, slot>>
vars == <<part, transportVars, decodeVars, receiveVars, inVars, codecVars>>

T == INSTANCE Transports WITH Endpoints <- Addresses

D == INSTANCE Decoders WITH decoders <- pipes, Endpoints <- Senders

ASSUME TransportAssumption == T!TransportKinds /\ T!TransportBounds
ASSUME DecoderAssumption == D!DecoderBounds

R == INSTANCE Receiver WITH Undefined <- None
I == INSTANCE InNode WITH Undefined <- None

ASSUME ReceiverAssumption == R!ReceiverBounds /\ R!FramesAreSigned /\ R!NothingIsNoDispatch
ASSUME InAssumption == I!InBounds

-----------------------------------------------------------------------------
(* Small values for the checks: what reaches a runtime and its In node *)

EveryKind == {"client", "server", "serial", "udp", "listen"}
FewDatagrams == {<<"H">>, <<"R">>, <<"U", "R", "H">>, <<"J", "G", "J">>, <<"J", "J", "J">>}

Frame(name, sys, comp, to, verified, sig, e) ==
  [name |-> name, sysid |-> sys, compid |-> comp, toSysid |-> to, toCompid |-> to,
   crcVerified |-> verified, signature |-> sig, endpoint |-> e]
Filter(name, to, trusted) ==
  [message |-> name, sysid |-> None, compid |-> None, toSysid |-> to, toCompid |-> None, trustedOnly |-> trusted]

Ourselves == {[sysid |-> 9, compid |-> 9]}
FewFrames ==
  {Frame("x", 1, 1, None, TRUE, "good", e1), Frame("y", 1, 1, 0, TRUE, "bad", e2),
   Frame("y", 1, 2, 9, TRUE, "none", e1), Frame("u", 3, 1, None, FALSE, "replay", e2),
   Frame("x", 9, 9, None, TRUE, "good", e1), Frame("x", 0, 1, None, TRUE, "none", e1)}
FewFilters == {Filter("x", None, FALSE), Filter(None, 9, FALSE), Filter(None, None, TRUE)}

Rate(name, hz) == [name |-> name, hz |-> hz]
Arrival(name, from, v, w) ==
  [name |-> name, unknown |-> name = "u", from |-> from, fields |-> [value |-> v, kind |-> w]]
FewArrivals == {Arrival("x", 1, 1, 1), Arrival("x", 1, 2, 1), Arrival("y", 1, None, 1), Arrival("u", 2, 1, 1)}
FewConfigs ==
  {c \in [messages : {{}, {"x"}}, showUnknown : BOOLEAN, changedOnly : BOOLEAN,
          changedFields : {{}, {"kind", "absent"}}, fieldName : {None, "value"}, fieldValue : {None, 2},
          rateLimit : {<< >>, <<Rate(None, 1)>>, <<Rate(None, 2), Rate("x", 1), Rate("y", 0)>>}] :
     /\ c.fieldName = None => c.fieldValue = None
     /\ ~c.changedOnly => c.changedFields = {}}

-----------------------------------------------------------------------------
(* Messages, and what senders give *)

Field(at, name, type, length) ==
  [name |-> name, declared |-> at, type |-> type, arrayLength |-> length, extension |-> FALSE, constValue |-> None]
Extension(at, name, type, length) == [Field(at, name, type, length) EXCEPT !.extension = TRUE]
Fixed(at, name, type, v) == [Field(at, name, type, 0) EXCEPT !.constValue = v]

FewMessages ==
  {{Field(1, "n", "uint8_t", 0), Field(2, "f", "float", 0), Field(3, "a", "int16_t", 2),
    Extension(4, "e", "uint64_t", 0), Extension(5, "b", "uint8_t", 0)},
   {Field(1, "a", "char", 2), Fixed(2, "k", "uint8_t", 3), Field(3, "n", "int16_t", 0), Field(4, "f", "float", 0)},
   {Field(1, "a", "float", 2), Extension(2, "n", "int16_t", 0), Extension(3, "e", "float", 0)}}
FewBags ==
  {n @@ f @@ a @@ e : n \in {"n" :> 0, "n" :> 2, "n" :> NaN, "n" :> Blank, << >>},
     f \in {<< >>, "f" :> NaN, "f" :> 0}, e \in {<< >>, "e" :> 1, "b" :> 2},
     a \in {<< >>, "a" :> <<1>>, "a" :> <<0, 2>>, "a" :> <<1, 1, 1>>, "a" :> Blank}}
FewParameters ==
  [value : {0, 1, -1, 255, -128, 200, -300, 70000, 2139095041, -8388607}, type : {"UINT8", "INT8", "UINT16", "INT16", "INT32"}]

C == INSTANCE Codec WITH Null <- None
ASSUME CodecAssumption == C!CodecBounds

-----------------------------------------------------------------------------
NoTransport ==
  /\ kind = None /\ opening = None /\ usable = None /\ closed = None /\ closes = None
  /\ calledBack = None /\ finishing = None /\ handles = None /\ listener = None /\ peerOf = None
  /\ clients = None /\ pending = None /\ reports = None /\ sent = None /\ ready = None
  /\ listening = None /\ decoders = None

NoDecoder ==
  mode = None /\ pipes = None /\ crcFailures = None /\ clock = None /\ heard = None /\ told = None
NoReceiver ==
  /\ regime = None /\ linkState = None /\ badge = None /\ lastReason = None /\ subs = None /\ nextId = None
  /\ queue = None /\ turn = None /\ peers = None /\ vouched = None
NoInNode ==
  /\ config = None /\ open = None /\ lastFieldJson = None /\ lastDeliveryMs = None /\ shown = None
  /\ lastStatusMs = None /\ ticks = None /\ out = None /\ latest = None
NoCodec == step = None /\ message = None /\ bag = None /\ frame = None /\ slot = None

Init ==
  \/ part = "transport" /\ T!TransportInit /\ NoDecoder /\ NoReceiver /\ NoInNode /\ NoCodec
  \/ part = "decode" /\ D!DecodeInit /\ NoTransport /\ NoReceiver /\ NoInNode /\ NoCodec
  \/ part = "receive" /\ R!ReceiverInit /\ NoTransport /\ NoDecoder /\ NoInNode /\ NoCodec
  \/ part = "in" /\ I!InInit /\ NoTransport /\ NoDecoder /\ NoReceiver /\ NoCodec
  \/ part = "codec" /\ C!CodecInit /\ NoTransport /\ NoDecoder /\ NoReceiver /\ NoInNode

Next ==
  /\ UNCHANGED part
  /\ \/ part = "transport" /\ T!TransportNext /\ UNCHANGED <<decodeVars, receiveVars, inVars, codecVars>>
     \/ part = "decode" /\ D!DecodeNext /\ UNCHANGED <<transportVars, receiveVars, inVars, codecVars>>
     \/ part = "receive" /\ R!ReceiverNext /\ UNCHANGED <<transportVars, decodeVars, inVars, codecVars>>
     \/ part = "in" /\ I!InNext /\ UNCHANGED <<transportVars, decodeVars, receiveVars, codecVars>>
     \/ part = "codec" /\ C!Sends /\ UNCHANGED <<transportVars, decodeVars, receiveVars, inVars>>

Spec == Init /\ [][Next]_vars

\* What the operating system and the event loop owe (Transports), nothing of
\* peers, senders or the wire.
Fairness ==
  /\ WF_transportVars(part = "transport" /\ T!OpenSettles)
  /\ \A h \in T!Sockets : WF_transportVars(part = "transport" /\ T!OverIsTold(h))
  /\ WF_transportVars(part = "transport" /\ T!MainIsOver)
  /\ WF_transportVars(part = "transport" /\ T!FinishClose)
  /\ WF_transportVars(part = "transport" /\ T!ListenerCloses)
  /\ WF_transportVars(part = "transport" /\ T!DatagramsComplete)

FairSpec == Spec /\ Fairness

-----------------------------------------------------------------------------
(* Properties *)

\* Every write is answered exactly once (tcp.js:386-413, drain.js:25); a server's
\* replies go where the latest connection of an address is, and only its bytes
\* are decoded for it (tcp.js:318-360).
TransportIsTrue == part = "transport" => T!WritesAreAnswered /\ T!RoutesAreTheLatest

\* A pipeline gives the frames of its endpoint's stream, whatever others send.
StreamsAreTheirOwn == part = "decode" => D!StreamsAreTheirOwn

\* Source churn costs a peer in the middle of a frame its pipeline last.
PartialsOutliveChurn == [][part = "decode" => D!PartialsOutliveChurn]_vars

\* Only what proved itself teaches a route, and the override shows.
TrustIsEarned == part = "receive" => R!TrustIsEarned

\* A frame reaches who is there when its turn comes, once.
DispatchIsExact == [][part = "receive" => R!DispatchIsExact]_vars

\* The filters of an In node are one decision about what it passed on before.
PassesOnAsConfigured == part = "in" => I!PassesOnAsConfigured

\* A frame says what its sender meant, to new receivers and old ones.
FramesMeanTheSame == part = "codec" => C!FramesMeanTheSame

\* A close lets go of everything and calls back: every call is called back once,
\* no socket, port, listener or timer is left, and an open() in flight has
\* settled, whatever the peer does.  Only a UDP open() that close() overtook is
\* never answered; nobody waits for it (udp.js:233-240, tcp.js:31-41, serial.js:169).
Released ==
  /\ calledBack = closes
  /\ ~finishing /\ listener \in {"none", "gone"}
  /\ \A h \in T!Sockets : handles[h] \notin T!Held
  /\ T!Stream => opening # "pending"
EverythingIsReleased == part = "transport" /\ closes > 0 ~> part # "transport" \/ Released
=============================================================================
