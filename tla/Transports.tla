------------------------------ MODULE Transports ------------------------------
(***************************************************************************)
(* One transport object (lib/connection/transport): a TCP client, a TCP    *)
(* server, a serial port or a UDP socket, with the runtime that opens it,   *)
(* writes to it, decodes what it delivers and closes it.                    *)
(*                                                                         *)
(* Handle 1 (Main) is the client's socket, the port or the dgram socket; a  *)
(* server numbers the sockets it accepts, and its listener is a variable of *)
(* its own.  A handle is "opening", "live", "dying" (over, or being closed, *)
(* with its last events still to come), "errored" (destroyed; for a serial  *)
(* port: failed, and the device still held) or "gone".  Node's stream and   *)
(* socket semantics are the environment.                                    *)
(***************************************************************************)
EXTENDS Integers, FiniteSets

CONSTANTS
  Kinds,       \* "client", "server", "serial", "udp" or "listen" (UDP without a remote)
  Endpoints,   \* addresses peers connect from
  MaxSockets,  \* bound: sockets a server accepts
  WriteIds,    \* the writes of a behaviour
  None

Main == 1
Sockets == 1..MaxSockets

TransportKinds == Kinds \subseteq {"client", "server", "serial", "udp", "listen"}
TransportBounds == MaxSockets \in Nat \ {0} /\ Endpoints # {} /\ None \notin Sockets \cup Endpoints

VARIABLES
  kind,       \* which transport this is; it never changes
  opening,    \* open(): "none" | "pending" | "resolved" | "rejected"
  usable,     \* _connected of a TCP client, _open of a port; a server or dgram socket that listens
  closed,     \* _closed
  closes, calledBack,   \* calls of close(), and their callbacks that ran
  finishing,  \* a client's end() and its close timer are pending
  handles,    \* [Sockets -> state]
  listener,   \* the server's listener: "none" | "opening" | "live" | "dying" | "gone"
  peerOf,     \* [Sockets -> Endpoints]: where an accepted socket comes from
  clients,    \* _clients: [Endpoints -> Sockets \cup {None}]
  pending,    \* writes not yet reported: [id, on]
  reports,    \* [WriteIds -> Nat]: how often a write's callback ran
  sent,       \* writes handed to the transport
  ready,      \* the runtime's _ready
  listening,  \* the runtime's listeners are attached
  decoders    \* [Endpoints -> SUBSET Sockets]: whose bytes the endpoint's decoder holds

openVars  == <<opening, usable, closed, closes, calledBack, finishing>>
sockVars  == <<handles, listener, peerOf, clients>>
writeVars == <<pending, reports, sent>>
tvars == <<kind, openVars, sockVars, writeVars, ready, listening, decoders>>

Dgram  == kind \in {"udp", "listen"}
Stream == ~Dgram
Held   == {"opening", "live", "dying"} \cup (IF kind = "serial" THEN {"errored"} ELSE {})
Remote == CHOOSE e \in Endpoints : TRUE   \* a client's or port's one endpoint

-----------------------------------------------------------------------------
(* Writes *)

\* The callbacks of the writes ws run, each with the outcome it is given.
Report(ws) ==
  /\ pending' = pending \ ws
  /\ reports' = [i \in WriteIds |-> IF i \in {w.id : w \in ws} THEN reports[i] + 1 ELSE reports[i]]
  /\ UNCHANGED sent

\* Mutant: the writes of a socket that failed wait for a drain.
FailWritesOfNone(ss) == Report({w \in pending : w.on \in ss /\ handles[w.on] = "none"})

\* _failSocketWrites, _failPendingWrites: what waits on these handles is over.
FailWrites(ss) == Report({w \in pending : w.on \in ss})

\* _resolveSocket: a server's target is exact, without one the only client
\* there is; a client's socket while it is connected.
ResolveSocket(e) ==
  LET connected == {clients[x] : x \in Endpoints} \ {None}
  IN CASE kind = "client" -> IF usable THEN Main ELSE None
       [] kind = "server" /\ e # None -> clients[e]
       [] OTHER           -> IF Cardinality(connected) = 1 THEN CHOOSE s \in connected : TRUE ELSE None

PortOf == IF usable THEN Main ELSE None

\* A datagram goes to its endpoint, or to the configured remote.
SocketFor(e) == IF e = None /\ kind = "listen" THEN None ELSE Main

Resolve(e) ==
  CASE kind = "serial" -> PortOf
    [] Dgram           -> SocketFor(e)
    [] OTHER           -> ResolveSocket(e)

\* send(): without a destination the callback runs at once with the error;
\* otherwise one write, whose callback runs at once or after a drain.
SendTo(id, e) ==
  /\ ready /\ id \notin sent
  /\ sent' = sent \cup {id}
  /\ \/ /\ Resolve(e) # None => Stream /\ handles[Resolve(e)] = "live"
        /\ reports' = [reports EXCEPT ![id] = @ + 1]
        /\ UNCHANGED pending
     \/ /\ Resolve(e) # None
        /\ pending' = pending \cup {[id |-> id, on |-> Resolve(e)]}
        /\ UNCHANGED reports
  /\ UNCHANGED <<kind, openVars, sockVars, ready, listening, decoders>>

\* 'drain', or dgram's own completion: finish() unregisters itself and reports.
Drains(w) ==
  /\ Stream => handles[w.on] = "live" \/ (kind = "serial" /\ handles[w.on] = "errored")
  /\ Report({w})
  /\ UNCHANGED <<kind, openVars, sockVars, ready, listening, decoders>>

-----------------------------------------------------------------------------
(* Events to the runtime *)

\* 'endpoint-gone' of each endpoint in es, while somebody listens.
Release(es) ==
  decoders' = [e \in Endpoints |-> IF e \in es /\ listening THEN {} ELSE decoders[e]]

\* 'error': the runtime stops its pump.  What it does with the transport then
\* (Detach, or nothing for one that never came up) is a step of its own.
EmitError == ready' = (IF listening THEN FALSE ELSE ready)

\* 'data' reaches the runtime: a server ignores a socket it no longer maps.
Delivers(s) ==
  /\ handles[s] \in {"live", "dying"}
  /\ kind = "server" => clients[peerOf[s]] = s

DataArrives(s) ==
  /\ Delivers(s) /\ listening /\ ~closed
  /\ decoders' = [decoders EXCEPT ![peerOf[s]] = @ \cup {s}]
  /\ UNCHANGED <<kind, openVars, sockVars, writeVars, ready, listening>>

-----------------------------------------------------------------------------
(* Opening *)

\* open(): the socket, port or listener is asked for.
Open ==
  /\ opening = "none" /\ ~closed
  /\ opening' = "pending"
  /\ IF kind = "server" THEN listener' = "opening" /\ UNCHANGED handles
     ELSE handles' = [handles EXCEPT ![Main] = "opening"] /\ UNCHANGED listener
  /\ UNCHANGED <<kind, usable, closed, closes, calledBack, finishing, peerOf, clients, writeVars,
                 ready, listening, decoders>>

\* A client's 'connect', resolved unless close() destroyed the socket first.
ConnectsClient ==
  /\ kind = "client" /\ handles[Main] = "opening" /\ ~closed
  /\ handles' = [handles EXCEPT ![Main] = "live"]
  /\ usable' = TRUE /\ opening' = "resolved" /\ UNCHANGED <<closed, listener>>

\* A server's 'listening'.
Listens ==
  /\ listener = "opening" /\ ~closed
  /\ listener' = "live" /\ usable' = TRUE /\ opening' = "resolved" /\ UNCHANGED <<closed, handles>>

\* A port's open callback: a port closed meanwhile is released here.
OpensPort ==
  /\ kind = "serial" /\ handles[Main] = "opening"
  /\ handles' = [handles EXCEPT ![Main] = IF closed THEN "dying" ELSE "live"]
  /\ usable' = ~closed /\ opening' = "resolved" /\ UNCHANGED <<closed, listener>>

\* A UDP socket's 'listening': when the broadcast set-up fails it is closed
\* here, and open() rejects once it is gone.
BindsUdp ==
  /\ Dgram /\ handles[Main] = "opening" /\ ~closed
  /\ \/ /\ handles' = [handles EXCEPT ![Main] = "live"]
        /\ usable' = TRUE /\ opening' = "resolved" /\ UNCHANGED closed
     \/ /\ closed' = TRUE /\ handles' = [handles EXCEPT ![Main] = "dying"]
        /\ UNCHANGED <<usable, opening>>
  /\ UNCHANGED listener

\* open() succeeds, as far as the transport goes.
OpenSucceeds ==
  /\ opening = "pending"
  /\ ConnectsClient \/ Listens \/ OpensPort \/ BindsUdp
  /\ UNCHANGED <<kind, closes, calledBack, finishing, peerOf, clients, writeVars, ready, listening, decoders>>

\* A bind, a listen or a port refused: open() rejects, and for a client's
\* connect the error event comes first.
OpenFails ==
  /\ opening = "pending"
  /\ opening' = "rejected"
  /\ \/ /\ handles[Main] = "opening" /\ (kind = "serial" \/ ~closed)
        /\ handles' = [handles EXCEPT ![Main] = CASE kind = "client" -> "errored"
                                                  [] kind = "serial" -> "gone"
                                                  [] OTHER -> "opening"]
        /\ UNCHANGED listener
     \/ listener = "opening" /\ ~closed /\ listener' = "gone" /\ UNCHANGED handles
  /\ IF kind = "client" THEN EmitError ELSE UNCHANGED ready
  /\ UNCHANGED <<kind, usable, closed, closes, calledBack, finishing, peerOf, clients, writeVars,
                 listening, decoders>>

\* The runtime goes on after its await: the pump may use the transport.
RuntimeIsReady ==
  /\ opening = "resolved" /\ ~ready /\ usable /\ listening /\ ~closed
  /\ handles[Main] = "live" \/ listener = "live"
  /\ ready' = TRUE
  /\ UNCHANGED <<kind, openVars, sockVars, writeVars, listening, decoders>>

-----------------------------------------------------------------------------
(* A server's sockets *)

\* The decoder of a stream whose address:port is accepted again is dropped now.
SupersededIsReleased(e) == IF clients[e] # None THEN Release({e}) ELSE UNCHANGED decoders

\* _attachServerSocket: a client connects.  An address:port comes back only
\* when the connection that had it is over, though its close may still run.
Accept(s, e) ==
  /\ listener = "live" /\ handles[s] = "none" /\ \A t \in 1..(s - 1) : handles[t] # "none"
  /\ handles' = [t \in Sockets |-> IF t = s THEN "live"
                                   ELSE IF t = clients[e] THEN "dying" ELSE handles[t]]
  /\ peerOf' = [peerOf EXCEPT ![s] = e]
  /\ clients' = [clients EXCEPT ![e] = s]
  /\ SupersededIsReleased(e)
  /\ UNCHANGED <<kind, openVars, listener, writeVars, ready, listening>>

\* Only the socket its endpoint is mapped to is unmapped, with its decoder.
Unmap(s) ==
  IF clients[peerOf[s]] = s
  THEN clients' = [clients EXCEPT ![peerOf[s]] = None] /\ Release({peerOf[s]})
  ELSE UNCHANGED <<clients, decoders>>

\* An accepted socket fails: its writes are over, the connection is not.
ServerSocketErrors(s) ==
  /\ kind = "server" /\ handles[s] \in {"live", "dying"}
  /\ handles' = [handles EXCEPT ![s] = "errored"]
  /\ Unmap(s) /\ FailWrites({s})
  /\ UNCHANGED <<kind, openVars, listener, peerOf, ready, listening>>

\* The 'close' of an accepted socket, after an error or on its own.
ServerSocketCloses(s) ==
  /\ kind = "server" /\ handles[s] \in {"dying", "errored"}
  /\ handles' = [handles EXCEPT ![s] = "gone"]
  /\ Unmap(s) /\ FailWrites({s})
  /\ UNCHANGED <<kind, openVars, listener, peerOf, ready, listening>>

\* The listener fails after it listened: the runtime is told.
ListenerErrors ==
  /\ listener = "live" /\ listening
  /\ EmitError
  /\ UNCHANGED <<kind, openVars, sockVars, writeVars, listening, decoders>>

-----------------------------------------------------------------------------
(* The one handle of a client, a port or a UDP socket *)

\* The peer, or the cable, goes: the handle is over before its close is heard.
PeerGoes(s) ==
  /\ handles[s] = "live" /\ kind \in {"client", "server"}
  /\ handles' = [handles EXCEPT ![s] = "dying"]
  /\ UNCHANGED <<kind, openVars, listener, peerOf, clients, writeVars, ready, listening, decoders>>

\* 'error' of a client's socket: it is destroyed, and its writes fail.
ClientErrors ==
  /\ kind = "client"
  /\ handles' = [handles EXCEPT ![Main] = "errored"] /\ usable' = FALSE
  /\ FailWrites({Main})

\* 'error' of a port: its writes fail, the device stays held.
PortErrors ==
  /\ kind = "serial"
  /\ handles' = [handles EXCEPT ![Main] = IF @ = "live" THEN "errored" ELSE @] /\ usable' = FALSE
  /\ FailWrites({Main})

\* 'error' of a dgram socket, which lives on.
UdpErrors == Dgram /\ UNCHANGED <<handles, usable, writeVars>>

\* The runtime hears of an error before any write fails.
MainErrors ==
  /\ handles[Main] \in {"live", "dying"} /\ opening = "resolved"
  /\ EmitError
  /\ ClientErrors \/ PortErrors \/ UdpErrors
  /\ UNCHANGED <<kind, opening, closed, closes, calledBack, finishing, listener, peerOf, clients,
                 listening, decoders>>

\* The 'close' listener that close() hangs on the socket, and the callbacks of
\* port.close and socket.close.
CloseEventEnds ==
  IF finishing \/ (kind \notin {"client", "server"} /\ closes > calledBack)
  THEN finishing' = FALSE /\ calledBack' = calledBack + 1
  ELSE UNCHANGED <<finishing, calledBack>>

\* 'close' of a client's socket: writes fail and its decoder is released.
ClientCloses ==
  /\ kind = "client" /\ handles[Main] \in {"dying", "errored"}
  /\ FailWrites({Main}) /\ Release({Remote})

\* 'close' of a port, also unasked for.
PortCloses ==
  /\ kind = "serial" /\ handles[Main] \in {"live", "dying", "errored"}
  /\ FailWrites({Main}) /\ UNCHANGED decoders

\* 'close' of a dgram socket.
UdpCloses ==
  /\ Dgram /\ handles[Main] = "dying"
  /\ UNCHANGED <<writeVars, decoders>>

\* What a pending open() waits for is over: a failed broadcast set-up rejects it
\* now.  A dgram socket that close() destroyed before it was bound emits neither
\* 'listening' nor 'error', so that its open() is never answered.
OpenIsOver == opening' = (IF opening = "pending" /\ (Dgram => closes = calledBack) THEN "rejected" ELSE opening)

\* The main handle is gone.  Unless it was closed the runtime hears an error,
\* and whoever waits for the close is told.
MainCloses ==
  /\ ClientCloses \/ PortCloses \/ UdpCloses
  /\ handles' = [handles EXCEPT ![Main] = "gone"]
  /\ usable' = FALSE
  /\ IF closed THEN UNCHANGED ready ELSE EmitError
  /\ OpenIsOver
  /\ CloseEventEnds
  /\ UNCHANGED <<kind, closed, closes, listener, peerOf, clients, listening>>

-----------------------------------------------------------------------------
(* Closing *)

CallBack == calledBack' = calledBack + 1

\* A client: a socket that is not connected is destroyed, a live one is ended
\* and destroyed when it closes, when the FIN goes out or when time is up.
CloseClient ==
  IF usable /\ handles[Main] # "errored"
  THEN finishing' = TRUE /\ UNCHANGED <<handles, calledBack>>
  ELSE /\ handles' = [handles EXCEPT ![Main] = IF @ \in {"none", "gone"} THEN @ ELSE "errored"]
       /\ CallBack /\ UNCHANGED finishing

\* Mutant: a port that errored is taken for one that was never opened.
CloseSerialIfOpen ==
  /\ IF usable THEN handles' = [handles EXCEPT ![Main] = "dying"] /\ UNCHANGED calledBack
     ELSE CallBack /\ UNCHANGED handles
  /\ UNCHANGED finishing

\* A port: closed if the device is held, also after an error; one that is
\* still opening is left to its open callback.
CloseSerial ==
  /\ IF handles[Main] \in {"live", "errored"}
     THEN handles' = [handles EXCEPT ![Main] = "dying"] /\ UNCHANGED calledBack
     ELSE CallBack /\ UNCHANGED handles
  /\ UNCHANGED finishing

CloseUdp ==
  /\ IF handles[Main] = "none" THEN CallBack /\ UNCHANGED handles
     ELSE handles' = [handles EXCEPT ![Main] = "dying"] /\ UNCHANGED calledBack
  /\ UNCHANGED finishing

\* A server: every client it maps is destroyed, and the callback is the listener's.
CloseServer ==
  /\ handles' = [s \in Sockets |-> IF \E e \in Endpoints : clients[e] = s THEN "errored" ELSE handles[s]]
  /\ clients' = [e \in Endpoints |-> None]
  /\ IF listener \in {"none", "gone"} THEN CallBack /\ UNCHANGED listener
     ELSE listener' = "dying" /\ UNCHANGED calledBack
  /\ UNCHANGED finishing

\* close(): once; a second call only calls back.  A pending open() of a TCP
\* transport is settled first, then every pending write of a stream.
CloseTransport ==
  /\ closes' = closes + 1
  /\ IF closed
     THEN CallBack /\ UNCHANGED <<closed, opening, finishing, handles, listener, clients, writeVars>>
     ELSE /\ closed' = TRUE
          /\ opening' = (IF opening = "pending" /\ kind \in {"client", "server"} THEN "rejected" ELSE opening)
          /\ IF Stream THEN FailWrites(Sockets) ELSE UNCHANGED writeVars
          /\ CASE kind = "client" -> CloseClient /\ UNCHANGED <<listener, clients>>
               [] kind = "serial" -> CloseSerial /\ UNCHANGED <<listener, clients>>
               [] Dgram           -> CloseUdp /\ UNCHANGED <<listener, clients>>
               [] kind = "server" -> CloseServer

\* The runtime closes: at teardown it keeps listening, to redial it detaches
\* first.  Either way it stops its pump and clears its decoders; a stale open()
\* closes the transport once more.
Close(detach) ==
  /\ opening # "none" /\ closes < 2
  /\ CloseTransport
  /\ ready' = FALSE
  /\ listening' = (listening /\ ~detach)
  /\ decoders' = [e \in Endpoints |-> {}]
  /\ UNCHANGED <<kind, usable, peerOf>>

\* A client's end() is through, or CLOSE_TIMEOUT_MS are over.
CloseTimer == finishing

FinishClose ==
  /\ CloseTimer
  /\ finishing' = FALSE /\ CallBack
  /\ handles' = [handles EXCEPT ![Main] = IF @ = "gone" THEN @ ELSE "errored"]
  /\ UNCHANGED <<kind, opening, usable, closed, closes, listener, peerOf, clients, writeVars,
                 ready, listening, decoders>>

\* The listener is closed once the last connection it accepted is.
ListenerCloses ==
  /\ listener = "dying" /\ \A s \in Sockets : handles[s] \in {"none", "gone"}
  /\ listener' = "gone" /\ CallBack
  /\ UNCHANGED <<kind, opening, usable, closed, closes, finishing, handles, peerOf, clients, writeVars,
                 ready, listening, decoders>>

-----------------------------------------------------------------------------
TransportInit ==
  /\ kind \in Kinds
  /\ opening = "none" /\ usable = FALSE /\ closed = FALSE
  /\ closes = 0 /\ calledBack = 0 /\ finishing = FALSE
  /\ handles = [s \in Sockets |-> "none"] /\ listener = "none"
  /\ peerOf = [s \in Sockets |-> Remote]
  /\ clients = [e \in Endpoints |-> None]
  /\ pending = {} /\ reports = [i \in WriteIds |-> 0] /\ sent = {}
  /\ ready = FALSE /\ listening = TRUE
  /\ decoders = [e \in Endpoints |-> {}]

Socket(s) == PeerGoes(s) \/ ServerSocketErrors(s) \/ ServerSocketCloses(s) \/ DataArrives(s)

TransportNext ==
  \/ Open \/ OpenSucceeds \/ OpenFails \/ RuntimeIsReady
  \/ \E i \in WriteIds, e \in Endpoints \cup {None} : SendTo(i, e)
  \/ \E w \in pending : Drains(w)
  \/ \E s \in Sockets, e \in Endpoints : Accept(s, e)
  \/ \E s \in Sockets : Socket(s)
  \/ ListenerErrors \/ MainErrors \/ MainCloses
  \/ \E detach \in BOOLEAN : Close(detach)
  \/ FinishClose \/ ListenerCloses

\* What the operating system and the event loop do on their own: an answer to
\* an open, the close event of what was destroyed or asked to close, the timer.
\* A peer owes nothing: no drain, and no close of a client's live socket.
OpenSettles == OpenSucceeds \/ OpenFails
OverIsTold(s) == (handles[s] = "errored" \/ clients[peerOf[s]] # s) /\ ServerSocketCloses(s)
MainIsOver == handles[Main] = (IF kind = "client" THEN "errored" ELSE "dying") /\ MainCloses
DatagramsComplete == Dgram /\ closed /\ \E w \in pending : Drains(w)

-----------------------------------------------------------------------------
(* Properties *)

TransportTypeOK ==
  /\ opening \in {"none", "pending", "resolved", "rejected"}
  /\ {usable, closed, finishing, ready, listening} \subseteq BOOLEAN
  /\ handles \in [Sockets -> {"none", "opening", "live", "dying", "errored", "gone"}]
  /\ listener \in {"none", "opening", "live", "dying", "gone"}
  /\ peerOf \in [Sockets -> Endpoints] /\ clients \in [Endpoints -> Sockets \cup {None}]
  /\ pending \subseteq [id : WriteIds, on : Sockets] /\ sent \subseteq WriteIds
  /\ decoders \in [Endpoints -> SUBSET Sockets]

\* A write's callback runs exactly once, and until it has run the write waits
\* on a handle that can still drain, fail or close: no error, supersession or
\* close leaves the runtime's pump waiting on a socket nobody will hear of
\* again (tcp.js:386-413, drain.js:25).
WritesAreAnswered ==
  /\ TransportTypeOK
  /\ \A i \in sent : reports[i] + Cardinality({w \in pending : w.id = i}) = 1
  /\ \A w \in pending : Stream => handles[w.on] \in {"live", "dying"} /\ ~closed

\* A server's map holds, per address, the latest connection from there, while
\* it is not known to be over, and only its bytes are in the address's decoder: the
\* delayed events of the connection before touch neither (tcp.js:318-360).
RoutesAreTheLatest ==
  kind = "server" =>
    /\ \A e \in Endpoints : clients[e] # None =>
         peerOf[clients[e]] = e /\ handles[clients[e]] \in {"live", "dying"}
    /\ \A s \in Sockets : handles[s] = "live" => clients[peerOf[s]] = s
    /\ \A e \in Endpoints : decoders[e] \subseteq {clients[e]}
=============================================================================
