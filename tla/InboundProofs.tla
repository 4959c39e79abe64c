----------------------------- MODULE InboundProofs -----------------------------
(***************************************************************************)
(* Proofs about Inbound, for any addresses, sockets, writes, datagrams,    *)
(* frames, filters, settings and messages: every write of a transport is   *)
(* answered once, a server's routes are the latest, a pipeline gives the   *)
(* frames of its own endpoint's stream and outlives churn, only what       *)
(* proved itself teaches a route, a dispatch is exact, an In node passes   *)
(* on what it is set to, and a frame says what its sender meant.           *)
(***************************************************************************)
EXTENDS Inbound, FiniteSetTheorems, SequenceTheorems, WellFoundedInduction, TLAPS

(***************************************************************************)
(* Transports                                                              *)
(***************************************************************************)

\* What TransportTypeOK says, a variable at a time.
TransportTyped ==
  /\ kind \in Kinds
  /\ opening \in {"none", "pending", "resolved", "rejected"}
  /\ usable \in BOOLEAN /\ closed \in BOOLEAN /\ finishing \in BOOLEAN
  /\ ready \in BOOLEAN /\ listening \in BOOLEAN
  /\ handles \in [T!Sockets -> {"none", "opening", "live", "dying", "errored", "gone"}]
  /\ listener \in {"none", "opening", "live", "dying", "gone"}
  /\ peerOf \in [T!Sockets -> Addresses] /\ clients \in [Addresses -> T!Sockets \cup {None}]
  /\ decoders \in [Addresses -> SUBSET T!Sockets]

\* A write that was handed over is either pending, as one element, or reported once.
WritesAreOnce ==
  /\ pending \subseteq [id : WriteIds, on : T!Sockets] /\ sent \subseteq WriteIds
  /\ reports \in [WriteIds -> Nat]
  /\ \A i \in WriteIds \ sent : reports[i] = 0 /\ \A w \in pending : w.id # i
  /\ \A i \in sent : \/ reports[i] = 0 /\ \E w \in pending : w.id = i
                     \/ reports[i] = 1 /\ \A w \in pending : w.id # i
  /\ \A v, w \in pending : v.id = w.id => v = w

\* Who may use a handle knows that it lives.
UseIsOfTheLiving ==
  /\ \A w \in pending : T!Stream => handles[w.on] \in {"live", "dying"} /\ ~closed
  /\ ready => opening = "resolved" /\ ~closed
  /\ opening = "none" => pending = {} /\ ~usable
  /\ kind \in {"client", "serial"} /\ usable /\ ~closed => handles[T!Main] \in {"live", "dying"}
  /\ finishing => kind = "client" /\ closed

\* Only a server has a listener, and it opens no socket itself; a runtime that
\* does not listen holds no bytes.
ServersListen ==
  /\ kind # "server" => listener = "none"
  /\ kind = "server" => \A s \in T!Sockets : handles[s] # "opening"
  /\ ~listening => \A e \in Addresses : decoders[e] = {}

TransportInv == TransportTyped /\ WritesAreOnce /\ UseIsOfTheLiving /\ ServersListen /\ T!RoutesAreTheLatest

\* Main is one of the handles, and no handle stands for the absence of one.
LEMMA MainIsASocket ==
  T!Main \in T!Sockets /\ None \notin T!Sockets /\ None \notin Addresses
BY TransportAssumption DEF T!Main, T!Sockets, T!TransportBounds

\* The instance counts as the library does.
LEMMA CardinalityOfTransports == \A S : T!Cardinality(S) = Cardinality(S)
BY DEF T!Cardinality, Cardinality

\* Writes that are reported are over, and nothing else is.
LEMMA ReportKeeps ==
  ASSUME WritesAreOnce, NEW ws, ws \subseteq pending, T!Report(ws)
  PROVE  WritesAreOnce' /\ pending' = pending \ ws
<1> USE DEF WritesAreOnce, T!Report
<1>1. pending' = pending \ ws /\ sent' = sent
  OBVIOUS
<1>2. /\ reports' \in [WriteIds -> Nat]
      /\ \A i \in WriteIds : reports'[i] = IF \E w \in ws : w.id = i THEN reports[i] + 1 ELSE reports[i]
  OBVIOUS
<1>3. ASSUME NEW i \in WriteIds \ sent
      PROVE  reports'[i] = 0 /\ \A w \in pending' : w.id # i
  BY <1>1, <1>2
<1>4. ASSUME NEW i \in sent
      PROVE  \/ reports'[i] = 0 /\ \E w \in pending' : w.id = i
             \/ reports'[i] = 1 /\ \A w \in pending' : w.id # i
  <2>1. CASE \E w \in ws : w.id = i
    BY <2>1, <1>1, <1>2
  <2>2. CASE ~ \E w \in ws : w.id = i
    BY <2>2, <1>1, <1>2
  <2> QED BY <2>1, <2>2
<1>5. \A v, w \in pending' : v.id = w.id => v = w
  BY <1>1
<1> QED BY <1>1, <1>2, <1>3, <1>4, <1>5

\* Failing the writes of some handles reports what waits on them.
LEMMA FailWritesKeeps ==
  ASSUME WritesAreOnce, NEW ss, T!FailWrites(ss)
  PROVE  WritesAreOnce' /\ pending' = {w \in pending : w.on \notin ss}
<1>1. {w \in pending : w.on \in ss} \subseteq pending
  OBVIOUS
<1>2. WritesAreOnce' /\ pending' = pending \ {w \in pending : w.on \in ss}
  BY <1>1, ReportKeeps DEF T!FailWrites
<1> QED BY <1>2

\* A write goes out on a handle that lives.
LEMMA ResolvesToTheLiving ==
  ASSUME TransportInv, ready, NEW e \in Addresses \cup {None}, T!Resolve(e) # None
  PROVE  /\ T!Resolve(e) \in T!Sockets
         /\ T!Stream => handles[T!Resolve(e)] \in {"live", "dying"} /\ ~closed
<1>1. /\ ~closed /\ kind \in {"client", "server", "serial", "udp", "listen"}
      /\ clients \in [Addresses -> T!Sockets \cup {None}]
  BY TransportAssumption DEF TransportInv, TransportTyped, UseIsOfTheLiving, T!TransportKinds
<1>2. kind \in {"client", "serial"} /\ usable => handles[T!Main] \in {"live", "dying"}
  BY <1>1 DEF TransportInv, UseIsOfTheLiving
<1>3. CASE kind = "serial"
  <2>1. T!Resolve(e) = IF usable THEN T!Main ELSE None
    BY <1>3 DEF T!Resolve, T!PortOf, T!Dgram
  <2> QED BY <2>1, <1>1, <1>2, <1>3, MainIsASocket
<1>4. CASE kind \in {"udp", "listen"}
  <2>1. T!Resolve(e) \in {T!Main, None} /\ ~T!Stream
    BY <1>4 DEF T!Resolve, T!SocketFor, T!Dgram, T!Stream
  <2> QED BY <2>1, MainIsASocket
<1>5. CASE kind = "client"
  <2>1. T!Resolve(e) = T!ResolveSocket(e)
    BY <1>5 DEF T!Resolve, T!Dgram
  <2>2. T!ResolveSocket(e) = IF usable THEN T!Main ELSE None
    BY <1>5 DEF T!ResolveSocket
  <2> QED BY <2>1, <2>2, <1>1, <1>2, <1>5, MainIsASocket
<1>6. CASE kind = "server"
  <2> DEFINE connected == {clients[x] : x \in Addresses} \ {None}
  <2>1. T!Resolve(e) = T!ResolveSocket(e)
    BY <1>6 DEF T!Resolve, T!Dgram
  <2>2. T!ResolveSocket(e) =
          IF e # None THEN clients[e]
          ELSE IF Cardinality(connected) = 1 THEN CHOOSE s \in connected : TRUE ELSE None
    BY <1>6, CardinalityOfTransports DEF T!ResolveSocket
  <2>3. \E x \in Addresses : clients[x] = T!Resolve(e)
    <3>1. CASE e # None
      BY <3>1, <2>1, <2>2
    <3>2. CASE e = None
      <4>1. Cardinality(connected) = 1 /\ T!Resolve(e) = CHOOSE s \in connected : TRUE
        BY <3>2, <2>1, <2>2
      <4>2. Cardinality({}) = 0
        BY FS_EmptySet
      <4>3. connected # {}
        BY <4>1, <4>2
      <4> QED BY <4>1, <4>3
    <3> QED BY <3>1, <3>2
  <2>4. \A x \in Addresses : clients[x] # None => handles[clients[x]] \in {"live", "dying"}
    BY <1>6 DEF TransportInv, T!RoutesAreTheLatest
  <2> QED BY <2>3, <2>4, <1>1
<1> QED BY <1>1, <1>3, <1>4, <1>5, <1>6

\* Writes that are left alone stay once.
LEMMA WritesStay ==
  ASSUME WritesAreOnce, UNCHANGED T!writeVars
  PROVE  WritesAreOnce' /\ pending' = pending
BY DEF WritesAreOnce, T!writeVars

\* A transport begins with nothing handed to it.
LEMMA TransportStarts ==
  ASSUME T!TransportInit
  PROVE  TransportInv
<1> USE MainIsASocket, TransportAssumption DEF T!TransportInit
<1>1. T!Remote \in Addresses
  BY DEF T!Remote, T!TransportBounds
<1>2. TransportTyped
  <2>1. /\ kind \in Kinds
        /\ opening = "none" /\ usable = FALSE /\ closed = FALSE /\ finishing = FALSE
        /\ ready = FALSE /\ listening = TRUE /\ listener = "none"
    OBVIOUS
  <2>2. peerOf \in [T!Sockets -> Addresses]
    BY <1>1
  <2> QED BY <2>1, <2>2 DEF TransportTyped
<1>3. WritesAreOnce
  BY DEF WritesAreOnce
<1>4. UseIsOfTheLiving /\ ServersListen /\ T!RoutesAreTheLatest
  BY DEF UseIsOfTheLiving, ServersListen, T!RoutesAreTheLatest
<1> QED BY <1>2, <1>3, <1>4 DEF TransportInv

\* Opening keeps the invariant: what opens is the living handle of its kind.
LEMMA OpeningKeeps ==
  ASSUME TransportInv, T!Open \/ T!OpenSucceeds \/ T!OpenFails \/ T!RuntimeIsReady
  PROVE  TransportInv'
<1> USE MainIsASocket DEF TransportInv, T!writeVars, T!openVars, T!sockVars
<1>1. WritesAreOnce' /\ pending' = pending
  BY WritesStay DEF T!Open, T!OpenSucceeds, T!OpenFails, T!RuntimeIsReady
<1>2. CASE T!Open
  <2> USE <1>2 DEF T!Open
  <2>1. TransportTyped'
    BY DEF TransportTyped
  <2>2. UseIsOfTheLiving'
    BY <1>1 DEF UseIsOfTheLiving, T!Stream, T!Dgram
  <2>3. ServersListen'
    BY DEF ServersListen
  <2>4. T!RoutesAreTheLatest'
    BY DEF TransportTyped, T!RoutesAreTheLatest
  <2> QED BY <1>1, <2>1, <2>2, <2>3, <2>4
<1>3. CASE T!OpenSucceeds
  <2> USE <1>3 DEF T!OpenSucceeds
  <2>1. CASE T!ConnectsClient
    <3> USE <2>1 DEF T!ConnectsClient
    <3>1. TransportTyped'
      BY DEF TransportTyped
    <3>2. UseIsOfTheLiving'
      BY <1>1 DEF TransportTyped, UseIsOfTheLiving, T!Stream, T!Dgram
    <3>3. ServersListen' /\ T!RoutesAreTheLatest'
      BY DEF ServersListen, T!RoutesAreTheLatest
    <3> QED BY <1>1, <3>1, <3>2, <3>3
  <2>2. CASE T!Listens
    <3> USE <2>2 DEF T!Listens
    <3>1. TransportTyped'
      BY DEF TransportTyped
    <3>2. UseIsOfTheLiving'
      BY <1>1 DEF TransportTyped, UseIsOfTheLiving, ServersListen, T!Stream, T!Dgram
    <3>3. ServersListen' /\ T!RoutesAreTheLatest'
      BY DEF ServersListen, T!RoutesAreTheLatest
    <3> QED BY <1>1, <3>1, <3>2, <3>3
  <2>3. CASE T!OpensPort
    <3> USE <2>3 DEF T!OpensPort
    <3>1. TransportTyped'
      BY DEF TransportTyped
    <3>2. UseIsOfTheLiving'
      BY <1>1 DEF TransportTyped, UseIsOfTheLiving, T!Stream, T!Dgram
    <3>3. ServersListen' /\ T!RoutesAreTheLatest'
      BY DEF ServersListen, T!RoutesAreTheLatest
    <3> QED BY <1>1, <3>1, <3>2, <3>3
  <2>4. CASE T!BindsUdp
    <3> USE <2>4 DEF T!BindsUdp
    <3>1. TransportTyped'
      BY DEF TransportTyped
    <3>2. UseIsOfTheLiving'
      BY <1>1 DEF TransportTyped, UseIsOfTheLiving, T!Stream, T!Dgram
    <3>3. ServersListen' /\ T!RoutesAreTheLatest'
      BY DEF ServersListen, T!RoutesAreTheLatest, T!Dgram
    <3> QED BY <1>1, <3>1, <3>2, <3>3
  <2> QED BY <2>1, <2>2, <2>3, <2>4
<1>4. CASE T!OpenFails
  <2> USE <1>4 DEF T!OpenFails, T!EmitError
  <2>1. TransportTyped'
    BY DEF TransportTyped
  <2>2. UseIsOfTheLiving'
    <3>1. \A s \in T!Sockets : handles[s] # "opening" => handles'[s] = handles[s]
      BY DEF TransportTyped
    <3>2. T!Stream' = T!Stream
      BY DEF T!Stream, T!Dgram
    <3>3. \A w \in pending : T!Stream => handles[w.on] \in {"live", "dying"} /\ ~closed /\ w.on \in T!Sockets
      BY DEF UseIsOfTheLiving, WritesAreOnce
    <3>4. \A w \in pending' : T!Stream' => handles'[w.on] \in {"live", "dying"} /\ ~closed'
      BY <1>1, <3>1, <3>2, <3>3
    <3>5. ~ready /\ ~ready' /\ opening' = "rejected"
      BY DEF UseIsOfTheLiving
    <3>6. kind' \in {"client", "serial"} /\ usable' /\ ~closed' => handles'[T!Main] \in {"live", "dying"}
      BY <3>1 DEF UseIsOfTheLiving
    <3>7. finishing' => kind' = "client" /\ closed'
      BY DEF UseIsOfTheLiving
    <3> QED BY <3>4, <3>5, <3>6, <3>7 DEF UseIsOfTheLiving
  <2>3. ServersListen' /\ T!RoutesAreTheLatest'
    BY DEF TransportTyped, ServersListen, T!RoutesAreTheLatest
  <2> QED BY <1>1, <2>1, <2>2, <2>3
<1>5. CASE T!RuntimeIsReady
  <2> USE <1>5 DEF T!RuntimeIsReady
  <2>1. TransportTyped' /\ UseIsOfTheLiving' /\ ServersListen' /\ T!RoutesAreTheLatest'
    BY <1>1 DEF TransportTyped, UseIsOfTheLiving, ServersListen, T!RoutesAreTheLatest, T!Stream, T!Dgram
  <2> QED BY <1>1, <2>1
<1> QED BY <1>2, <1>3, <1>4, <1>5

\* Writing keeps it: a write is pending on the handle its destination has now.
LEMMA WritingKeeps ==
  ASSUME TransportInv,
         \/ \E i \in WriteIds, e \in Addresses \cup {None} : T!SendTo(i, e)
         \/ \E w \in pending : T!Drains(w)
  PROVE  TransportInv'
<1> USE DEF TransportInv, T!openVars, T!sockVars
<1>1. /\ UNCHANGED <<kind, opening, usable, closed, closes, calledBack, finishing, handles, listener, peerOf, clients,
                      ready, listening, decoders>>
  BY DEF T!SendTo, T!Drains
<1>2. TransportTyped' /\ ServersListen' /\ T!RoutesAreTheLatest'
  BY <1>1 DEF TransportTyped, ServersListen, T!RoutesAreTheLatest
<1>3. ASSUME NEW i \in WriteIds, NEW e \in Addresses \cup {None}, T!SendTo(i, e)
      PROVE  WritesAreOnce' /\ UseIsOfTheLiving'
  <2>1. ready /\ i \notin sent /\ sent' = sent \cup {i}
    BY <1>3 DEF T!SendTo
  <2>2. CASE reports' = [reports EXCEPT ![i] = @ + 1] /\ pending' = pending
    <3>1. WritesAreOnce'
      BY <2>1, <2>2 DEF WritesAreOnce
    <3>2. UseIsOfTheLiving'
      BY <1>1, <2>2 DEF UseIsOfTheLiving, T!Stream, T!Dgram
    <3> QED BY <3>1, <3>2
  <2>3. CASE /\ T!Resolve(e) # None
             /\ pending' = pending \cup {[id |-> i, on |-> T!Resolve(e)]}
             /\ reports' = reports
    <3> DEFINE w == [id |-> i, on |-> T!Resolve(e)]
    <3>1. /\ T!Resolve(e) \in T!Sockets
          /\ T!Stream => handles[T!Resolve(e)] \in {"live", "dying"} /\ ~closed
      BY <2>1, <2>3, ResolvesToTheLiving
    <3>2. w \in [id : WriteIds, on : T!Sockets] /\ w.id = i /\ w.on = T!Resolve(e)
      BY <3>1
    <3>3. pending' = pending \cup {w}
      BY <2>3
    <3> HIDE DEF w
    <3>4. WritesAreOnce'
      BY <2>1, <2>3, <3>2, <3>3 DEF WritesAreOnce
    <3>5. UseIsOfTheLiving'
      BY <1>1, <2>1, <3>1, <3>2, <3>3 DEF UseIsOfTheLiving, T!Stream, T!Dgram
    <3> QED BY <3>4, <3>5
  <2> QED BY <1>3, <2>2, <2>3 DEF T!SendTo
<1>4. ASSUME NEW w \in pending, T!Drains(w)
      PROVE  WritesAreOnce' /\ UseIsOfTheLiving'
  <2>1. WritesAreOnce' /\ pending' = pending \ {w}
    BY <1>4, ReportKeeps DEF T!Drains
  <2>2. UseIsOfTheLiving'
    BY <1>1, <2>1 DEF UseIsOfTheLiving, T!Stream, T!Dgram
  <2> QED BY <2>1, <2>2
<1> QED BY <1>2, <1>3, <1>4

\* Accepting a connection keeps it: the address is the new socket's from now
\* on, and what the one before left in its decoder goes.
LEMMA AcceptKeeps ==
  ASSUME TransportInv, NEW s \in T!Sockets, NEW e \in Addresses, T!Accept(s, e)
  PROVE  TransportInv'
<1> USE MainIsASocket DEF TransportInv, T!Accept, T!writeVars, T!openVars
<1>1. WritesAreOnce' /\ pending' = pending
  BY WritesStay
<1>2. /\ kind = "server" /\ handles[s] = "none"
      /\ handles \in [T!Sockets -> {"none", "opening", "live", "dying", "errored", "gone"}]
      /\ peerOf \in [T!Sockets -> Addresses] /\ clients \in [Addresses -> T!Sockets \cup {None}]
      /\ decoders \in [Addresses -> SUBSET T!Sockets] /\ listening \in BOOLEAN
  BY DEF ServersListen, TransportTyped
<1>3. /\ \A t \in T!Sockets : handles'[t] = IF t = s THEN "live" ELSE IF t = clients[e] THEN "dying" ELSE handles[t]
      /\ \A t \in T!Sockets : peerOf'[t] = IF t = s THEN e ELSE peerOf[t]
      /\ \A x \in Addresses : clients'[x] = IF x = e THEN s ELSE clients[x]
      /\ peerOf' \in [T!Sockets -> Addresses] /\ clients' \in [Addresses -> T!Sockets \cup {None}]
      /\ handles' \in [T!Sockets -> {"none", "opening", "live", "dying", "errored", "gone"}]
  BY <1>2
<1>4. /\ \A x \in Addresses : clients[x] # None => peerOf[clients[x]] = x /\ handles[clients[x]] \in {"live", "dying"}
      /\ \A t \in T!Sockets : handles[t] = "live" => clients[peerOf[t]] = t
      /\ \A x \in Addresses : decoders[x] \subseteq {clients[x]}
      /\ ~listening => \A x \in Addresses : decoders[x] = {}
  BY <1>2 DEF T!RoutesAreTheLatest, ServersListen
<1>5. /\ decoders' \in [Addresses -> SUBSET T!Sockets]
      /\ \A x \in Addresses : decoders'[x] = IF x = e THEN {} ELSE decoders[x]
  <2>1. CASE clients[e] = None
    BY <2>1, <1>2, <1>4 DEF T!SupersededIsReleased
  <2>2. CASE clients[e] # None
    BY <2>2, <1>2, <1>4 DEF T!SupersededIsReleased, T!Release
  <2> QED BY <2>1, <2>2
<1>6. TransportTyped'
  BY <1>3, <1>5 DEF TransportTyped
<1>7. UseIsOfTheLiving'
  <2>1. \A w \in pending : handles[w.on] \in {"live", "dying"} /\ ~closed /\ w.on \in T!Sockets
    BY <1>2 DEF UseIsOfTheLiving, WritesAreOnce, T!Stream, T!Dgram
  <2>2. \A w \in pending' : handles'[w.on] \in {"live", "dying"} /\ ~closed'
    BY <1>1, <1>2, <1>3, <2>1
  <2> QED BY <1>1, <1>2, <2>2 DEF UseIsOfTheLiving
<1>8. ServersListen'
  BY <1>2, <1>3, <1>4, <1>5 DEF ServersListen
<1>9. T!RoutesAreTheLatest'
  <2>1. ASSUME NEW x \in Addresses, clients'[x] # None
        PROVE  peerOf'[clients'[x]] = x /\ handles'[clients'[x]] \in {"live", "dying"}
    BY <1>2, <1>3, <1>4, <2>1
  <2>2. ASSUME NEW t \in T!Sockets, handles'[t] = "live"
        PROVE  clients'[peerOf'[t]] = t
    BY <1>2, <1>3, <1>4, <2>2
  <2>3. \A x \in Addresses : decoders'[x] \subseteq {clients'[x]}
    BY <1>3, <1>4, <1>5
  <2> QED BY <2>1, <2>2, <2>3 DEF T!RoutesAreTheLatest
<1> QED BY <1>1, <1>6, <1>7, <1>8, <1>9

\* So does the end of an accepted socket: it is unmapped where it is mapped,
\* and its writes are over.
LEMMA ServerSocketEndsKeeps ==
  ASSUME TransportInv, NEW s \in T!Sockets, T!ServerSocketErrors(s) \/ T!ServerSocketCloses(s)
  PROVE  TransportInv'
<1> USE MainIsASocket DEF TransportInv
<1>1. /\ T!FailWrites({s}) /\ T!Unmap(s)
      /\ UNCHANGED <<kind, opening, usable, closed, closes, calledBack, finishing, listener, peerOf, ready, listening>>
      /\ \E after \in {"errored", "gone"} : handles' = [handles EXCEPT ![s] = after]
  BY DEF T!ServerSocketErrors, T!ServerSocketCloses, T!openVars
<1>2. /\ kind = "server"
      /\ handles \in [T!Sockets -> {"none", "opening", "live", "dying", "errored", "gone"}]
      /\ peerOf \in [T!Sockets -> Addresses] /\ clients \in [Addresses -> T!Sockets \cup {None}]
      /\ decoders \in [Addresses -> SUBSET T!Sockets] /\ listening \in BOOLEAN
  BY DEF ServersListen, TransportTyped, T!ServerSocketErrors, T!ServerSocketCloses
<1>3. WritesAreOnce' /\ pending' = {w \in pending : w.on \notin {s}}
  BY <1>1, FailWritesKeeps
<1>4. /\ handles' \in [T!Sockets -> {"none", "opening", "live", "dying", "errored", "gone"}]
      /\ handles'[s] \in {"errored", "gone"} /\ \A t \in T!Sockets \ {s} : handles'[t] = handles[t]
  BY <1>1, <1>2
<1>5. /\ \A x \in Addresses : clients[x] # None => peerOf[clients[x]] = x /\ handles[clients[x]] \in {"live", "dying"}
      /\ \A t \in T!Sockets : handles[t] = "live" => clients[peerOf[t]] = t
      /\ \A x \in Addresses : decoders[x] \subseteq {clients[x]}
      /\ ~listening => \A x \in Addresses : decoders[x] = {}
  BY <1>2 DEF T!RoutesAreTheLatest, ServersListen
<1>6. /\ clients' \in [Addresses -> T!Sockets \cup {None}] /\ decoders' \in [Addresses -> SUBSET T!Sockets]
      /\ \A x \in Addresses : clients'[x] = IF clients[x] = s THEN None ELSE clients[x]
      /\ \A x \in Addresses : decoders'[x] = IF clients[x] = s THEN {} ELSE decoders[x]
  <2>1. CASE clients[peerOf[s]] = s
    <3>1. \A x \in Addresses : clients[x] = s => x = peerOf[s]
      BY <1>2, <1>5
    <3> QED BY <2>1, <3>1, <1>1, <1>2, <1>5 DEF T!Unmap, T!Release
  <2>2. CASE clients[peerOf[s]] # s
    <3>1. \A x \in Addresses : clients[x] # s
      BY <1>2, <1>5, <2>2
    <3> QED BY <2>2, <3>1, <1>1, <1>2 DEF T!Unmap
  <2> QED BY <2>1, <2>2
<1>7. TransportTyped'
  BY <1>1, <1>4, <1>6 DEF TransportTyped
<1>8. UseIsOfTheLiving'
  <2>1. \A w \in pending : handles[w.on] \in {"live", "dying"} /\ ~closed /\ w.on \in T!Sockets
    BY <1>2 DEF UseIsOfTheLiving, WritesAreOnce, T!Stream, T!Dgram
  <2>2. \A w \in pending' : handles'[w.on] \in {"live", "dying"} /\ ~closed'
    BY <1>1, <1>3, <1>4, <2>1
  <2> QED BY <1>1, <1>2, <1>3, <2>2 DEF UseIsOfTheLiving
<1>9. ServersListen'
  BY <1>1, <1>2, <1>4, <1>5, <1>6 DEF ServersListen
<1>10. T!RoutesAreTheLatest'
  <2>1. ASSUME NEW x \in Addresses, clients'[x] # None
        PROVE  peerOf'[clients'[x]] = x /\ handles'[clients'[x]] \in {"live", "dying"}
    BY <1>1, <1>2, <1>4, <1>5, <1>6, <2>1
  <2>2. ASSUME NEW t \in T!Sockets, handles'[t] = "live"
        PROVE  clients'[peerOf'[t]] = t
    BY <1>1, <1>2, <1>4, <1>5, <1>6, <2>2
  <2>3. \A x \in Addresses : decoders'[x] \subseteq {clients'[x]}
    BY <1>5, <1>6
  <2> QED BY <2>1, <2>2, <2>3 DEF T!RoutesAreTheLatest
<1> QED BY <1>3, <1>7, <1>8, <1>9, <1>10

\* What arrives on a socket, or ends one from outside, keeps it.
LEMMA SocketKeeps ==
  ASSUME TransportInv, NEW s \in T!Sockets, T!Socket(s) \/ T!ListenerErrors
  PROVE  TransportInv'
<1> USE MainIsASocket DEF TransportInv, T!writeVars, T!openVars, T!sockVars
<1>1. CASE T!ServerSocketErrors(s) \/ T!ServerSocketCloses(s)
  BY <1>1, ServerSocketEndsKeeps
<1>2. CASE T!PeerGoes(s)
  <2> USE <1>2 DEF T!PeerGoes
  <2>1. WritesAreOnce' /\ pending' = pending
    BY WritesStay
  <2>2. TransportTyped' /\ ServersListen'
    BY DEF TransportTyped, ServersListen
  <2>3. UseIsOfTheLiving'
    BY <2>1 DEF TransportTyped, UseIsOfTheLiving, T!Stream, T!Dgram
  <2>4. T!RoutesAreTheLatest'
    BY DEF TransportTyped, T!RoutesAreTheLatest
  <2> QED BY <2>1, <2>2, <2>3, <2>4
<1>3. CASE T!DataArrives(s)
  <2> USE <1>3 DEF T!DataArrives, T!Delivers
  <2>1. WritesAreOnce' /\ pending' = pending
    BY WritesStay
  <2>2. TransportTyped' /\ ServersListen'
    BY DEF TransportTyped, ServersListen
  <2>3. UseIsOfTheLiving'
    BY <2>1 DEF UseIsOfTheLiving, T!Stream, T!Dgram
  <2>4. T!RoutesAreTheLatest'
    BY DEF TransportTyped, T!RoutesAreTheLatest
  <2> QED BY <2>1, <2>2, <2>3, <2>4
<1>4. CASE T!ListenerErrors
  <2> USE <1>4 DEF T!ListenerErrors, T!EmitError
  <2>1. WritesAreOnce' /\ pending' = pending
    BY WritesStay
  <2>2. TransportTyped' /\ ServersListen' /\ T!RoutesAreTheLatest'
    BY DEF TransportTyped, ServersListen, T!RoutesAreTheLatest
  <2>3. UseIsOfTheLiving'
    BY <2>1 DEF UseIsOfTheLiving, T!Stream, T!Dgram
  <2> QED BY <2>1, <2>2, <2>3
<1> QED BY <1>1, <1>2, <1>3, <1>4 DEF T!Socket

\* The errors and the end of the one handle of a client, a port or a UDP socket
\* keep it: a handle that stops living fails its writes.
LEMMA MainKeeps ==
  ASSUME TransportInv, T!MainErrors \/ T!MainCloses
  PROVE  TransportInv'
<1> USE MainIsASocket DEF TransportInv
<1>1. /\ UNCHANGED <<kind, closed, closes, listener, peerOf, clients, listening>>
      /\ opening' \in {opening, "rejected"} /\ (opening = "resolved" => opening' = "resolved")
      /\ opening' # "none" \/ opening = "none"
  BY DEF T!MainErrors, T!MainCloses, T!OpenIsOver
<1>2. kind # "server" /\ kind' # "server"
  BY <1>1 DEF T!MainErrors, T!MainCloses, T!ClientErrors, T!PortErrors, T!UdpErrors,
              T!ClientCloses, T!PortCloses, T!UdpCloses, T!Dgram
<1>3. /\ handles' \in [T!Sockets -> {"none", "opening", "live", "dying", "errored", "gone"}]
      /\ \A t \in T!Sockets \ {T!Main} : handles'[t] = handles[t]
      /\ usable' \in BOOLEAN /\ ready' \in BOOLEAN /\ (ready' => ready)
  BY DEF TransportTyped, T!MainErrors, T!MainCloses, T!EmitError, T!ClientErrors, T!PortErrors, T!UdpErrors
<1>4. WritesAreOnce' /\ pending' \subseteq pending /\ (T!Stream => pending' = {w \in pending : w.on # T!Main})
  <2>1. CASE T!FailWrites({T!Main})
    BY <2>1, FailWritesKeeps
  <2>2. CASE ~T!FailWrites({T!Main})
    <3>1. UNCHANGED T!writeVars /\ ~T!Stream
      BY <2>2 DEF T!MainErrors, T!MainCloses, T!ClientErrors, T!PortErrors, T!UdpErrors,
                  T!ClientCloses, T!PortCloses, T!UdpCloses, T!Stream
    <3> QED BY <3>1, WritesStay
  <2> QED BY <2>1, <2>2
<1>5. /\ finishing' \in BOOLEAN /\ (finishing' => finishing)
      /\ usable' => usable /\ T!Dgram
      /\ decoders' \in [Addresses -> SUBSET T!Sockets]
      /\ \A x \in Addresses : decoders'[x] \in {decoders[x], {}}
  <2>1. CASE T!MainErrors
    BY <2>1 DEF TransportTyped, T!MainErrors, T!ClientErrors, T!PortErrors, T!UdpErrors
  <2>2. CASE T!MainCloses
    <3>1. finishing' \in BOOLEAN /\ (finishing' => finishing) /\ usable' = FALSE
      BY <2>2 DEF TransportTyped, T!MainCloses, T!CloseEventEnds
    <3>2. CASE T!ClientCloses
      BY <3>1, <3>2 DEF TransportTyped, T!ClientCloses, T!Release
    <3>3. CASE decoders' = decoders
      BY <3>1, <3>3 DEF TransportTyped
    <3> QED BY <2>2, <3>2, <3>3 DEF T!MainCloses, T!PortCloses, T!UdpCloses
  <2> QED BY <2>1, <2>2
<1>6. TransportTyped'
  BY <1>1, <1>3, <1>5 DEF TransportTyped
<1>7. UseIsOfTheLiving'
  <2>1. T!Stream' = T!Stream
    BY <1>1 DEF T!Stream, T!Dgram
  <2>2. \A w \in pending : (T!Stream => handles[w.on] \in {"live", "dying"} /\ ~closed) /\ w.on \in T!Sockets
    BY DEF UseIsOfTheLiving, WritesAreOnce
  <2>3. \A w \in pending' : T!Stream' => handles'[w.on] \in {"live", "dying"} /\ ~closed'
    BY <1>1, <1>3, <1>4, <2>1, <2>2
  <2>4. ready' => opening' = "resolved" /\ ~closed'
    BY <1>1, <1>3 DEF UseIsOfTheLiving
  <2>5. opening' = "none" => pending' = {} /\ ~usable'
    BY <1>1, <1>4, <1>5 DEF UseIsOfTheLiving
  <2>6. kind' \in {"client", "serial"} /\ usable' /\ ~closed' => handles'[T!Main] \in {"live", "dying"}
    BY <1>1, <1>5 DEF T!Dgram
  <2>7. finishing' => kind' = "client" /\ closed'
    BY <1>1, <1>5 DEF UseIsOfTheLiving
  <2> QED BY <2>3, <2>4, <2>5, <2>6, <2>7 DEF UseIsOfTheLiving
<1>8. ServersListen'
  BY <1>1, <1>2, <1>5 DEF ServersListen
<1>9. T!RoutesAreTheLatest'
  BY <1>2 DEF T!RoutesAreTheLatest
<1> QED BY <1>4, <1>6, <1>7, <1>8, <1>9

\* close() keeps it: no write waits on a stream that is closed, and no address
\* of a server leads to a socket.
LEMMA CloseKeeps ==
  ASSUME TransportInv, NEW detach \in BOOLEAN, T!Close(detach)
  PROVE  TransportInv'
<1> USE MainIsASocket DEF TransportInv
<1>1. /\ opening # "none" /\ T!CloseTransport /\ ready' = FALSE /\ listening' = (listening /\ ~detach)
      /\ decoders' = [e \in Addresses |-> {}] /\ UNCHANGED <<kind, usable, peerOf>>
  BY DEF T!Close
<1>2. /\ closed' = TRUE /\ opening' \in {opening, "rejected"}
      /\ closed => UNCHANGED <<finishing, handles, listener, clients, T!writeVars>>
  BY <1>1 DEF T!CloseTransport, TransportTyped
<1>3. kind \in {"client", "server", "serial", "udp", "listen"}
  BY TransportAssumption DEF TransportTyped, T!TransportKinds
<1>4. WritesAreOnce' /\ pending' \subseteq pending /\ (T!Stream => pending' = {})
  <2>1. CASE T!Stream /\ ~closed
    <3>1. T!FailWrites(T!Sockets)
      BY <1>1, <2>1 DEF T!CloseTransport
    <3>2. WritesAreOnce' /\ pending' = {w \in pending : w.on \notin T!Sockets}
      BY <3>1, FailWritesKeeps
    <3> QED BY <3>2 DEF WritesAreOnce
  <2>2. CASE ~T!Stream \/ closed
    <3>1. UNCHANGED T!writeVars
      BY <1>1, <2>2 DEF T!CloseTransport
    <3>2. T!Stream => pending = {}
      BY <2>2 DEF UseIsOfTheLiving
    <3> QED BY <3>1, <3>2, WritesStay
  <2> QED BY <2>1, <2>2
<1>5. /\ handles' \in [T!Sockets -> {"none", "opening", "live", "dying", "errored", "gone"}]
      /\ clients' \in [Addresses -> T!Sockets \cup {None}]
      /\ listener' \in {"none", "opening", "live", "dying", "gone"}
      /\ finishing' \in BOOLEAN /\ (finishing' => kind = "client")
      /\ kind # "server" => listener' = "none"
      /\ kind = "server" =>
           /\ \A s \in T!Sockets : handles'[s] # "opening"
           /\ \/ UNCHANGED <<handles, clients>>
              \/ (\A s \in T!Sockets : handles'[s] # "live") /\ \A e \in Addresses : clients'[e] = None
  <2>1. CASE closed
    <3>1. UNCHANGED <<finishing, handles, listener, clients>>
      BY <1>2, <2>1
    <3> QED BY <3>1 DEF TransportTyped, ServersListen, UseIsOfTheLiving
  <2>2. CASE ~closed /\ kind = "client"
    <3>1. T!CloseClient /\ UNCHANGED <<listener, clients>>
      BY <1>1, <2>2 DEF T!CloseTransport, T!Dgram
    <3> QED BY <2>2, <3>1 DEF TransportTyped, ServersListen, T!CloseClient
  <2>3. CASE ~closed /\ kind = "serial"
    <3>1. T!CloseSerial /\ UNCHANGED <<listener, clients>>
      BY <1>1, <2>3 DEF T!CloseTransport, T!Dgram
    <3> QED BY <2>3, <3>1 DEF TransportTyped, ServersListen, UseIsOfTheLiving, T!CloseSerial
  <2>4. CASE ~closed /\ kind \in {"udp", "listen"}
    <3>1. T!CloseUdp /\ UNCHANGED <<listener, clients>>
      BY <1>1, <2>4 DEF T!CloseTransport, T!Dgram
    <3> QED BY <2>4, <3>1 DEF TransportTyped, ServersListen, UseIsOfTheLiving, T!CloseUdp
  <2>5. CASE ~closed /\ kind = "server"
    <3>1. T!CloseServer
      BY <1>1, <2>5 DEF T!CloseTransport, T!Dgram
    <3>2. \A s \in T!Sockets : handles[s] = "live" => \E e \in Addresses : clients[e] = s
      BY <2>5 DEF TransportTyped, T!RoutesAreTheLatest
    <3>3. /\ handles' \in [T!Sockets -> {"none", "opening", "live", "dying", "errored", "gone"}]
          /\ \A s \in T!Sockets : handles'[s] # "opening" /\ handles'[s] # "live"
      BY <2>5, <3>1, <3>2 DEF TransportTyped, ServersListen, T!CloseServer
    <3>4. /\ clients' \in [Addresses -> T!Sockets \cup {None}]
          /\ \A e \in Addresses : clients'[e] = None
          /\ listener' \in {"none", "opening", "live", "dying", "gone"}
          /\ finishing' = finishing
      BY <3>1 DEF TransportTyped, T!CloseServer
    <3> QED BY <2>5, <3>3, <3>4 DEF TransportTyped, UseIsOfTheLiving
  <2> QED BY <1>3, <2>1, <2>2, <2>3, <2>4, <2>5
<1>6. TransportTyped'
  <2>1. decoders' \in [Addresses -> SUBSET T!Sockets] /\ listening' \in BOOLEAN /\ ready' \in BOOLEAN
    BY <1>1 DEF TransportTyped
  <2> QED BY <1>1, <1>2, <1>5, <2>1 DEF TransportTyped
<1>7. UseIsOfTheLiving'
  BY <1>1, <1>2, <1>4, <1>5 DEF UseIsOfTheLiving, T!Stream, T!Dgram
<1>8. ServersListen'
  BY <1>1, <1>5 DEF ServersListen
<1>9. T!RoutesAreTheLatest'
  <2>1. \A e \in Addresses : decoders'[e] = {}
    BY <1>1
  <2> QED BY <1>1, <1>5, <2>1 DEF T!RoutesAreTheLatest
<1> QED BY <1>4, <1>6, <1>7, <1>8, <1>9

\* What ends after a close keeps it.
LEMMA ClosingEndsKeeps ==
  ASSUME TransportInv, T!FinishClose \/ T!ListenerCloses
  PROVE  TransportInv'
<1> USE MainIsASocket DEF TransportInv, T!writeVars
<1>1. WritesAreOnce' /\ pending' = pending
  BY WritesStay DEF T!FinishClose, T!ListenerCloses
<1>2. CASE T!FinishClose
  <2>1. kind = "client" /\ closed
    BY <1>2 DEF T!FinishClose, T!CloseTimer, UseIsOfTheLiving
  <2>2. TransportTyped' /\ ServersListen' /\ T!RoutesAreTheLatest'
    BY <1>2, <2>1 DEF T!FinishClose, TransportTyped, ServersListen, T!RoutesAreTheLatest
  <2>3. UseIsOfTheLiving'
    BY <1>1, <1>2, <2>1 DEF T!FinishClose, UseIsOfTheLiving, T!Stream, T!Dgram
  <2> QED BY <1>1, <2>2, <2>3
<1>3. CASE T!ListenerCloses
  <2>1. TransportTyped' /\ ServersListen' /\ T!RoutesAreTheLatest'
    BY <1>3 DEF T!ListenerCloses, TransportTyped, ServersListen, T!RoutesAreTheLatest
  <2>2. UseIsOfTheLiving'
    BY <1>1, <1>3 DEF T!ListenerCloses, UseIsOfTheLiving, T!Stream, T!Dgram
  <2> QED BY <1>1, <2>1, <2>2
<1> QED BY <1>2, <1>3

\* Every step of a transport keeps the invariant.
LEMMA TransportKeeps ==
  ASSUME TransportInv, T!TransportNext
  PROVE  TransportInv'
<1>1. CASE T!Open \/ T!OpenSucceeds \/ T!OpenFails \/ T!RuntimeIsReady
  BY <1>1, OpeningKeeps
<1>2. CASE \/ \E i \in WriteIds, e \in Addresses \cup {None} : T!SendTo(i, e)
           \/ \E w \in pending : T!Drains(w)
  BY <1>2, WritingKeeps
<1>3. CASE \E s \in T!Sockets, e \in Addresses : T!Accept(s, e)
  BY <1>3, AcceptKeeps
<1>4. CASE (\E s \in T!Sockets : T!Socket(s)) \/ T!ListenerErrors
  BY <1>4, SocketKeeps, MainIsASocket
<1>5. CASE T!MainErrors \/ T!MainCloses
  BY <1>5, MainKeeps
<1>6. CASE \E detach \in BOOLEAN : T!Close(detach)
  BY <1>6, CloseKeeps
<1>7. CASE T!FinishClose \/ T!ListenerCloses
  BY <1>7, ClosingEndsKeeps
<1> QED BY <1>1, <1>2, <1>3, <1>4, <1>5, <1>6, <1>7 DEF T!TransportNext

\* The invariant says of the writes what the property counts.
LEMMA WritesAreCounted ==
  ASSUME TransportInv
  PROVE  T!WritesAreAnswered
<1>1. T!TransportTypeOK
  <2>1. {usable, closed, finishing, ready, listening} \subseteq BOOLEAN
    BY DEF TransportInv, TransportTyped
  <2> QED BY <2>1 DEF TransportInv, TransportTyped, WritesAreOnce, T!TransportTypeOK
<1>2. ASSUME NEW i \in sent
      PROVE  reports[i] + T!Cardinality({w \in pending : w.id = i}) = 1
  <2> DEFINE waiting == {w \in pending : w.id = i}
  <2>1. Cardinality({}) = 0 /\ \A w : Cardinality({w}) = 1
    BY FS_EmptySet, FS_Singleton
  <2>2. \/ reports[i] = 0 /\ \E w \in pending : w.id = i
        \/ reports[i] = 1 /\ \A w \in pending : w.id # i
    BY DEF TransportInv, WritesAreOnce
  <2>3. CASE reports[i] = 0 /\ \E w \in pending : w.id = i
    <3>1. PICK w \in pending : w.id = i
      BY <2>3
    <3>2. waiting = {w}
      BY <3>1 DEF TransportInv, WritesAreOnce
    <3>3. Cardinality(waiting) = 1
      BY <3>2, <2>1
    <3> QED BY <2>3, <3>3, CardinalityOfTransports
  <2>4. CASE reports[i] = 1 /\ \A w \in pending : w.id # i
    <3>1. waiting = {}
      BY <2>4
    <3>2. Cardinality(waiting) = 0
      BY <3>1, <2>1
    <3> QED BY <2>4, <3>2, CardinalityOfTransports
  <2> QED BY <2>2, <2>3, <2>4
<1>3. \A w \in pending : T!Stream => handles[w.on] \in {"live", "dying"} /\ ~closed
  BY DEF TransportInv, UseIsOfTheLiving
<1> QED BY <1>1, <1>2, <1>3 DEF T!WritesAreAnswered

(***************************************************************************)
(* Received frames                                                         *)
(***************************************************************************)

\* Subscriptions have the numbers that were given out, and of those a dispatch
\* has walked past it served all that ask for its frame.
WalkIsTrue ==
  /\ nextId \in Nat /\ nextId > 0
  /\ \A i \in DOMAIN subs : i \in Nat /\ 0 < i /\ i < nextId
  /\ turn # None =>
       /\ turn \in R!Dispatches /\ turn.at < nextId
       /\ \A i \in DOMAIN subs : i <= turn.at /\ R!matches(subs[i], turn.decoded) => i \in turn.served

ReceiverInv ==
  /\ regime \in {"disabled", "open", "keyed", "recovery"}
  /\ queue \in Seq(Frames)
  /\ R!TrustIsEarned
  /\ WalkIsTrue

\* A set of numbers has a least one.
LEMMA LeastExists ==
  ASSUME NEW S, S \subseteq Nat, S # {}
  PROVE  \E x \in S : \A y \in S : x <= y
<1>1. PICK x \in S : \A y \in S : ~(<<y, x>> \in OpToRel(<, Nat))
  BY WFMin, NatLessThanWellFounded
<1>2. \A y \in S : y < x => <<y, x>> \in OpToRel(<, Nat)
  BY <1>1 DEF OpToRel
<1>3. x \in S /\ \A y \in S : ~(y < x)
  BY <1>1, <1>2, Zenon
<1>4. \A y \in S : x <= y
  BY <1>3
<1> QED BY <1>3, <1>4, Zenon

\* The next subscriber is the least of those ahead.
LEMMA NextIsLeast ==
  ASSUME WalkIsTrue, turn # None, R!Ahead # {}
  PROVE  /\ R!Min(R!Ahead) \in DOMAIN subs /\ R!Min(R!Ahead) > turn.at
         /\ \A j \in DOMAIN subs : j > turn.at => R!Min(R!Ahead) <= j
<1>1. R!Ahead \subseteq Nat
  BY DEF WalkIsTrue, R!Ahead
<1>2. \E x \in R!Ahead : \A y \in R!Ahead : x <= y
  BY <1>1, LeastExists
<1>3. R!Min(R!Ahead) \in R!Ahead /\ \A y \in R!Ahead : R!Min(R!Ahead) <= y
  BY <1>2 DEF R!Min
<1> QED BY <1>3 DEF R!Ahead

\* What a visit leaves of the table: those that were there, less some, and
\* perhaps one that is new.
LEMMA VisitChangesTable ==
  ASSUME WalkIsTrue, R!Visit
  PROVE  /\ nextId' \in {nextId, nextId + 1}
         /\ \A i \in DOMAIN subs' : \/ i \in DOMAIN subs /\ subs'[i] = subs[i]
                                    \/ i = nextId /\ nextId' = nextId + 1
<1>1. CASE UNCHANGED <<subs, nextId>>
  BY <1>1
<1>2. CASE \E gone \in {{}} \cup {{j} : j \in DOMAIN subs} :
             \/ subs' = R!Without(subs, gone) /\ UNCHANGED nextId
             \/ /\ nextId <= MaxSubs /\ nextId' = nextId + 1
                /\ \E f \in Filters : subs' = R!Added(R!Without(subs, gone), f)
  BY <1>2 DEF R!Without, R!Added
<1> QED BY <1>1, <1>2 DEF R!Visit

\* A visit moves the walk to the least subscriber ahead, and serves it if it asks
\* for the frame.
LEMMA VisitMovesOn ==
  ASSUME WalkIsTrue, R!Visit
  PROVE  LET i == R!Min(R!Ahead)
         IN  /\ turn # None /\ turn \in R!Dispatches /\ turn' \in R!Dispatches
             /\ turn'.at = i /\ turn'.decoded = turn.decoded
             /\ turn'.served = IF R!matches(subs[i], turn.decoded) THEN turn.served \cup {i} ELSE turn.served
<1> DEFINE i == R!Min(R!Ahead)
<1>1. turn # None /\ R!Ahead # {} /\ turn \in R!Dispatches
  BY DEF R!Visit, WalkIsTrue
<1>2. i \in Nat
  BY <1>1, NextIsLeast DEF WalkIsTrue
<1>3. turn' = IF R!matches(subs[i], turn.decoded) THEN [turn EXCEPT !.at = i, !.served = @ \cup {i}] ELSE [turn EXCEPT !.at = i]
  BY DEF R!Visit, R!GoesOn
<1> HIDE DEF i
<1> DEFINE Things == {R!Decoded(f, t) : f \in Frames, t \in R!Trusts}
<1>4. R!Dispatches = [decoded : Things, at : Nat, served : SUBSET Nat]
  BY DEF R!Dispatches
<1> HIDE DEF Things
<1>5. PICK d \in Things, a \in Nat, v \in SUBSET Nat : turn = [decoded |-> d, at |-> a, served |-> v]
  BY <1>1, <1>4
<1>6. \E w \in SUBSET Nat :
        /\ turn' = [decoded |-> d, at |-> i, served |-> w]
        /\ w = IF R!matches(subs[i], turn.decoded) THEN turn.served \cup {i} ELSE turn.served
  <2>1. CASE R!matches(subs[i], turn.decoded)
    <3>1. turn' = [decoded |-> d, at |-> i, served |-> v \cup {i}] /\ v \cup {i} \in SUBSET Nat /\ turn.served = v
      BY <1>2, <1>3, <2>1, <1>5
    <3> QED BY <2>1, <3>1
  <2>2. CASE ~R!matches(subs[i], turn.decoded)
    <3>1. turn' = [decoded |-> d, at |-> i, served |-> v] /\ turn.served = v
      BY <1>2, <1>3, <2>2, <1>5
    <3> QED BY <2>2, <3>1
  <2> QED BY <2>1, <2>2
<1>7. /\ turn' \in R!Dispatches /\ turn'.at = i /\ turn'.decoded = turn.decoded
      /\ turn'.served = IF R!matches(subs[i], turn.decoded) THEN turn.served \cup {i} ELSE turn.served
  <2>1. PICK w \in SUBSET Nat :
          /\ turn' = [decoded |-> d, at |-> i, served |-> w]
          /\ w = IF R!matches(subs[i], turn.decoded) THEN turn.served \cup {i} ELSE turn.served
    BY <1>6
  <2>2. turn' \in R!Dispatches
    BY <1>2, <2>1, <1>4
  <2> QED BY <2>1, <2>2, <1>5
<1> QED BY <1>1, <1>7 DEF i

\* A visit keeps what is known of the walk.
LEMMA VisitKeeps ==
  ASSUME WalkIsTrue, R!Visit
  PROVE  WalkIsTrue'
<1> DEFINE i == R!Min(R!Ahead)
<1>1. /\ turn # None /\ turn \in R!Dispatches /\ turn' \in R!Dispatches
      /\ turn'.at = i /\ turn'.decoded = turn.decoded
      /\ turn'.served = IF R!matches(subs[i], turn.decoded) THEN turn.served \cup {i} ELSE turn.served
  BY VisitMovesOn
<1>2. i \in DOMAIN subs /\ i > turn.at /\ \A j \in DOMAIN subs : j > turn.at => i <= j
  BY NextIsLeast DEF R!Visit
<1>3. /\ nextId' \in {nextId, nextId + 1}
      /\ \A j \in DOMAIN subs' : \/ j \in DOMAIN subs /\ subs'[j] = subs[j]
                                 \/ j = nextId /\ nextId' = nextId + 1
  BY VisitChangesTable
<1> HIDE DEF i
<1>4. turn.at \in Nat
  BY <1>1 DEF R!Dispatches
<1>5. ASSUME NEW j \in DOMAIN subs', j <= turn'.at, R!matches(subs'[j], turn'.decoded)
      PROVE  j \in turn'.served
  <2>1. j # nextId
    BY <1>1, <1>2, <1>5 DEF WalkIsTrue
  <2>2. j \in DOMAIN subs /\ subs'[j] = subs[j]
    BY <1>3, <2>1
  <2>3. CASE j <= turn.at
    BY <1>1, <1>5, <2>2, <2>3 DEF WalkIsTrue
  <2>4. CASE j > turn.at
    <3>1. j = i
      BY <1>1, <1>2, <1>5, <2>2, <2>4 DEF WalkIsTrue
    <3> QED BY <1>1, <1>5, <2>2, <3>1
  <2> QED BY <1>4, <2>2, <2>3, <2>4 DEF WalkIsTrue
<1>6. nextId' \in Nat /\ nextId' > 0 /\ \A j \in DOMAIN subs' : j \in Nat /\ 0 < j /\ j < nextId'
  BY <1>3 DEF WalkIsTrue
<1>7. turn'.at < nextId'
  BY <1>1, <1>2, <1>3 DEF WalkIsTrue
<1> QED BY <1>1, <1>5, <1>6, <1>7 DEF WalkIsTrue

\* What is not a visit and not a new frame leaves the walk, and whoever comes
\* between datagrams is not part of one.
LEMMA TableKeeps ==
  ASSUME WalkIsTrue,
         R!StateChanges \/ R!ReceiverCloses \/ R!Subscribe \/ R!Unsubscribe \/ R!DispatchEnds \/ R!OnDatagram
  PROVE  WalkIsTrue'
<1>1. CASE R!StateChanges \/ R!OnDatagram
  BY <1>1 DEF WalkIsTrue, R!StateChanges, R!OnDatagram, R!Between
<1>2. CASE R!ReceiverCloses
  BY <1>2 DEF WalkIsTrue, R!ReceiverCloses, R!Between
<1>3. CASE R!Subscribe
  BY <1>3 DEF WalkIsTrue, R!Subscribe, R!Between, R!Added
<1>4. CASE R!Unsubscribe
  BY <1>4 DEF WalkIsTrue, R!Unsubscribe, R!Between, R!Without
<1>5. CASE R!DispatchEnds
  BY <1>5 DEF WalkIsTrue, R!DispatchEnds
<1> QED BY <1>1, <1>2, <1>3, <1>4, <1>5

\* The verdict on a frame: trusted only what there is no key for or what is
\* signed by it.
LEMMA VerdictIsEarned ==
  ASSUME NEW f \in Frames
  PROVE  /\ R!Verdict(f).trusted \in R!Trusts
         /\ R!Verdict(f).trusted # "no" => regime = "open" \/ f.signature = "good"
<1>1. f.signature \in {"none", "bad", "good", "replay"}
  BY ReceiverAssumption DEF R!FramesAreSigned, R!Signatures
<1>2. CASE regime = "open"
  BY <1>2 DEF R!Verdict, R!Trusts
<1>3. CASE regime # "open"
  BY <1>1, <1>3 DEF R!Verdict, R!Trusts
<1> QED BY <1>2, <1>3

\* A new frame starts a walk that has served nobody, and teaches no route that
\* it did not prove.
LEMMA FrameKeeps ==
  ASSUME ReceiverInv, R!OnFrame
  PROVE  WalkIsTrue' /\ R!TrustIsEarned'
<1> DEFINE f == Head(queue)
           verdict == R!Verdict(f)
           ignored == f.sysid = 0 \/ R!Who(f) \in Own
<1>1. f \in Frames
  BY DEF ReceiverInv, R!OnFrame
<1>2. /\ verdict.trusted \in R!Trusts
      /\ verdict.trusted # "no" => regime = "open" \/ f.signature = "good"
  BY <1>1, VerdictIsEarned
<1>3. /\ UNCHANGED <<regime, linkState, subs, nextId>> /\ turn = None
      /\ vouched' = IF f.crcVerified /\ (regime = "open" \/ f.signature = "good")
                    THEN vouched \cup {<<R!Who(f), f.endpoint>>} ELSE vouched
      /\ \/ UNCHANGED <<badge, turn, peers>>
         \/ R!ShowsRejection(verdict.reason) /\ UNCHANGED <<turn, peers>>
         \/ /\ ~ignored /\ peers' = R!Learned(f, verdict.trusted)
            /\ turn' = [decoded |-> R!Decoded(f, verdict.trusted), at |-> 0, served |-> {}]
            /\ UNCHANGED badge
  BY DEF R!OnFrame
<1>4. WalkIsTrue'
  <2>1. CASE turn' = turn
    BY <1>3, <2>1 DEF ReceiverInv, WalkIsTrue
  <2>2. CASE turn' = [decoded |-> R!Decoded(f, verdict.trusted), at |-> 0, served |-> {}]
    <3>1. R!Decoded(f, verdict.trusted) \in {R!Decoded(g, t) : g \in Frames, t \in R!Trusts}
      BY <1>1, <1>2
    <3> DEFINE d == R!Decoded(f, verdict.trusted)
    <3>2. turn' \in R!Dispatches /\ turn'.at = 0
      BY <2>2, <3>1 DEF R!Dispatches
    <3>3. \A i \in DOMAIN subs' : ~(i <= 0)
      BY <1>3 DEF ReceiverInv, WalkIsTrue
    <3> QED BY <1>3, <3>2, <3>3 DEF ReceiverInv, WalkIsTrue
  <2> QED BY <1>3, <2>1, <2>2
<1>5. ASSUME NEW p \in DOMAIN peers', peers'[p] # None
      PROVE  <<p, peers'[p]>> \in vouched'
  <2>1. CASE peers' = peers
    BY <1>3, <1>5, <2>1 DEF ReceiverInv, R!TrustIsEarned
  <2>2. CASE peers' = R!Learned(f, verdict.trusted) /\ peers' # peers
    <3>1. f.crcVerified
      BY <2>2 DEF R!Learned
    <3>2. CASE p = R!Who(f) /\ verdict.trusted # "no"
      <4>1. peers'[p] = f.endpoint
        BY <2>2, <3>1, <3>2 DEF R!Learned
      <4>2. <<R!Who(f), f.endpoint>> \in vouched'
        BY <1>2, <1>3, <3>1, <3>2
      <4> QED BY <3>2, <4>1, <4>2
    <3>3. CASE ~(p = R!Who(f) /\ verdict.trusted # "no")
      <4>1. p \in DOMAIN peers /\ peers'[p] = peers[p]
        BY <1>5, <2>2, <3>1, <3>3 DEF R!Learned
      <4> QED BY <1>3, <1>5, <4>1 DEF ReceiverInv, R!TrustIsEarned
    <3> QED BY <3>2, <3>3
  <2> QED BY <1>3, <2>1, <2>2
<1>6. ASSUME NEW p \in DOMAIN peers'
      PROVE  p \notin Own /\ p.sysid # 0
  <2>1. CASE peers' = peers
    BY <2>1 DEF ReceiverInv, R!TrustIsEarned
  <2>2. CASE peers' = R!Learned(f, verdict.trusted) /\ ~ignored
    <3>1. CASE p = R!Who(f)
      BY <2>2, <3>1 DEF R!Who
    <3>2. CASE p # R!Who(f)
      BY <2>2, <3>2 DEF R!Learned, ReceiverInv, R!TrustIsEarned
    <3> QED BY <3>1, <3>2
  <2> QED BY <1>3, <2>1, <2>2
<1>7. regime' = "recovery" /\ linkState' = "connected" => badge' = "UNTRUSTED"
  BY <1>3 DEF ReceiverInv, R!TrustIsEarned, R!ShowsRejection
<1> QED BY <1>4, <1>5, <1>6, <1>7 DEF R!TrustIsEarned

\* A receiver begins with nobody known and nothing shown but its state.
LEMMA ReceiverStarts ==
  ASSUME R!ReceiverInit
  PROVE  ReceiverInv
BY DEF R!ReceiverInit, ReceiverInv, R!TrustIsEarned, WalkIsTrue

\* Every step of a receiver keeps the invariant.
LEMMA ReceiverKeeps ==
  ASSUME ReceiverInv, R!ReceiverNext
  PROVE  ReceiverInv'
<1>1. regime' = regime
  BY DEF R!ReceiverNext, R!StateChanges, R!ReceiverCloses, R!Subscribe, R!Unsubscribe, R!Visit, R!DispatchEnds,
         R!OnFrame, R!OnDatagram
<1>2. CASE R!OnFrame
  <2>1. queue' \in Seq(Frames)
    BY <1>2 DEF ReceiverInv, R!OnFrame
  <2> QED BY <1>1, <1>2, <2>1, FrameKeeps DEF ReceiverInv
<1>3. CASE R!OnDatagram
  <2>1. queue' \in Seq(Frames)
    <3>1. PICK n \in 1..MaxFrames : queue' \in [1..n -> Frames]
      BY <1>3 DEF R!OnDatagram
    <3>2. n \in Nat
      BY <3>1
    <3> QED BY <3>1, <3>2, SeqDef
  <2>2. R!TrustIsEarned'
    BY <1>3 DEF ReceiverInv, R!TrustIsEarned, R!OnDatagram
  <2> QED BY <1>1, <1>3, <2>1, <2>2, TableKeeps DEF ReceiverInv
<1>4. CASE R!StateChanges \/ R!ReceiverCloses
  <2>1. R!TrustIsEarned'
    BY <1>4 DEF ReceiverInv, R!TrustIsEarned, R!StateChanges, R!ReceiverCloses, R!BadgeOf
  <2>2. queue' = queue
    BY <1>4 DEF R!StateChanges, R!ReceiverCloses
  <2> QED BY <1>1, <1>4, <2>1, <2>2, TableKeeps DEF ReceiverInv
<1>5. CASE R!Subscribe \/ R!Unsubscribe \/ R!Visit \/ R!DispatchEnds
  <2>1. UNCHANGED <<linkState, badge, queue, peers, vouched>>
    BY <1>5 DEF R!Subscribe, R!Unsubscribe, R!Visit, R!DispatchEnds
  <2>2. R!TrustIsEarned'
    BY <1>1, <2>1 DEF ReceiverInv, R!TrustIsEarned
  <2> QED BY <1>1, <1>5, <2>1, <2>2, TableKeeps, VisitKeeps DEF ReceiverInv
<1> QED BY <1>2, <1>3, <1>4, <1>5 DEF R!ReceiverNext

\* A step of a receiver serves whom it has to, and nobody else.
LEMMA DispatchSteps ==
  ASSUME ReceiverInv, R!ReceiverNext
  PROVE  R!DispatchIsExact
<1>1. CASE turn = None \/ turn' = turn
  BY <1>1 DEF R!DispatchIsExact
<1>2. CASE turn # None /\ R!Visit
  <2> DEFINE i == R!Min(R!Ahead)
  <2>1. /\ turn \in R!Dispatches /\ turn' \in R!Dispatches
        /\ turn'.at = i /\ turn'.decoded = turn.decoded
        /\ turn'.served = IF R!matches(subs[i], turn.decoded) THEN turn.served \cup {i} ELSE turn.served
    BY <1>2, VisitMovesOn DEF ReceiverInv
  <2>2. i \in DOMAIN subs
    BY <1>2, NextIsLeast DEF R!Visit, ReceiverInv
  <2>3. turn' # None
    BY <2>1, ReceiverAssumption DEF R!NothingIsNoDispatch
  <2>4. WalkIsTrue'
    BY <1>2, VisitKeeps DEF ReceiverInv
  <2> HIDE DEF i
  <2>5. \A j \in DOMAIN subs' : R!matches(subs'[j], turn.decoded) /\ j <= turn'.at => j \in turn'.served
    BY <2>1, <2>3, <2>4 DEF WalkIsTrue
  <2>6. turn'.served \ turn.served \subseteq DOMAIN subs
    BY <2>1, <2>2
  <2>7. \A j \in turn'.served \ turn.served : R!matches(subs[j], turn.decoded)
    BY <2>1
  <2> QED BY <2>3, <2>5, <2>6, <2>7 DEF R!DispatchIsExact
<1>3. CASE turn # None /\ R!DispatchEnds
  <2>1. turn' = None /\ subs' = subs /\ \A j \in DOMAIN subs : ~(j > turn.at)
    BY <1>3 DEF R!DispatchEnds, R!Ahead
  <2>2. turn.at \in Nat /\ \A j \in DOMAIN subs : j \in Nat
    BY <1>3 DEF ReceiverInv, WalkIsTrue, R!Dispatches
  <2>3. \A j \in DOMAIN subs : R!matches(subs[j], turn.decoded) => j \in turn.served
    BY <1>3, <2>1, <2>2 DEF ReceiverInv, WalkIsTrue
  <2> QED BY <2>1, <2>3 DEF R!DispatchIsExact
<1>4. CASE R!OnFrame
  BY <1>4 DEF R!OnFrame, R!DispatchIsExact
<1>5. CASE R!StateChanges \/ R!ReceiverCloses \/ R!Subscribe \/ R!Unsubscribe \/ R!OnDatagram
  <2>1. turn' = turn
    BY <1>5 DEF R!StateChanges, R!ReceiverCloses, R!Subscribe, R!Unsubscribe, R!OnDatagram
  <2> QED BY <1>1, <2>1
<1> QED BY <1>1, <1>2, <1>3, <1>4, <1>5 DEF R!ReceiverNext

(***************************************************************************)
(* An In node                                                              *)
(***************************************************************************)

\* i is the last of the key k in the log.
IsLastOf(k, log, i) ==
  /\ i \in DOMAIN log /\ I!Key(log[i].frame) = k
  /\ \A j \in DOMAIN log : j > i => I!Key(log[j].frame) # k

\* The node remembers of each key the last one that went on: when that was and,
\* with changed-only, what was compared of it.
RemembersTheLast ==
  /\ \A k \in DOMAIN lastDeliveryMs : \E i : IsLastOf(k, out, i) /\ lastDeliveryMs[k] = out[i].at
  /\ \A i \in DOMAIN out : I!Key(out[i].frame) \in DOMAIN lastDeliveryMs
  /\ config.changedOnly =>
       /\ \A k \in DOMAIN lastFieldJson :
            \E i : IsLastOf(k, out, i) /\ lastFieldJson[k] = I!Subject(out[i].frame)
       /\ \A i \in DOMAIN out : I!Key(out[i].frame) \in DOMAIN lastFieldJson

InNodeInv ==
  /\ out \in Seq([frame : Arrivals, at : Nat]) /\ ticks \in Nat
  /\ RemembersTheLast
  /\ I!PassesOnAsConfigured

\* A subscription reaches a frame that is asked for, or that is unknown and shown.
LEMMA SubscriptionsReach ==
  ASSUME NEW d, I!Wanted(d)
  PROVE  I!Subscriptions(d) > 0 <=> config.messages = {} \/ d.name \in config.messages \/ d.unknown
<1> DEFINE named == {m \in config.messages : m = d.name}
<1>1. \A S : I!Cardinality(S) = Cardinality(S)
  BY DEF I!Cardinality, Cardinality
<1>2. CASE d.name \in config.messages
  <2>1. named = {d.name}
    BY <1>2
  <2>2. I!Cardinality(named) = 1
    BY <1>1, <2>1, FS_Singleton
  <2> QED BY <1>2, <2>2 DEF I!Subscriptions
<1>3. CASE d.name \notin config.messages
  <2>1. named = {}
    BY <1>3
  <2>2. I!Cardinality(named) = 0
    BY <1>1, <2>1, FS_EmptySet
  <2>3. d.unknown => config.showUnknown
    BY DEF I!Wanted
  <2> QED BY <1>3, <2>2, <2>3 DEF I!Subscriptions
<1> QED BY <1>2, <1>3

\* A key has one last entry.
LEMMA LastIsOne ==
  ASSUME NEW k, NEW n \in Nat, NEW log, DOMAIN log = 1..n, NEW i, NEW j, IsLastOf(k, log, i), IsLastOf(k, log, j)
  PROVE  i = j
BY DEF IsLastOf

\* What the node decides from what it remembers is what the log before makes due.
LEMMA PassesWhatIsDue ==
  ASSUME InNodeInv, NEW d
  PROVE  I!Due(d, ticks, out) <=> open /\ I!Passes(d) /\ I!Subscriptions(d) > 0
<1>1. PICK n \in Nat : DOMAIN out = 1..n
  BY DEF InNodeInv
<1>2. \A i : I!LastOfKin(d, out, i) <=> IsLastOf(I!Key(d), out, i)
  BY DEF I!LastOfKin, IsLastOf
<1>3. I!InTime(d) <=> \A i \in DOMAIN out : I!LastOfKin(d, out, i) =>
                        (I!LimitMs(d.name) # 0 => ticks - out[i].at >= I!LimitMs(d.name))
  <2>1. CASE I!Key(d) \in DOMAIN lastDeliveryMs
    <3>1. PICK i : IsLastOf(I!Key(d), out, i) /\ lastDeliveryMs[I!Key(d)] = out[i].at
      BY <2>1 DEF InNodeInv, RemembersTheLast
    <3>2. \A j : I!LastOfKin(d, out, j) <=> j = i
      BY <1>1, <1>2, <3>1, LastIsOne
    <3>3. i \in DOMAIN out
      BY <3>1 DEF IsLastOf
    <3> QED BY <2>1, <3>1, <3>2, <3>3 DEF I!InTime
  <2>2. CASE I!Key(d) \notin DOMAIN lastDeliveryMs
    <3>1. \A i \in DOMAIN out : ~I!LastOfKin(d, out, i)
      BY <2>2 DEF InNodeInv, RemembersTheLast, I!LastOfKin
    <3> QED BY <2>2, <3>1 DEF I!InTime
  <2> QED BY <2>1, <2>2
<1>4. ASSUME config.changedOnly
      PROVE  I!Changed(d) <=> \A i \in DOMAIN out : I!LastOfKin(d, out, i) => I!Subject(out[i].frame) # I!Subject(d)
  <2>1. CASE I!Key(d) \in DOMAIN lastFieldJson
    <3>1. PICK i : IsLastOf(I!Key(d), out, i) /\ lastFieldJson[I!Key(d)] = I!Subject(out[i].frame)
      BY <1>4, <2>1 DEF InNodeInv, RemembersTheLast
    <3>2. \A j : I!LastOfKin(d, out, j) <=> j = i
      BY <1>1, <1>2, <3>1, LastIsOne
    <3>3. i \in DOMAIN out
      BY <3>1 DEF IsLastOf
    <3> QED BY <2>1, <3>1, <3>2, <3>3 DEF I!Changed
  <2>2. CASE I!Key(d) \notin DOMAIN lastFieldJson
    <3>1. \A i \in DOMAIN out : ~I!LastOfKin(d, out, i)
      BY <1>4, <2>2 DEF InNodeInv, RemembersTheLast, I!LastOfKin
    <3> QED BY <2>2, <3>1 DEF I!Changed
  <2> QED BY <2>1, <2>2
<1>5. I!Wanted(d) => (I!Subscriptions(d) > 0 <=> config.messages = {} \/ d.name \in config.messages \/ d.unknown)
  BY SubscriptionsReach
<1> QED BY <1>3, <1>4, <1>5 DEF I!Due, I!Passes

\* What goes on is the last of its key, and the others' last stay theirs.
LEMMA AppendIsLast ==
  ASSUME NEW S, NEW log \in Seq(S), NEW o \in S, NEW k
  PROVE  /\ k = I!Key(o.frame) => IsLastOf(k, Append(log, o), Len(log) + 1)
         /\ k # I!Key(o.frame) => \A i : IsLastOf(k, log, i) => IsLastOf(k, Append(log, o), i)
         /\ Append(log, o)[Len(log) + 1] = o
         /\ \A i \in DOMAIN log : Append(log, o)[i] = log[i]
         /\ DOMAIN Append(log, o) = DOMAIN log \cup {Len(log) + 1}
<1>1. /\ DOMAIN log = 1..Len(log) /\ Len(log) \in Nat
      /\ DOMAIN Append(log, o) = 1..(Len(log) + 1)
      /\ Append(log, o)[Len(log) + 1] = o
      /\ \A i \in 1..Len(log) : Append(log, o)[i] = log[i]
  OBVIOUS
<1>2. DOMAIN Append(log, o) = DOMAIN log \cup {Len(log) + 1}
  BY <1>1
<1> QED BY <1>1, <1>2 DEF IsLastOf

\* What a frame leaves behind is remembered: of one that goes on its time and
\* what was compared, of one that does not, nothing new.
LEMMA OnDecodedRemembers ==
  ASSUME InNodeInv, NEW d \in Arrivals, I!OnDecoded(d), config' = config
  PROVE  RemembersTheLast' /\ out' = IF I!Passes(d) THEN Append(out, [frame |-> d, at |-> ticks]) ELSE out
<1> DEFINE o == [frame |-> d, at |-> ticks]
           S == [frame : Arrivals, at : Nat]
<1>1. out' = IF I!Passes(d) THEN Append(out, o) ELSE out
  BY DEF I!OnDecoded
<1>2. /\ out \in Seq(S) /\ o \in S /\ o.frame = d /\ o.at = ticks
      /\ Len(out) + 1 \notin DOMAIN out
  BY DEF InNodeInv
<1>3. \A x : I!Subject(x)' = I!Subject(x)
  BY DEF I!Subject
<1>4. /\ \A k \in DOMAIN lastDeliveryMs : \E i : IsLastOf(k, out, i) /\ lastDeliveryMs[k] = out[i].at
      /\ \A i \in DOMAIN out : I!Key(out[i].frame) \in DOMAIN lastDeliveryMs
      /\ config.changedOnly =>
           /\ \A k \in DOMAIN lastFieldJson : \E i : IsLastOf(k, out, i) /\ lastFieldJson[k] = I!Subject(out[i].frame)
           /\ \A i \in DOMAIN out : I!Key(out[i].frame) \in DOMAIN lastFieldJson
  BY DEF InNodeInv, RemembersTheLast
<1>5. CASE ~I!Passes(d)
  <2>1. out' = out /\ lastDeliveryMs' = lastDeliveryMs
    BY <1>1, <1>5 DEF I!OnDecoded
  <2>2. ASSUME config.changedOnly
        PROVE  DOMAIN lastFieldJson' = DOMAIN lastFieldJson /\ \A k \in DOMAIN lastFieldJson : lastFieldJson'[k] = lastFieldJson[k]
    <3>1. CASE I!Wanted(d) /\ I!InTime(d)
      <4>1. I!Key(d) \in DOMAIN lastFieldJson /\ lastFieldJson[I!Key(d)] = I!Subject(d)
        BY <1>5, <2>2, <3>1 DEF I!Passes, I!Changed
      <4>2. lastFieldJson' = I!Put(lastFieldJson, I!Key(d), I!Subject(d))
        BY <2>2, <3>1 DEF I!OnDecoded, I!Compared
      <4> QED BY <4>1, <4>2 DEF I!Put
    <3>2. CASE ~(I!Wanted(d) /\ I!InTime(d))
      BY <3>2 DEF I!OnDecoded, I!Compared
    <3> QED BY <3>1, <3>2
  <2>3. \A k, i : IsLastOf(k, out', i) <=> IsLastOf(k, out, i)
    BY <2>1
  <2>4. config.changedOnly =>
          /\ \A k \in DOMAIN lastFieldJson' : \E i : IsLastOf(k, out', i) /\ lastFieldJson'[k] = I!Subject(out'[i].frame)
          /\ \A i \in DOMAIN out' : I!Key(out'[i].frame) \in DOMAIN lastFieldJson'
    BY <1>4, <2>1, <2>2
  <2> QED BY <1>1, <1>3, <1>4, <1>5, <2>1, <2>4 DEF RemembersTheLast
<1>6. CASE I!Passes(d)
  <2> DEFINE n == Len(out) + 1
             key == I!Key(d)
  <2>1. /\ out' = Append(out, o)
        /\ DOMAIN out' = DOMAIN out \cup {n} /\ out'[n] = o /\ \A i \in DOMAIN out : out'[i] = out[i]
        /\ IsLastOf(key, out', n)
        /\ \A k, i : k # key /\ IsLastOf(k, out, i) => IsLastOf(k, out', i)
    <3> HIDE DEF S, o
    <3>1. out' = Append(out, o)
      BY <1>1, <1>6
    <3>2. \A k : /\ k = I!Key(o.frame) => IsLastOf(k, Append(out, o), Len(out) + 1)
                 /\ k # I!Key(o.frame) => \A i : IsLastOf(k, out, i) => IsLastOf(k, Append(out, o), i)
      BY <1>2, AppendIsLast
    <3>3. /\ Append(out, o)[Len(out) + 1] = o
          /\ \A i \in DOMAIN out : Append(out, o)[i] = out[i]
          /\ DOMAIN Append(out, o) = DOMAIN out \cup {Len(out) + 1}
      BY <1>2, AppendIsLast
    <3> QED BY <1>2, <3>1, <3>2, <3>3
  <2>2. \A k, i : IsLastOf(k, out, i) => i \in DOMAIN out
    BY DEF IsLastOf
  <2>3. /\ DOMAIN lastDeliveryMs' = DOMAIN lastDeliveryMs \cup {key}
        /\ \A k \in DOMAIN lastDeliveryMs' : lastDeliveryMs'[k] = IF k = key THEN ticks ELSE lastDeliveryMs[k]
    BY <1>6 DEF I!OnDecoded, I!Put
  <2>4. /\ \A k \in DOMAIN lastDeliveryMs' : \E i : IsLastOf(k, out', i) /\ lastDeliveryMs'[k] = out'[i].at
        /\ \A i \in DOMAIN out' : I!Key(out'[i].frame) \in DOMAIN lastDeliveryMs'
    <3> HIDE DEF n, key, o
    <3>1. ASSUME NEW k \in DOMAIN lastDeliveryMs'
          PROVE  \E i : IsLastOf(k, out', i) /\ lastDeliveryMs'[k] = out'[i].at
      <4>1. CASE k = key
        BY <1>2, <2>1, <2>3, <4>1
      <4>2. CASE k # key
        BY <1>4, <2>1, <2>2, <2>3, <4>2
      <4> QED BY <4>1, <4>2
    <3>2. ASSUME NEW i \in DOMAIN out'
          PROVE  I!Key(out'[i].frame) \in DOMAIN lastDeliveryMs'
      <4>1. CASE i \in DOMAIN out
        BY <1>4, <2>1, <2>3, <4>1
      <4>2. CASE i = n
        BY <1>2, <2>1, <2>3, <4>2 DEF key
      <4> QED BY <2>1, <4>1, <4>2
    <3> QED BY <3>1, <3>2
  <2>5. ASSUME config.changedOnly
        PROVE  /\ \A k \in DOMAIN lastFieldJson' : \E i : IsLastOf(k, out', i) /\ lastFieldJson'[k] = I!Subject(out'[i].frame)
               /\ \A i \in DOMAIN out' : I!Key(out'[i].frame) \in DOMAIN lastFieldJson'
    <3>1. lastFieldJson' = I!Put(lastFieldJson, key, I!Subject(d))
      BY <1>6, <2>5 DEF I!OnDecoded, I!Compared, I!Passes
    <3>2. /\ DOMAIN lastFieldJson' = DOMAIN lastFieldJson \cup {key}
          /\ \A k \in DOMAIN lastFieldJson' : lastFieldJson'[k] = IF k = key THEN I!Subject(d) ELSE lastFieldJson[k]
      BY <3>1 DEF I!Put
    <3> HIDE DEF n, key, o
    <3>3. ASSUME NEW k \in DOMAIN lastFieldJson'
          PROVE  \E i : IsLastOf(k, out', i) /\ lastFieldJson'[k] = I!Subject(out'[i].frame)
      <4>1. CASE k = key
        BY <1>2, <2>1, <3>2, <4>1
      <4>2. CASE k # key
        <5>1. k \in DOMAIN lastFieldJson /\ lastFieldJson'[k] = lastFieldJson[k]
          BY <3>2, <4>2
        <5>2. PICK i : IsLastOf(k, out, i) /\ lastFieldJson[k] = I!Subject(out[i].frame)
          BY <1>4, <2>5, <5>1
        <5>3. IsLastOf(k, out', i) /\ out'[i] = out[i]
          BY <2>1, <2>2, <4>2, <5>2
        <5> QED BY <5>1, <5>2, <5>3
      <4> QED BY <4>1, <4>2
    <3>4. ASSUME NEW i \in DOMAIN out'
          PROVE  I!Key(out'[i].frame) \in DOMAIN lastFieldJson'
      <4>1. CASE i \in DOMAIN out
        BY <1>4, <2>1, <2>5, <3>2, <4>1
      <4>2. CASE i = n
        BY <1>2, <2>1, <3>2, <4>2 DEF key
      <4> QED BY <2>1, <4>1, <4>2
    <3> QED BY <3>3, <3>4
  <2>6. RemembersTheLast'
    BY <1>3, <2>4, <2>5 DEF RemembersTheLast
  <2> QED BY <1>1, <1>6, <2>6
<1> QED BY <1>5, <1>6

\* Every step of an In node keeps its invariant.
LEMMA InNodeKeeps ==
  ASSUME InNodeInv, I!InNext
  PROVE  InNodeInv'
<1>1. ASSUME NEW d \in Arrivals, I!Arrives(d)
      PROVE  InNodeInv'
  <2> DEFINE o == [frame |-> d, at |-> ticks]
             S == [frame : Arrivals, at : Nat]
             goes == open /\ I!Passes(d) /\ I!Subscriptions(d) > 0
  <2>1. UNCHANGED <<config, open, ticks>> /\ latest' = [frame |-> d, at |-> ticks, before |-> Len(out)]
    BY <1>1 DEF I!Arrives
  <2>2. RemembersTheLast' /\ out' = IF goes THEN Append(out, o) ELSE out
    <3>1. CASE open /\ I!Subscriptions(d) > 0
      <4>1. I!OnDecoded(d)
        BY <1>1, <3>1 DEF I!Arrives
      <4> QED BY <2>1, <3>1, <4>1, OnDecodedRemembers
    <3>2. CASE ~(open /\ I!Subscriptions(d) > 0)
      <4>1. UNCHANGED <<lastFieldJson, lastDeliveryMs, out>>
        BY <1>1, <3>2 DEF I!Arrives
      <4> QED BY <2>1, <3>2, <4>1 DEF InNodeInv, RemembersTheLast, I!Subject
    <3> QED BY <3>1, <3>2
  <2>3. out \in Seq(S) /\ o \in S
    BY DEF InNodeInv
  <2>4. out' \in Seq(S) /\ ticks' \in Nat
    <3> HIDE DEF o, S, goes
    <3>1. Append(out, o) \in Seq(S)
      BY <2>3
    <3>2. ticks \in Nat
      BY DEF InNodeInv
    <3> QED BY <2>1, <2>2, <2>3, <3>1, <3>2
  <2>5. SubSeq(out', 1, Len(out)) = out
    <3> HIDE DEF o, S, goes
    <3>1. SubSeq(out, 1, Len(out)) = out /\ SubSeq(Append(out, o), 1, Len(out)) = out
      BY <2>3
    <3> QED BY <2>2, <3>1
  <2>6. I!Due(latest.frame, latest.at, SubSeq(out, 1, latest.before))' <=> I!Due(d, ticks, out)
    <3>1. latest'.frame = d /\ latest'.at = ticks /\ latest'.before = Len(out)
      BY <2>1
    <3> QED BY <2>1, <2>5, <3>1 DEF I!Due, I!LastOfKin, I!Wanted, I!HasField, I!LimitMs, I!Subject
  <2>7. I!PassesOnAsConfigured'
    <3>1. I!Due(d, ticks, out) <=> goes
      BY PassesWhatIsDue
    <3>2. latest'.frame = d /\ latest'.at = ticks /\ latest'.before = Len(out)
      BY <2>1
    <3> HIDE DEF goes
    <3> QED BY <2>2, <2>5, <2>6, <3>1, <3>2 DEF I!PassesOnAsConfigured
  <2> QED BY <2>2, <2>4, <2>7 DEF InNodeInv
<1>2. CASE I!InCloses
  <2>1. UNCHANGED <<config, lastFieldJson, lastDeliveryMs, ticks, out>> /\ latest' = None
    BY <1>2 DEF I!InCloses
  <2>2. RemembersTheLast'
    BY <2>1 DEF InNodeInv, RemembersTheLast, I!Subject
  <2> QED BY <2>1, <2>2 DEF InNodeInv, I!PassesOnAsConfigured
<1>3. CASE I!Ticks
  <2>1. UNCHANGED <<config, open, lastFieldJson, lastDeliveryMs, out, latest>> /\ ticks' \in Nat
    BY <1>3, InAssumption DEF I!Ticks, I!InBounds
  <2>2. RemembersTheLast'
    BY <2>1 DEF InNodeInv, RemembersTheLast, I!Subject
  <2>3. I!PassesOnAsConfigured'
    BY <2>1 DEF InNodeInv, I!PassesOnAsConfigured, I!Due, I!LastOfKin, I!Wanted, I!HasField, I!LimitMs, I!Subject
  <2> QED BY <2>1, <2>2, <2>3 DEF InNodeInv
<1> QED BY <1>1, <1>2, <1>3 DEF I!InNext

\* An In node begins with nothing passed on.
LEMMA InNodeStarts ==
  ASSUME I!InInit
  PROVE  InNodeInv
BY DEF I!InInit, InNodeInv, RemembersTheLast, I!PassesOnAsConfigured

(***************************************************************************)
(* Pipelines                                                               *)
(***************************************************************************)

\* What holds of zero, and of the next number of each it holds of, holds of all.
LEMMA AllNumbers ==
  ASSUME NEW S, 0 \in S, \A n \in Nat : n \in S => n + 1 \in S
  PROVE  \A n \in Nat : n \in S
<1> SUFFICES ASSUME \E n \in Nat : n \notin S
             PROVE  FALSE
  OBVIOUS
<1> DEFINE rest == {n \in Nat : n \notin S}
<1>1. PICK least \in rest : \A n \in rest : least <= n
  BY LeastExists, rest \subseteq Nat, rest # {}
<1>2. least \in Nat /\ least \notin S /\ least # 0
  BY <1>1
<1>3. least - 1 \in Nat /\ ~(least <= least - 1) /\ least = (least - 1) + 1
  BY <1>2
<1>4. least - 1 \in S
  BY <1>1, <1>3
<1> QED BY <1>2, <1>3, <1>4

\* Where a frame may start in a buffer.
Starting(buffer) == {i \in DOMAIN buffer : buffer[i] \in D!Starts}
\* Where it is.
From(buffer) == CHOOSE i \in Starting(buffer) : \A j \in Starting(buffer) : i <= j
\* What follows it.
Rest(buffer) == SubSeq(buffer, From(buffer) + 1, Len(buffer))
\* What is split off there, and what f makes of what is left.
Body(f, buffer) ==
  IF Starting(buffer) = {} THEN [frames |-> << >>, tail |-> buffer, failures |-> 0]
  ELSE IF Rest(buffer) = << >>
    THEN [frames |-> << >>, tail |-> SubSeq(buffer, From(buffer), From(buffer)), failures |-> 0]
  ELSE IF D!Valid(buffer[From(buffer)], Rest(buffer)[1])
    THEN [f[Tail(Rest(buffer))] EXCEPT !.frames = <<buffer[From(buffer)]>> \o @]
    ELSE [f[Rest(buffer)] EXCEPT !.failures = @ + IF D!Failed(buffer[From(buffer)], Rest(buffer)[1]) THEN 1 ELSE 0]

\* Buffers below some length.
Shorter(n) == {b \in Seq(D!Tokens) : Len(b) < n}
\* f splits the buffers below a length, by its values at shorter ones.
SplitsBelow(f, n) == f = [b \in Shorter(n) |-> Body(f, b)]

\* The first start of a buffer, and what follows it.
LEMMA FirstIs ==
  ASSUME NEW b \in Seq(D!Tokens), Starting(b) # {}
  PROVE  /\ From(b) \in 1..Len(b) /\ From(b) \in Nat /\ Len(b) \in Nat
         /\ b[From(b)] \in D!Starts /\ \A j \in 1..(From(b) - 1) : b[j] \notin D!Starts
         /\ Rest(b) \in Seq(D!Tokens) /\ Len(Rest(b)) = Len(b) - From(b)
         /\ \A i \in 1..(Len(b) - From(b)) : Rest(b)[i] = b[From(b) + i]
<1> DEFINE starting == Starting(b)
           from == From(b)
<1>1. DOMAIN b = 1..Len(b) /\ Len(b) \in Nat
  OBVIOUS
<1>2. \E i \in starting : \A j \in starting : i <= j
  BY <1>1, LeastExists, starting \subseteq Nat DEF Starting
<1>3. from \in starting /\ \A j \in starting : from <= j
  BY <1>2 DEF From
<1> USE DEF Starting
<1> HIDE DEF from
<1>4. from \in 1..Len(b) /\ from \in Nat /\ b[from] \in D!Starts
  BY <1>1, <1>3
<1>5. ASSUME NEW j \in 1..(from - 1)
      PROVE  b[j] \notin D!Starts
  <2>1. j \in 1..Len(b) /\ ~(from <= j)
    BY <1>1, <1>4
  <2> QED BY <1>1, <1>3, <2>1
<1> DEFINE k == from + 1
           l == Len(b)
           rest == SubSeq(b, k, l)
<1>6. k \in Int /\ l \in Int /\ k = from + 1 /\ l = Len(b)
  BY <1>1, <1>4
<1>7. \A i \in k..l : b[i] \in D!Tokens
  BY <1>1, <1>4, ElementOfSeq
<1> HIDE DEF k, l
<1>8. /\ rest \in Seq(D!Tokens) /\ Len(rest) = (IF k <= l THEN l - k + 1 ELSE 0)
      /\ \A i \in 1..(l - k + 1) : rest[i] = b[k + i - 1]
  BY <1>6, <1>7, SubSeqProperties, SMT
<1> HIDE DEF rest
<1>9. Len(rest) = Len(b) - from /\ \A i \in 1..(Len(b) - from) : rest[i] = b[from + i]
  <2> DEFINE size == Len(b)
  <2>0. size \in Nat /\ from \in Nat /\ from <= size /\ k = from + 1 /\ l = size
    BY <1>1, <1>4, <1>6
  <2> HIDE DEF size
  <2>1. l - k + 1 = size - from /\ (k <= l \/ size - from = 0)
    BY <2>0
  <2> USE DEF size
  <2>2. \A i \in 1..(Len(b) - from) : k + i - 1 = from + i
    BY <1>1, <1>4, <1>6
  <2>3. Len(rest) = Len(b) - from
    BY <1>8, <2>1, <1>6, <1>4, <1>1
  <2> QED BY <1>8, <2>1, <2>2, <2>3
<1>10. rest = SubSeq(b, from + 1, Len(b))
  BY <1>6 DEF rest
<1> QED BY <1>1, <1>4, <1>5, <1>8, <1>9, <1>10 DEF from, Rest

\* A split asks of itself only what shorter buffers give.
LEMMA BodyAsks ==
  ASSUME NEW b \in Seq(D!Tokens), NEW f, NEW g, \A c \in Seq(D!Tokens) : Len(c) < Len(b) => f[c] = g[c]
  PROVE  Body(f, b) = Body(g, b)
<1>1. CASE Starting(b) = {}
  BY <1>1 DEF Body
<1>2. CASE Starting(b) # {}
  <2> DEFINE rest == Rest(b)
  <2>1. rest \in Seq(D!Tokens) /\ Len(rest) = Len(b) - From(b) /\ From(b) \in 1..Len(b) /\ Len(b) \in Nat
    BY <1>2, FirstIs
  <2> HIDE DEF rest
  <2>2. Len(rest) < Len(b)
    BY <2>1
  <2>3. f[rest] = g[rest]
    BY <2>1, <2>2
  <2>4. CASE rest = <<>>
    BY <1>2, <2>4 DEF Body, rest
  <2>5. CASE rest # <<>>
    <3>1. Tail(rest) \in Seq(D!Tokens) /\ Len(Tail(rest)) = Len(rest) - 1
      BY <2>1, <2>5, HeadTailProperties
    <3>2. Len(Tail(rest)) < Len(b)
      BY <2>1, <2>2, <3>1
    <3>3. f[Tail(rest)] = g[Tail(rest)]
      BY <3>1, <3>2
    <3> QED BY <1>2, <2>3, <2>5, <3>3 DEF Body, rest
  <2> QED BY <2>4, <2>5
<1> QED BY <1>1, <1>2

\* Two that split below some length agree where both do.
LEMMA SplitsAgree ==
  ASSUME NEW n \in Nat, NEW m \in Nat, NEW f, NEW g, SplitsBelow(f, n), SplitsBelow(g, m)
  PROVE  \A b \in Seq(D!Tokens) : Len(b) < n /\ Len(b) < m => f[b] = g[b]
<1> DEFINE S == {k \in Nat : \A b \in Seq(D!Tokens) : Len(b) < k /\ Len(b) < n /\ Len(b) < m => f[b] = g[b]}
<1>1. \A b \in Shorter(n) : f[b] = Body(f, b)
  BY DEF SplitsBelow
<1>2. \A b \in Shorter(m) : g[b] = Body(g, b)
  BY DEF SplitsBelow
<1>3. 0 \in S
  OBVIOUS
<1>4. ASSUME NEW k \in Nat, k \in S
      PROVE  k + 1 \in S
  <2> SUFFICES ASSUME NEW b \in Seq(D!Tokens), Len(b) < k + 1, Len(b) < n, Len(b) < m
               PROVE  f[b] = g[b]
    OBVIOUS
  <2>1. \A c \in Seq(D!Tokens) : Len(c) < Len(b) => Len(c) < k /\ Len(c) < n /\ Len(c) < m
    OBVIOUS
  <2>2. \A c \in Seq(D!Tokens) : Len(c) < Len(b) => f[c] = g[c]
    BY <1>4, <2>1
  <2>3. Body(f, b) = Body(g, b)
    BY <2>2, BodyAsks
  <2> QED BY <1>1, <1>2, <2>3 DEF Shorter
<1> HIDE DEF S
<1>5. \A k \in Nat : k \in S
  BY <1>3, <1>4, AllNumbers
<1> USE DEF S
<1>6. ASSUME NEW b \in Seq(D!Tokens), Len(b) < n, Len(b) < m
      PROVE  f[b] = g[b]
  <2>1. Len(b) + 1 \in Nat /\ Len(b) < Len(b) + 1
    OBVIOUS
  <2> QED BY <1>5, <1>6, <2>1
<1> QED BY <1>6

\* There is one for every length.
LEMMA SplitsExist == \A n \in Nat : \E f : SplitsBelow(f, n)
<1> DEFINE S == {n \in Nat : \E f : SplitsBelow(f, n)}
<1>1. 0 \in S
  <2>1. Shorter(0) = {}
    BY DEF Shorter
  <2> DEFINE f == [b \in Shorter(0) |-> 0]
  <2>2. f = [b \in Shorter(0) |-> Body(f, b)]
    BY <2>1
  <2> QED BY <2>2 DEF SplitsBelow
<1>2. ASSUME NEW n \in Nat, n \in S
      PROVE  n + 1 \in S
  <2>1. PICK f : SplitsBelow(f, n)
    BY <1>2
  <2> DEFINE g == [b \in Shorter(n + 1) |-> Body(f, b)]
  <2>2. \A b \in Shorter(n) : f[b] = Body(f, b)
    BY <2>1 DEF SplitsBelow
  <2>3. \A b \in Shorter(n + 1) : g[b] = Body(f, b)
    OBVIOUS
  <2>4. DOMAIN g = Shorter(n + 1) /\ g = [b \in Shorter(n + 1) |-> g[b]]
    OBVIOUS
  <2> HIDE DEF g
  <2>5. ASSUME NEW b \in Shorter(n + 1)
        PROVE  g[b] = Body(g, b)
    <3>1. b \in Seq(D!Tokens) /\ Len(b) < n + 1
      BY DEF Shorter
    <3>2. \A c \in Seq(D!Tokens) : Len(c) < Len(b) => c \in Shorter(n) /\ c \in Shorter(n + 1)
      BY <3>1 DEF Shorter
    <3>3. \A c \in Seq(D!Tokens) : Len(c) < Len(b) => f[c] = g[c]
      BY <2>2, <2>3, <3>2
    <3>4. Body(f, b) = Body(g, b)
      BY <3>1, <3>3, BodyAsks
    <3> QED BY <2>3, <3>4
  <2>6. g = [b \in Shorter(n + 1) |-> Body(g, b)]
    BY <2>4, <2>5
  <2> QED BY <2>6 DEF SplitsBelow
<1> HIDE DEF S
<1>3. \A n \in Nat : n \in S
  BY <1>1, <1>2, AllNumbers
<1> QED BY <1>3 DEF S

\* What is split of a buffer is what its definition says.
LEMMA SplitIs == \A b \in Seq(D!Tokens) : D!Split[b] = Body(D!Split, b)
<1> DEFINE Of(n) == CHOOSE f : SplitsBelow(f, n)
           g == [b \in Seq(D!Tokens) |-> Of(Len(b) + 1)[b]]
<1>1. \A n \in Nat : SplitsBelow(Of(n), n)
  BY SplitsExist
<1>2. \A b \in Seq(D!Tokens) : g[b] = Of(Len(b) + 1)[b]
  OBVIOUS
<1>3. g = [b \in Seq(D!Tokens) |-> g[b]]
  OBVIOUS
<1> HIDE DEF Of, g
<1>4. ASSUME NEW b \in Seq(D!Tokens)
      PROVE  g[b] = Body(g, b)
  <2> DEFINE n == Len(b) + 1
  <2>1. n \in Nat /\ Len(b) < n
    OBVIOUS
  <2>2. SplitsBelow(Of(n), n)
    BY <1>1, <2>1
  <2>3. Of(n)[b] = Body(Of(n), b)
    BY <2>1, <2>2 DEF SplitsBelow, Shorter
  <2>4. ASSUME NEW c \in Seq(D!Tokens), Len(c) < Len(b)
        PROVE  Of(n)[c] = g[c]
    <3> DEFINE m == Len(c) + 1
    <3>1. m \in Nat /\ Len(c) < m /\ Len(c) < n
      BY <2>4
    <3>2. SplitsBelow(Of(m), m)
      BY <1>1, <3>1
    <3>3. g[c] = Of(m)[c]
      BY <1>2
    <3> HIDE DEF m, n
    <3>4. Of(n)[c] = Of(m)[c]
      BY <2>1, <2>2, <3>1, <3>2, SplitsAgree
    <3> QED BY <3>3, <3>4
  <2>5. g[b] = Of(n)[b]
    BY <1>2
  <2> HIDE DEF n
  <2>6. Body(Of(n), b) = Body(g, b)
    BY <2>4, BodyAsks
  <2> QED BY <2>3, <2>5, <2>6
<1>5. g = [b \in Seq(D!Tokens) |-> Body(g, b)]
  BY <1>3, <1>4
<1>6. D!Split = CHOOSE f : f = [b \in Seq(D!Tokens) |-> Body(f, b)]
  BY DEF D!Split, Body, Rest, From, Starting
<1>7. D!Split = [b \in Seq(D!Tokens) |-> Body(D!Split, b)]
  BY <1>5, <1>6
<1> QED BY <1>7

\* Nothing starts in a sequence.
Junk(s) == \A i \in 1..Len(s) : s[i] \notin D!Starts
\* No frame yet, and what is left.
Nothing(tail) == [frames |-> << >>, tail |-> tail, failures |-> 0]

\* What becomes of a start and what follows it.
After(s, r) ==
  IF r = << >> THEN Nothing(<<s>>)
  ELSE IF D!Valid(s, r[1]) THEN [D!Split[Tail(r)] EXCEPT !.frames = <<s>> \o @]
  ELSE [D!Split[r] EXCEPT !.failures = @ + IF D!Failed(s, r[1]) THEN 1 ELSE 0]

\* Where nothing starts, everything is kept.
LEMMA JunkIsKept ==
  ASSUME NEW b \in Seq(D!Tokens), Junk(b)
  PROVE  D!Split[b] = Nothing(b)
<1>1. Starting(b) = {}
  BY DEF Junk, Starting
<1> QED BY <1>1, SplitIs DEF Body, Nothing

\* Three sequences, one after the other, are the same however they are grouped.
LEMMA Regrouped == \A s, t, u \in Seq(D!Tokens) : (s \o t) \o u = s \o (t \o u)
BY ConcatAssociative

\* What starts a frame is a token.
LEMMA StartsAreTokens == D!Starts \subseteq D!Tokens
BY DEF D!Tokens

\* One sequence before another.
IsBefore(s, t, u) ==
  /\ Len(u) = Len(s) + Len(t) /\ Len(s) \in Nat /\ Len(t) \in Nat
  /\ \A i \in 1..Len(s) : u[i] = s[i]
  /\ \A i \in 1..Len(t) : u[Len(s) + i] = t[i]

\* That is what their concatenation is.
LEMMA BeforeIs ==
  ASSUME NEW S, NEW s \in Seq(S), NEW t \in Seq(S)
  PROVE  s \o t \in Seq(S) /\ IsBefore(s, t, s \o t)
<1>1. /\ s \o t \in Seq(S) /\ Len(s \o t) = Len(s) + Len(t)
      /\ \A i \in 1..(Len(s) + Len(t)) : (s \o t)[i] = IF i <= Len(s) THEN s[i] ELSE t[i - Len(s)]
  BY ConcatProperties
<1>2. Len(s) \in Nat /\ Len(t) \in Nat
  OBVIOUS
<1> DEFINE a == Len(s)
           b == Len(t)
           u == s \o t
<1> HIDE DEF a, b, u
<1>3. /\ \A i \in 1..a : i \in 1..(a + b) /\ i <= a
      /\ \A i \in 1..b : a + i \in 1..(a + b) /\ ~(a + i <= a) /\ (a + i) - a = i
  BY <1>2 DEF a, b
<1>4. \A i \in 1..(a + b) : u[i] = IF i <= a THEN s[i] ELSE t[i - a]
  BY <1>1 DEF a, b, u
<1>5. (\A i \in 1..a : u[i] = s[i]) /\ \A i \in 1..b : u[a + i] = t[i]
  BY <1>3, <1>4
<1> QED BY <1>1, <1>2, <1>5 DEF a, b, u, IsBefore

\* A start with what is before and after it.
IsAround(j, s, r, b) ==
  /\ Len(b) = Len(j) + 1 + Len(r)
  /\ \A i \in 1..Len(j) : b[i] = j[i]
  /\ b[Len(j) + 1] = s
  /\ \A i \in 1..Len(r) : b[Len(j) + 1 + i] = r[i]

\* So it is with a start between two sequences.
LEMMA AroundIs ==
  ASSUME NEW S, NEW j \in Seq(S), NEW s \in S, NEW r \in Seq(S)
  PROVE  j \o (<<s>> \o r) \in Seq(S) /\ IsAround(j, s, r, j \o (<<s>> \o r))
<1> DEFINE one == <<s>>
           t == one \o r
           b == j \o t
<1>1. one \in Seq(S) /\ Len(one) = 1 /\ one[1] = s
  OBVIOUS
<1> HIDE DEF one
<1>2. t \in Seq(S) /\ IsBefore(one, r, t)
  BY <1>1, BeforeIs, Zenon
<1> HIDE DEF t
<1>3. b \in Seq(S) /\ IsBefore(j, t, b)
  BY <1>2, BeforeIs, Zenon
<1> HIDE DEF b
<1> DEFINE size == Len(j)
           more == Len(r)
<1>4. /\ size \in Nat /\ more \in Nat /\ Len(t) = 1 + more /\ Len(b) = size + Len(t)
      /\ t[1] = s /\ (\A i \in 1..more : t[1 + i] = r[i]) /\ \A i \in 1..Len(t) : b[size + i] = t[i]
  BY <1>1, <1>2, <1>3 DEF IsBefore
<1> HIDE DEF size, more
<1>5. Len(b) = size + 1 + more /\ b[size + 1] = s
  BY <1>4
<1>6. ASSUME NEW i \in 1..more
      PROVE  b[size + 1 + i] = r[i]
  <2>1. 1 + i \in 1..Len(t) /\ size + (1 + i) = size + 1 + i
    BY <1>4
  <2> QED BY <1>4, <2>1
<1>7. \A i \in 1..size : b[i] = j[i]
  BY <1>3 DEF IsBefore, size
<1>8. IsAround(j, s, r, b)
  BY <1>5, <1>6, <1>7 DEF IsAround, size, more
<1> QED BY <1>3, <1>8 DEF b, t, one

\* A stretch of one is that one.
LEMMA OneOfThem ==
  ASSUME NEW S, NEW q, NEW k \in Int, NEW l \in Int, k = l, q[k] \in S
  PROVE  SubSeq(q, k, l) = <<q[k]>>
<1> DEFINE one == SubSeq(q, k, l)
<1>1. \A i \in k..l : q[i] \in S
  BY SMT
<1>2. /\ one \in Seq(S) /\ Len(one) = (IF k <= l THEN l - k + 1 ELSE 0)
      /\ \A i \in 1..(l - k + 1) : one[i] = q[k + i - 1]
  BY <1>1, SubSeqProperties, SMT
<1> HIDE DEF one
<1>3. l - k + 1 = 1 /\ k + 1 - 1 = k /\ k <= l /\ 1 \in 1..1
  OBVIOUS
<1>4. Len(one) = 1 /\ one[1] = q[k]
  BY <1>2, <1>3
<1>5. one = <<q[k]>>
  BY <1>2, <1>4
<1> QED BY <1>5 DEF one

\* The first start decides, whatever is before it.
LEMMA StartDecides ==
  ASSUME NEW j \in Seq(D!Tokens), NEW s \in D!Starts, NEW r \in Seq(D!Tokens), Junk(j)
  PROVE  /\ s \in D!Tokens /\ j \o (<<s>> \o r) \in Seq(D!Tokens)
         /\ D!Split[j \o (<<s>> \o r)] = After(s, r)
<1> DEFINE b == j \o (<<s>> \o r)
           size == Len(j)
           more == Len(r)
<1>1. s \in D!Tokens
  BY StartsAreTokens
<1>2. size \in Nat /\ more \in Nat
  OBVIOUS
<1>3. /\ b \in Seq(D!Tokens) /\ Len(b) = size + 1 + more
      /\ (\A i \in 1..size : b[i] = j[i]) /\ b[size + 1] = s
      /\ \A i \in 1..more : b[size + 1 + i] = r[i]
  <2>1. b \in Seq(D!Tokens) /\ IsAround(j, s, r, b)
    BY <1>1, AroundIs, Zenon
  <2> QED BY <2>1 DEF IsAround
<1>4. \A i \in 1..size : j[i] \notin D!Starts
  BY DEF Junk
<1>5. \A i \in 1..more : r[i] = r[i] /\ DOMAIN r = 1..more
  OBVIOUS
<1> HIDE DEF b, size
<1>6. size + 1 \in Starting(b)
  BY <1>2, <1>3 DEF Starting
<1>7. From(b) = size + 1
  <2>1. From(b) \in 1..Len(b) /\ b[From(b)] \in D!Starts /\ \A i \in 1..(From(b) - 1) : b[i] \notin D!Starts
    BY <1>3, <1>6, FirstIs
  <2>2. ~(From(b) <= size)
    <3>1. From(b) \in 1..Len(b) => From(b) \in Nat /\ From(b) > 0
      BY <1>2, <1>3
    <3>2. From(b) <= size => From(b) \in 1..size
      BY <1>2, <2>1, <3>1
    <3> QED BY <1>3, <1>4, <2>1, <3>2
  <2>3. ~(size + 1 <= From(b) - 1)
    BY <1>2, <1>3, <2>1
  <2> QED BY <1>2, <1>3, <2>1, <2>2, <2>3
<1>8. Rest(b) = r
  <2>1. /\ Rest(b) \in Seq(D!Tokens) /\ Len(Rest(b)) = Len(b) - From(b)
        /\ \A i \in 1..(Len(b) - From(b)) : Rest(b)[i] = b[From(b) + i]
    BY <1>3, <1>6, FirstIs
  <2>2. Len(b) - From(b) = more
    BY <1>2, <1>3, <1>7
  <2>3. Len(Rest(b)) = Len(r) /\ \A i \in 1..Len(Rest(b)) : Rest(b)[i] = r[i]
    BY <1>3, <1>7, <2>1, <2>2
  <2> QED BY <2>1, <2>3, SeqEqual
<1>9. SubSeq(b, size + 1, size + 1) = <<s>>
  <2> DEFINE k == size + 1
  <2>1. k \in Int /\ b[k] = s
    BY <1>2, <1>3
  <2> HIDE DEF k
  <2>2. b[k] \in D!Tokens
    BY <1>1, <2>1
  <2>3. SubSeq(b, k, k) = <<b[k]>>
    BY <2>1, <2>2, OneOfThem, Zenon
  <2> QED BY <2>1, <2>3 DEF k
<1>10. D!Split[b] = Body(D!Split, b)
  BY <1>3, SplitIs
<1>11. Starting(b) # {} /\ b[size + 1] = s
  BY <1>3, <1>6
<1>12. Body(D!Split, b) = After(s, r)
  BY <1>7, <1>8, <1>9, <1>11, Zenon DEF Body, After, Nothing
<1> QED BY <1>1, <1>3, <1>10, <1>12 DEF b

\* Either nothing starts in a buffer or there is a first that does.
LEMMA BufferIs ==
  ASSUME NEW b \in Seq(D!Tokens)
  PROVE  \/ Junk(b)
         \/ \E j, r \in Seq(D!Tokens) : \E s \in D!Starts : Junk(j) /\ b = j \o (<<s>> \o r) /\ Len(r) < Len(b)
<1> SUFFICES ASSUME ~Junk(b)
             PROVE  \E j, r \in Seq(D!Tokens) : \E s \in D!Starts : Junk(j) /\ b = j \o (<<s>> \o r) /\ Len(r) < Len(b)
  OBVIOUS
<1> DEFINE from == From(b)
           s == b[from]
           r == Rest(b)
           l == from - 1
           j == SubSeq(b, 1, l)
           t == j \o (<<s>> \o r)
<1>1. Starting(b) # {}
  BY DEF Junk, Starting
<1>2. /\ from \in 1..Len(b) /\ from \in Nat /\ Len(b) \in Nat
      /\ s \in D!Starts /\ \A i \in 1..(from - 1) : b[i] \notin D!Starts
      /\ r \in Seq(D!Tokens) /\ Len(r) = Len(b) - from
      /\ \A i \in 1..(Len(b) - from) : r[i] = b[from + i]
  BY <1>1, FirstIs
<1>3. s \in D!Tokens
  BY <1>2, StartsAreTokens
<1> HIDE DEF from, s, r, l
<1>4. l \in Nat /\ l = from - 1 /\ l <= Len(b) /\ 1 \in Int /\ l \in Int
  BY <1>2 DEF l
<1>5. \A i \in 1..l : b[i] \in D!Tokens
  BY <1>2, <1>4, ElementOfSeq
<1>6. j \in Seq(D!Tokens) /\ Len(j) = (IF 1 <= l THEN l - 1 + 1 ELSE 0) /\ \A i \in 1..(l - 1 + 1) : j[i] = b[1 + i - 1]
  BY <1>4, <1>5, SubSeqProperties, SMT
<1> HIDE DEF j
<1>7. Len(j) = l /\ \A i \in 1..l : j[i] = b[i]
  <2>0. l \in Nat
    BY <1>4
  <2>1. l - 1 + 1 = l /\ (1 <= l \/ l = 0)
    BY <2>0
  <2>2. \A i \in 1..l : 1 + i - 1 = i
    OBVIOUS
  <2> QED BY <1>6, <2>1, <2>2
<1>8. Junk(j)
  BY <1>2, <1>4, <1>7 DEF Junk
<1>9. t \in Seq(D!Tokens) /\ IsAround(j, s, r, t)
  BY <1>2, <1>3, <1>6, AroundIs, Zenon
<1> HIDE DEF t
<1>10. Len(t) = Len(b)
  BY <1>2, <1>4, <1>7, <1>9 DEF IsAround
<1>11. ASSUME NEW i \in 1..Len(b)
       PROVE  t[i] = b[i]
  <2>1. CASE i <= l
    BY <1>4, <1>7, <1>9, <2>1 DEF IsAround
  <2>2. CASE i = from
    BY <1>4, <1>7, <1>9, <2>2 DEF s, IsAround
  <2>3. CASE i > from
    <3>1. i - from \in 1..(Len(b) - from) /\ from + (i - from) = i /\ Len(j) + 1 + (i - from) = i
      BY <1>2, <1>4, <1>7, <2>3
    <3> QED BY <1>2, <1>9, <3>1 DEF IsAround
  <2> QED BY <1>2, <1>4, <2>1, <2>2, <2>3
<1>12. t = b
  BY <1>9, <1>10, <1>11, SeqEqual
<1>13. Len(r) < Len(b)
  BY <1>2
<1> QED BY <1>2, <1>6, <1>8, <1>12, <1>13 DEF t

\* What a split gives.
Results == [frames : Seq(D!Tokens), tail : Seq(D!Tokens), failures : Nat]

\* A tail that holds no frame: nothing starts in it, or it is a start alone.
Quiet(t) == Junk(t) \/ \E s \in D!Starts : t = <<s>>

\* What becomes of a buffer is a result with a quiet tail.
IsSplit(b) == D!Split[b] \in Results /\ Quiet(D!Split[b].tail)

\* What a start and more gives, a field at a time.
LEMMA AfterIs ==
  ASSUME NEW s \in D!Starts, NEW r \in Seq(D!Tokens), r # << >>, IsSplit(r), IsSplit(Tail(r))
  PROVE  /\ After(s, r) \in Results /\ Quiet(After(s, r).tail)
         /\ D!Valid(s, r[1]) => /\ After(s, r).frames = <<s>> \o D!Split[Tail(r)].frames
                                /\ After(s, r).tail = D!Split[Tail(r)].tail
         /\ ~D!Valid(s, r[1]) => /\ After(s, r).frames = D!Split[r].frames
                                 /\ After(s, r).tail = D!Split[r].tail
<1>1. s \in D!Tokens
  BY StartsAreTokens
<1>2. CASE D!Valid(s, r[1])
  <2>1. PICK f \in Seq(D!Tokens), t \in Seq(D!Tokens), n \in Nat :
          D!Split[Tail(r)] = [frames |-> f, tail |-> t, failures |-> n]
    BY DEF IsSplit, Results
  <2>2. After(s, r) = [frames |-> <<s>> \o f, tail |-> t, failures |-> n]
    <3> DEFINE x == D!Split[Tail(r)]
               one == <<s>>
    <3>1. After(s, r) = [x EXCEPT !.frames = one \o @]
      BY <1>2 DEF After
    <3> HIDE DEF x, one
    <3>2. x = [frames |-> f, tail |-> t, failures |-> n]
      BY <2>1 DEF x
    <3>3. x.frames = f
      BY <3>2
    <3>4. [x EXCEPT !.frames = one \o @] = [x EXCEPT !.frames = one \o f]
      BY <3>2, <3>3
    <3> DEFINE g == one \o f
    <3> HIDE DEF g
    <3>5. [x EXCEPT !.frames = g] = [frames |-> g, tail |-> t, failures |-> n]
      BY <3>2
    <3> QED BY <3>1, <3>4, <3>5 DEF g, one
  <2>3. <<s>> \in Seq(D!Tokens)
    BY <1>1
  <2>4. <<s>> \o f \in Seq(D!Tokens)
    BY <2>3, ConcatProperties, Zenon
  <2>5. Quiet(t)
    BY <2>1 DEF IsSplit
  <2> QED BY <1>2, <2>1, <2>2, <2>4, <2>5 DEF Results
<1>3. CASE ~D!Valid(s, r[1])
  <2>1. PICK f \in Seq(D!Tokens), t \in Seq(D!Tokens), n \in Nat :
          D!Split[r] = [frames |-> f, tail |-> t, failures |-> n]
    BY DEF IsSplit, Results
  <2> DEFINE failed == IF D!Failed(s, r[1]) THEN 1 ELSE 0
  <2>2. failed \in Nat
    OBVIOUS
  <2> HIDE DEF failed
  <2>3. After(s, r) = [frames |-> f, tail |-> t, failures |-> n + failed]
    BY <1>3, <2>1 DEF After, failed
  <2>4. Quiet(t)
    BY <2>1 DEF IsSplit
  <2>5. n + failed \in Nat
    BY <2>2
  <2> QED BY <1>3, <2>1, <2>3, <2>4, <2>5 DEF Results
<1> QED BY <1>2, <1>3

\* What Nothing is, a field at a time.
LEMMA NothingIs ==
  ASSUME NEW t \in Seq(D!Tokens)
  PROVE  Nothing(t) \in Results /\ Nothing(t).frames = << >> /\ Nothing(t).tail = t
BY DEF Nothing, Results

\* The rest of a buffer without its first.
LEMMA TailIs ==
  ASSUME NEW r \in Seq(D!Tokens), r # << >>
  PROVE  Tail(r) \in Seq(D!Tokens) /\ Len(Tail(r)) < Len(r) /\ Len(Tail(r)) \in Nat /\ Len(r) \in Nat
<1>1. Tail(r) \in Seq(D!Tokens) /\ Len(Tail(r)) = Len(r) - 1 /\ Len(r) \in Nat
  BY HeadTailProperties
<1>2. Len(Tail(r)) \in Nat
  BY <1>1
<1> QED BY <1>1, <1>2

\* Every split has its type, and what it leaves is quiet.
LEMMA SplitIsQuiet == \A b \in Seq(D!Tokens) : IsSplit(b)
<1> DEFINE S == {n \in Nat : \A b \in Seq(D!Tokens) : Len(b) < n => IsSplit(b)}
<1>1. 0 \in S
  OBVIOUS
<1>2. ASSUME NEW n \in Nat, n \in S
      PROVE  n + 1 \in S
  <2> SUFFICES ASSUME NEW b \in Seq(D!Tokens), Len(b) < n + 1
               PROVE  IsSplit(b)
    OBVIOUS
  <2>1. \A c \in Seq(D!Tokens) : Len(c) < Len(b) => IsSplit(c)
    <3> SUFFICES ASSUME NEW c \in Seq(D!Tokens), Len(c) < Len(b)
                 PROVE  IsSplit(c)
      OBVIOUS
    <3>1. Len(c) < n
      OBVIOUS
    <3> QED BY <1>2, <3>1
  <2>2. CASE Junk(b)
    BY <2>2, JunkIsKept, NothingIs DEF IsSplit, Quiet
  <2>3. CASE ~Junk(b)
    <3>1. PICK j, r \in Seq(D!Tokens), s \in D!Starts : Junk(j) /\ b = j \o (<<s>> \o r) /\ Len(r) < Len(b)
      BY <2>3, BufferIs
    <3>2. D!Split[b] = After(s, r) /\ s \in D!Tokens
      BY <3>1, StartDecides
    <3>3. CASE r = << >>
      <4>1. <<s>> \in Seq(D!Tokens)
        BY <3>2
      <4>2. D!Split[b] = Nothing(<<s>>)
        BY <3>2, <3>3 DEF After
      <4> QED BY <4>1, <4>2, NothingIs DEF IsSplit, Quiet
    <3>4. CASE r # << >>
      <4>1. Tail(r) \in Seq(D!Tokens) /\ Len(Tail(r)) < Len(b)
        <5>1. Tail(r) \in Seq(D!Tokens) /\ Len(Tail(r)) < Len(r) /\ Len(Tail(r)) \in Nat /\ Len(r) \in Nat
          BY <3>4, TailIs
        <5> QED BY <3>1, <5>1
      <4>2. IsSplit(r) /\ IsSplit(Tail(r))
        BY <2>1, <3>1, <4>1
      <4> QED BY <3>2, <3>4, <4>2, AfterIs DEF IsSplit
    <3> QED BY <3>3, <3>4
  <2> QED BY <2>2, <2>3
<1> HIDE DEF S
<1>3. \A n \in Nat : n \in S
  BY <1>1, <1>2, AllNumbers
<1> SUFFICES ASSUME NEW b \in Seq(D!Tokens)
             PROVE  IsSplit(b)
  OBVIOUS
<1>4. Len(b) + 1 \in Nat /\ Len(b) < Len(b) + 1
  OBVIOUS
<1>5. Len(b) + 1 \in S
  BY <1>3, <1>4
<1> QED BY <1>4, <1>5 DEF S

\* Junk before a buffer changes no frame of it.
LEMMA JunkChangesNothing ==
  ASSUME NEW t \in Seq(D!Tokens), NEW b \in Seq(D!Tokens), Junk(t)
  PROVE  D!Split[t \o b].frames = D!Split[b].frames
<1>1. ASSUME NEW c \in Seq(D!Tokens), Junk(c)
      PROVE  t \o c \in Seq(D!Tokens) /\ Junk(t \o c)
  <2> DEFINE u == t \o c
  <2>1. u \in Seq(D!Tokens) /\ IsBefore(t, c, u)
    BY BeforeIs, Zenon
  <2> HIDE DEF u
  <2>2. ASSUME NEW i \in 1..Len(u)
        PROVE  u[i] \notin D!Starts
    <3>1. CASE i <= Len(t)
      BY <2>1, <3>1 DEF IsBefore, Junk
    <3>2. CASE i > Len(t)
      <4>1. i - Len(t) \in 1..Len(c) /\ Len(t) + (i - Len(t)) = i
        BY <2>1, <3>2 DEF IsBefore
      <4>2. u[i] = c[i - Len(t)]
        BY <2>1, <4>1 DEF IsBefore
      <4> QED BY <1>1, <4>1, <4>2 DEF Junk
    <3>3. Len(u) \in Nat /\ Len(t) \in Nat
      BY <2>1
    <3> QED BY <3>1, <3>2, <3>3
  <2> QED BY <2>1, <2>2 DEF u, Junk
<1>2. CASE Junk(b)
  <2>1. t \o b \in Seq(D!Tokens) /\ Junk(t \o b)
    BY <1>1, <1>2
  <2>2. D!Split[t \o b] = Nothing(t \o b) /\ D!Split[b] = Nothing(b)
    BY <1>2, <2>1, JunkIsKept
  <2> QED BY <2>1, <2>2, NothingIs
<1>3. CASE ~Junk(b)
  <2>1. PICK j, r \in Seq(D!Tokens), s \in D!Starts : Junk(j) /\ b = j \o (<<s>> \o r) /\ Len(r) < Len(b)
    BY <1>3, BufferIs
  <2>2. D!Split[b] = After(s, r) /\ s \in D!Tokens
    BY <2>1, StartDecides
  <2>3. t \o j \in Seq(D!Tokens) /\ Junk(t \o j)
    BY <1>1, <2>1
  <2>4. <<s>> \o r \in Seq(D!Tokens)
    <3>1. <<s>> \in Seq(D!Tokens)
      BY <2>2
    <3> QED BY <3>1, ConcatProperties, Zenon
  <2>5. t \o b = (t \o j) \o (<<s>> \o r)
    BY <2>1, <2>4, Regrouped, Zenon
  <2>6. D!Split[(t \o j) \o (<<s>> \o r)] = After(s, r)
    BY <2>3, StartDecides, Zenon
  <2> QED BY <2>2, <2>5, <2>6
<1> QED BY <1>2, <1>3

\* What two buffers give is what the first gives, then what its tail and the second do.
Goes(a, b) == D!Split[a \o b].frames = D!Split[a].frames \o D!Split[D!Split[a].tail \o b].frames

\* Splitting is compositional: cutting a stream in two changes no frame of it.
LEMMA CutsChangeNothing == \A a, b \in Seq(D!Tokens) : Goes(a, b)
<1> SUFFICES ASSUME NEW b \in Seq(D!Tokens)
             PROVE  \A a \in Seq(D!Tokens) : Goes(a, b)
  OBVIOUS
<1> DEFINE S == {n \in Nat : \A a \in Seq(D!Tokens) : Len(a) < n => Goes(a, b)}
<1>0. \A a \in Seq(D!Tokens) : /\ D!Split[a].frames \in Seq(D!Tokens) /\ D!Split[a].tail \in Seq(D!Tokens)
                               /\ a \o b \in Seq(D!Tokens)
  <2> TAKE a \in Seq(D!Tokens)
  <2>1. IsSplit(a)
    BY SplitIsQuiet
  <2>2. D!Split[a].frames \in Seq(D!Tokens) /\ D!Split[a].tail \in Seq(D!Tokens)
    BY <2>1 DEF IsSplit, Results
  <2>3. a \o b \in Seq(D!Tokens)
    BY ConcatProperties, Zenon
  <2> QED BY <2>2, <2>3
<1>1. 0 \in S
  OBVIOUS
<1>2. ASSUME NEW n \in Nat, n \in S
      PROVE  n + 1 \in S
  <2> SUFFICES ASSUME NEW a \in Seq(D!Tokens), Len(a) < n + 1
               PROVE  Goes(a, b)
    OBVIOUS
  <2>1. \A c \in Seq(D!Tokens) : Len(c) < Len(a) => Goes(c, b)
    <3> SUFFICES ASSUME NEW c \in Seq(D!Tokens), Len(c) < Len(a)
                 PROVE  Goes(c, b)
      OBVIOUS
    <3>1. Len(c) < n
      OBVIOUS
    <3> QED BY <1>2, <3>1
  <2> HIDE DEF S
  <2>2. CASE Junk(a)
    <3>1. D!Split[a].frames = << >> /\ D!Split[a].tail = a
      BY <2>2, JunkIsKept, NothingIs
    <3>2. D!Split[a \o b].frames \in Seq(D!Tokens)
      BY <1>0
    <3>3. << >> \o D!Split[a \o b].frames = D!Split[a \o b].frames
      BY <3>2, ConcatEmptySeq, Zenon
    <3> QED BY <3>1, <3>3 DEF Goes
  <2>3. CASE ~Junk(a)
    <3>1. PICK j, r \in Seq(D!Tokens), s \in D!Starts : Junk(j) /\ a = j \o (<<s>> \o r) /\ Len(r) < Len(a)
      BY <2>3, BufferIs
    <3>2. D!Split[a] = After(s, r) /\ s \in D!Tokens
      BY <3>1, StartDecides
    <3> DEFINE one == <<s>>
    <3>3. one \in Seq(D!Tokens)
      BY <3>2
    <3> HIDE DEF one
    <3>4. a \o b = j \o (one \o (r \o b)) /\ r \o b \in Seq(D!Tokens)
      <4>1. one \o r \in Seq(D!Tokens) /\ r \o b \in Seq(D!Tokens)
        BY <3>3, ConcatProperties, Zenon
      <4>2. (j \o (one \o r)) \o b = j \o ((one \o r) \o b)
        BY <4>1, Regrouped, Zenon
      <4>3. (one \o r) \o b = one \o (r \o b)
        BY <3>3, Regrouped, Zenon
      <4> QED BY <3>1, <4>1, <4>2, <4>3 DEF one
    <3>5. D!Split[a \o b] = After(s, r \o b)
      <4>1. D!Split[j \o (<<s>> \o (r \o b))] = After(s, r \o b)
        BY <3>1, <3>4, StartDecides, Zenon
      <4> QED BY <3>4, <4>1 DEF one
    <3>6. CASE r = << >>
      <4>1. D!Split[a].frames = << >> /\ D!Split[a].tail = one
        BY <3>2, <3>3, <3>6, NothingIs DEF After, one
      <4>2. r \o b = b
        BY <3>6, ConcatEmptySeq, Zenon
      <4>3. D!Split[one \o b] = After(s, b)
        <5>1. << >> \in Seq(D!Tokens) /\ Junk(<< >>)
          BY DEF Junk
        <5>2. D!Split[<< >> \o (<<s>> \o b)] = After(s, b)
          BY <5>1, StartDecides, Zenon
        <5>3. one \o b \in Seq(D!Tokens)
          BY <3>3, ConcatProperties, Zenon
        <5>4. << >> \o (one \o b) = one \o b
          BY <5>3, ConcatEmptySeq, Zenon
        <5> QED BY <5>2, <5>4 DEF one
      <4>4. D!Split[a \o b].frames \in Seq(D!Tokens)
        BY <1>0
      <4>5. << >> \o D!Split[a \o b].frames = D!Split[a \o b].frames
        BY <4>4, ConcatEmptySeq, Zenon
      <4>6. D!Split[a \o b] = D!Split[one \o b]
        BY <3>5, <4>2, <4>3
      <4> QED BY <4>1, <4>5, <4>6 DEF Goes
    <3>7. CASE r # << >>
      <4> DEFINE w == r \o b
      <4>1. /\ w # << >> /\ w[1] = r[1] /\ Tail(w) = Tail(r) \o b
            /\ w \in Seq(D!Tokens) /\ Tail(r) \in Seq(D!Tokens) /\ Tail(w) \in Seq(D!Tokens)
        <5>1. w \in Seq(D!Tokens) /\ IsBefore(r, b, w)
          BY BeforeIs, Zenon
        <5> HIDE DEF w
        <5>2. Tail(r) \in Seq(D!Tokens) /\ Len(Tail(r)) = Len(r) - 1 /\ \A i \in 1..Len(Tail(r)) : Tail(r)[i] = r[i + 1]
          BY <3>7, HeadTailProperties, Zenon
        <5>3. Len(r) \in Nat /\ Len(r) > 0
          BY <3>7, EmptySeq
        <5>4. Len(w) > 0 /\ w[1] = r[1]
          BY <5>1, <5>3 DEF IsBefore
        <5>5. w # << >>
          BY <5>4
        <5>6. Tail(w) \in Seq(D!Tokens) /\ Len(Tail(w)) = Len(w) - 1 /\ \A i \in 1..Len(Tail(w)) : Tail(w)[i] = w[i + 1]
          BY <5>1, <5>5, HeadTailProperties, Zenon
        <5> DEFINE q == Tail(r)
                   v == q \o b
        <5>7. v \in Seq(D!Tokens) /\ IsBefore(q, b, v)
          BY <5>2, BeforeIs, Zenon
        <5> HIDE DEF q, v
        <5>8. Len(v) = Len(Tail(w))
          BY <5>1, <5>2, <5>3, <5>6, <5>7 DEF IsBefore, q
        <5>9. ASSUME NEW i \in 1..Len(v)
              PROVE  v[i] = Tail(w)[i]
          <6>1. Tail(w)[i] = w[i + 1]
            BY <5>6, <5>8
          <6>2. CASE i <= Len(q)
            <7>1. i \in 1..Len(q) /\ i + 1 \in 1..Len(r)
              BY <5>2, <5>3, <6>2 DEF q
            <7>2. v[i] = q[i] /\ w[i + 1] = r[i + 1] /\ q[i] = r[i + 1]
              BY <5>1, <5>2, <5>7, <7>1 DEF IsBefore, q
            <7> QED BY <6>1, <7>2
          <6>3. CASE i > Len(q)
            <7>1. i - Len(q) \in 1..Len(b) /\ Len(q) + (i - Len(q)) = i /\ Len(r) + (i - Len(q)) = i + 1
              BY <5>2, <5>3, <5>7, <6>3 DEF IsBefore, q
            <7>2. v[i] = b[i - Len(q)] /\ w[i + 1] = b[i - Len(q)]
              BY <5>1, <5>7, <7>1 DEF IsBefore
            <7> QED BY <6>1, <7>2
          <6>4. Len(q) \in Nat /\ i \in Nat
            BY <5>2, <5>3, <5>7 DEF q, IsBefore
          <6>5. i <= Len(q) \/ i > Len(q)
            <7> DEFINE z == Len(q)
            <7>1. z \in Nat /\ i \in Nat
              BY <6>4
            <7> HIDE DEF z
            <7>2. i <= z \/ i > z
              BY <7>1
            <7> QED BY <7>2 DEF z
          <6> QED BY <6>2, <6>3, <6>5
        <5>10. v = Tail(w)
          BY <5>6, <5>7, <5>8, <5>9, SeqEqual
        <5> QED BY <5>1, <5>2, <5>4, <5>5, <5>6, <5>10 DEF v, q
      <4> HIDE DEF w
      <4>2. IsSplit(r) /\ IsSplit(Tail(r)) /\ IsSplit(w) /\ IsSplit(Tail(w))
        BY <4>1, SplitIsQuiet
      <4>3. Goes(r, b)
        BY <2>1, <3>1
      <4>4. Goes(Tail(r), b)
        <5>1. Len(Tail(r)) < Len(r) /\ Len(Tail(r)) \in Nat /\ Len(r) \in Nat
          BY <3>7, TailIs
        <5>2. Len(Tail(r)) < Len(a)
          BY <3>1, <5>1
        <5> QED BY <2>1, <4>1, <5>2
      <4>5. CASE D!Valid(s, r[1])
        <5> DEFINE q == Tail(r)
                   f == D!Split[q].frames
                   g == D!Split[D!Split[q].tail \o b].frames
        <5>1. D!Split[a].frames = one \o f /\ D!Split[a].tail = D!Split[q].tail
          BY <3>2, <3>7, <4>2, <4>5, AfterIs DEF one
        <5>2. D!Split[a \o b].frames = one \o D!Split[q \o b].frames
          <6>1. D!Split[a \o b] = After(s, w) /\ D!Valid(s, w[1])
            BY <3>5, <4>1, <4>5 DEF w
          <6>2. After(s, w).frames = <<s>> \o D!Split[Tail(w)].frames
            BY <4>1, <4>2, <6>1, AfterIs
          <6> QED BY <4>1, <6>1, <6>2 DEF one
        <5>3. D!Split[q \o b].frames = f \o g
          BY <4>4 DEF Goes
        <5>4. f \in Seq(D!Tokens) /\ D!Split[q].tail \in Seq(D!Tokens)
          BY <1>0, <4>1
        <5>5. g \in Seq(D!Tokens)
          BY <1>0, <5>4
        <5>6. D!Split[D!Split[a].tail \o b].frames = g
          BY <5>1
        <5> HIDE DEF f, g
        <5>7. (one \o f) \o g = one \o (f \o g)
          BY <3>3, <5>4, <5>5, Regrouped, Zenon
        <5> QED BY <5>1, <5>2, <5>3, <5>6, <5>7 DEF Goes
      <4>6. CASE ~D!Valid(s, r[1])
        <5>1. D!Split[a].frames = D!Split[r].frames /\ D!Split[a].tail = D!Split[r].tail
          BY <3>2, <3>7, <4>2, <4>6, AfterIs
        <5>2. D!Split[a \o b].frames = D!Split[w].frames
          BY <3>5, <4>1, <4>2, <4>6, AfterIs DEF w
        <5> QED BY <4>3, <5>1, <5>2 DEF Goes, w
      <4> QED BY <4>5, <4>6
    <3> QED BY <3>6, <3>7
  <2> QED BY <2>2, <2>3
<1> HIDE DEF S
<1>3. \A n \in Nat : n \in S
  BY <1>1, <1>2, AllNumbers
<1> SUFFICES ASSUME NEW a \in Seq(D!Tokens)
             PROVE  Goes(a, b)
  OBVIOUS
<1>4. Len(a) + 1 \in Nat /\ Len(a) < Len(a) + 1
  OBVIOUS
<1>5. Len(a) + 1 \in S
  BY <1>3, <1>4
<1> QED BY <1>4, <1>5 DEF S

\* What a pipeline is.
Pipelines == [at : Senders, tail : Seq(D!Tokens), validated : BOOLEAN, lastUsed : Nat]

\* What is left of the first n pipelines without those of some endpoints: the others, in their order.
IsDropped(ps, gone, n, d) ==
  /\ d \in Seq(Pipelines) /\ Len(d) <= n
  /\ (\E k \in 1..n : ps[k].at \in gone) => Len(d) < n
  /\ \A i \in 1..Len(d) : \E k \in 1..n : d[i] = ps[k] /\ ps[k].at \notin gone
  /\ \A k \in 1..n : ps[k].at \notin gone => \E i \in 1..Len(d) : d[i] = ps[k]
  /\ \A i, j \in 1..Len(d) : i < j => \E k, l \in 1..n : k < l /\ d[i] = ps[k] /\ d[j] = ps[l]

\* The recursion of Drop defines one.
LEMMA DropIs ==
  ASSUME NEW ps \in Seq(Pipelines), NEW gone
  PROVE  IsDropped(ps, gone, Len(ps), D!Drop(ps, gone))
<1> DEFINE last == Len(ps)
           Longer(k, v) == IF ps[k].at \in gone THEN v ELSE Append(v, ps[k])
           kept == CHOOSE f : f = [k \in 0..last |-> IF k = 0 THEN << >> ELSE Longer(k, f[k - 1])]
<1>1. last \in Nat /\ \A k \in 1..last : ps[k] \in Pipelines
  BY ElementOfSeq
<1>2. D!Drop(ps, gone) = kept[last]
  <2> DEFINE rule(f) == [k \in 0..Len(ps) |->
                           IF k = 0 THEN << >> ELSE IF ps[k].at \in gone THEN f[k - 1] ELSE Append(f[k - 1], ps[k])]
  <2>1. D!Drop(ps, gone) = (CHOOSE f : f = rule(f))[Len(ps)]
    BY DEF D!Drop
  <2> QED BY <2>1
<1>3. \A k \in 1..last : \A v : Longer(k, v) = IF ps[k].at \in gone THEN v ELSE Append(v, ps[k])
  OBVIOUS
<1> HIDE DEF last, Longer
<1>4. \E f : f = [k \in 0..last |-> IF k = 0 THEN << >> ELSE Longer(k, f[k - 1])]
  <2> DEFINE S == {n \in Nat : \E f : f = [k \in 0..n |-> IF k = 0 THEN << >> ELSE Longer(k, f[k - 1])]}
  <2>1. 0 \in S
    <3> DEFINE f == [k \in 0..0 |-> << >>]
    <3>1. f = [k \in 0..0 |-> IF k = 0 THEN << >> ELSE Longer(k, f[k - 1])]
      OBVIOUS
    <3> QED BY <3>1
  <2>2. ASSUME NEW n \in Nat, n \in S
        PROVE  n + 1 \in S
    <3>1. PICK f : f = [k \in 0..n |-> IF k = 0 THEN << >> ELSE Longer(k, f[k - 1])]
      BY <2>2
    <3> DEFINE g == [k \in 0..(n + 1) |-> IF k = n + 1 THEN Longer(k, f[n]) ELSE f[k]]
    <3>2. \A k \in 0..n : f[k] = IF k = 0 THEN << >> ELSE Longer(k, f[k - 1])
      BY <3>1
    <3>3. \A k \in 0..(n + 1) : g[k] = IF k = n + 1 THEN Longer(k, f[n]) ELSE f[k]
      OBVIOUS
    <3>4. \A k \in 0..(n + 1) : g[k] = IF k = 0 THEN << >> ELSE Longer(k, g[k - 1])
      <4> TAKE k \in 0..(n + 1)
      <4> HIDE DEF g
      <4>1. CASE k = n + 1
        <5>1. k # 0 /\ k - 1 = n /\ n \in 0..(n + 1) /\ n # n + 1
          BY <4>1
        <5>2. g[k - 1] = f[n]
          BY <3>3, <5>1
        <5> QED BY <3>3, <4>1, <5>1, <5>2
      <4>2. CASE k # n + 1
        <5>1. k \in 0..n /\ g[k] = f[k]
          BY <3>3, <4>2
        <5>2. k # 0 => k - 1 \in 0..(n + 1) /\ k - 1 # n + 1
          BY <5>1
        <5>3. k # 0 => g[k - 1] = f[k - 1]
          BY <3>3, <5>2
        <5> QED BY <3>2, <5>1, <5>3
      <4> QED BY <4>1, <4>2
    <3>5. g = [k \in 0..(n + 1) |-> IF k = 0 THEN << >> ELSE Longer(k, g[k - 1])]
      BY <3>4
    <3> HIDE DEF g
    <3> QED BY <3>5
  <2> HIDE DEF S
  <2>3. last \in S
    BY <1>1, <2>1, <2>2, AllNumbers
  <2> QED BY <2>3 DEF S
<1>5. kept = [k \in 0..last |-> IF k = 0 THEN << >> ELSE Longer(k, kept[k - 1])]
  BY <1>4
<1> HIDE DEF kept
<1>6. \A k \in 0..last : kept[k] = IF k = 0 THEN << >> ELSE Longer(k, kept[k - 1])
  BY <1>5
<1> DEFINE S == {n \in Nat : n <= last => IsDropped(ps, gone, n, kept[n])}
<1>7. 0 \in S
  <2>1. kept[0] = << >>
    <3>1. 0 \in 0..last
      BY <1>1
    <3> QED BY <1>6, <3>1
  <2>2. << >> \in Seq(Pipelines) /\ Len(<< >>) = 0 /\ (\A i \in 1..0 : FALSE) /\ 0 <= 0
    OBVIOUS
  <2>3. IsDropped(ps, gone, 0, << >>)
    BY <2>2 DEF IsDropped
  <2> QED BY <2>1, <2>3
<1>8. ASSUME NEW n \in Nat, n \in S, n + 1 <= last
      PROVE  IsDropped(ps, gone, n + 1, kept[n + 1])
  <2> DEFINE d == kept[n]
             m == n + 1
             size == Len(d)
  <2>1. /\ m \in 1..last /\ m \in 0..last /\ m # 0 /\ m - 1 = n /\ m \in Nat /\ n < m
        /\ \A i \in 1..m : i = m \/ i \in 1..n
        /\ \A i \in 1..n : i \in 1..m /\ i < m
    BY <1>1, <1>8
  <2>2. IsDropped(ps, gone, n, d)
    BY <1>1, <1>8
  <2>3. kept[m] = Longer(m, d)
    BY <1>6, <2>1
  <2>4. size \in Nat /\ size <= n
    BY <2>2 DEF IsDropped
  <2> HIDE DEF d, m, size
  <2>5. CASE ps[m].at \in gone
    <3>1. kept[m] = d
      BY <1>3, <2>1, <2>3, <2>5
    <3>2. size < m /\ size <= m
      BY <2>1, <2>4
    <3>3. IsDropped(ps, gone, m, d)
      <4>1. d \in Seq(Pipelines) /\ Len(d) <= m /\ Len(d) < m
        BY <2>2, <3>2 DEF IsDropped, size
      <4>2. \A i \in 1..Len(d) : \E k \in 1..m : d[i] = ps[k] /\ ps[k].at \notin gone
        BY <2>1, <2>2 DEF IsDropped
      <4>3. \A k \in 1..m : ps[k].at \notin gone => \E i \in 1..Len(d) : d[i] = ps[k]
        BY <2>1, <2>2, <2>5 DEF IsDropped
      <4>4. \A i, j \in 1..Len(d) : i < j => \E k, l \in 1..m : k < l /\ d[i] = ps[k] /\ d[j] = ps[l]
        BY <2>1, <2>2 DEF IsDropped
      <4> QED BY <4>1, <4>2, <4>3, <4>4 DEF IsDropped
    <3> QED BY <3>1, <3>3 DEF m
  <2>6. CASE ps[m].at \notin gone
    <3> DEFINE e == Append(d, ps[m])
    <3>1. kept[m] = e
      BY <1>3, <2>1, <2>3, <2>6
    <3>2. /\ e \in Seq(Pipelines) /\ Len(e) = size + 1
          /\ (\A i \in 1..size : e[i] = d[i]) /\ e[size + 1] = ps[m]
      BY <1>1, <2>1, <2>2, AppendProperties DEF IsDropped, size
    <3> HIDE DEF e
    <3>3. \A i \in 1..(size + 1) : i = size + 1 \/ i \in 1..size
      BY <2>4
    <3>4. Len(e) <= m /\ ((\E k \in 1..m : ps[k].at \in gone) => Len(e) < m)
      <4>1. (\E k \in 1..n : ps[k].at \in gone) => size < n
        BY <2>2 DEF IsDropped, size
      <4>2. (\E k \in 1..m : ps[k].at \in gone) => \E k \in 1..n : ps[k].at \in gone
        BY <2>1, <2>6
      <4>3. m = n + 1
        BY DEF m
      <4>4. size <= n => size + 1 <= m
        BY <2>4, <4>3
      <4>5. size < n => size + 1 < m
        BY <2>4, <4>3
      <4> QED BY <2>4, <3>2, <4>1, <4>2, <4>4, <4>5
    <3>5. \A i \in 1..Len(e) : \E k \in 1..m : e[i] = ps[k] /\ ps[k].at \notin gone
      <4> SUFFICES ASSUME NEW i \in 1..Len(e)
                   PROVE  \E k \in 1..m : e[i] = ps[k] /\ ps[k].at \notin gone
        OBVIOUS
      <4>1. CASE i = size + 1
        <5>1. m \in 1..m
          BY <2>1
        <5> QED BY <2>6, <3>2, <4>1, <5>1
      <4>2. CASE i \in 1..size
        <5>1. PICK k \in 1..n : d[i] = ps[k] /\ ps[k].at \notin gone
          BY <2>2, <4>2 DEF IsDropped, size
        <5> QED BY <2>1, <3>2, <4>2, <5>1
      <4> QED BY <3>2, <3>3, <4>1, <4>2
    <3>6. \A k \in 1..m : ps[k].at \notin gone => \E i \in 1..Len(e) : e[i] = ps[k]
      <4> SUFFICES ASSUME NEW k \in 1..m, ps[k].at \notin gone
                   PROVE  \E i \in 1..Len(e) : e[i] = ps[k]
        OBVIOUS
      <4>1. CASE k = m
        <5>1. size + 1 \in 1..Len(e)
          BY <2>4, <3>2
        <5> QED BY <3>2, <4>1, <5>1
      <4>2. CASE k \in 1..n
        <5>1. PICK i \in 1..size : d[i] = ps[k]
          BY <2>2, <4>2 DEF IsDropped, size
        <5>2. i \in 1..Len(e)
          BY <2>4, <3>2, <5>1
        <5> QED BY <3>2, <5>1, <5>2
      <4> QED BY <2>1, <4>1, <4>2
    <3>7. \A i, j \in 1..Len(e) : i < j => \E k, l \in 1..m : k < l /\ e[i] = ps[k] /\ e[j] = ps[l]
      <4> SUFFICES ASSUME NEW i \in 1..Len(e), NEW j \in 1..Len(e), i < j
                   PROVE  \E k, l \in 1..m : k < l /\ e[i] = ps[k] /\ e[j] = ps[l]
        OBVIOUS
      <4>0. i \in 1..size
        BY <2>4, <3>2
      <4>1. CASE j = size + 1
        <5>1. PICK k \in 1..n : d[i] = ps[k]
          BY <2>2, <4>0 DEF IsDropped, size
        <5>2. m \in 1..m /\ k \in 1..m /\ k < m
          BY <2>1
        <5> QED BY <3>2, <4>0, <4>1, <5>1, <5>2
      <4>2. CASE j \in 1..size
        <5>1. PICK k \in 1..n, l \in 1..n : k < l /\ d[i] = ps[k] /\ d[j] = ps[l]
          BY <2>2, <4>0, <4>2 DEF IsDropped, size
        <5> QED BY <2>1, <3>2, <4>0, <4>2, <5>1
      <4> QED BY <3>2, <3>3, <4>1, <4>2
    <3> QED BY <3>1, <3>2, <3>4, <3>5, <3>6, <3>7 DEF IsDropped, m
  <2> QED BY <2>5, <2>6
<1>9. last \in S
  <2>1. \A n \in Nat : n \in S => n + 1 \in S
    <3> SUFFICES ASSUME NEW n \in Nat, n \in S
                 PROVE  n + 1 \in S
      OBVIOUS
    <3>1. n + 1 <= last => IsDropped(ps, gone, n + 1, kept[n + 1])
      BY <1>8
    <3>2. n + 1 \in Nat
      OBVIOUS
    <3> QED BY <3>1, <3>2
  <2> HIDE DEF S
  <2> QED BY <1>1, <1>7, <2>1, AllNumbers
<1>10. IsDropped(ps, gone, last, kept[last])
  <2>1. last <= last
    BY <1>1
  <2> QED BY <1>9, <2>1
<1> QED BY <1>2, <1>10 DEF last

\* One pipeline for each endpoint, the longest idle first.
Sorted(ps) ==
  \A i, j \in 1..Len(ps) : i < j => ps[i].at # ps[j].at /\ ps[i].lastUsed <= ps[j].lastUsed

\* What ended up in a pipeline goes on where its frames got to.
Follows(h, t, tail) == \A b \in Seq(D!Tokens) : D!Split[h \o b].frames = t \o D!Split[tail \o b].frames

\* A pipeline's tail stands for the rest of its endpoint's stream h, of which t was told.
Owns(p, h, t, now) == p.lastUsed <= now /\ Quiet(p.tail) /\ Follows(h[p.at], t[p.at], p.tail)
\* So it is now.
IsOwn(p) == Owns(p, heard, told, clock)

\* The pipelines, coldest first, each its endpoint's own; who has none was told nothing.
DecodeInv ==
  /\ clock \in Nat
  /\ pipes \in Seq(Pipelines) /\ Sorted(pipes) /\ Len(pipes) <= MaxDecoders
  /\ heard \in [Senders -> Seq(D!Tokens)] /\ told \in [Senders -> Seq(D!Tokens)]
  /\ \A e \in Senders : e \notin D!Keys(pipes) => heard[e] = << >> /\ told[e] = << >>
  /\ \A i \in 1..Len(pipes) : IsOwn(pipes[i])

\* The bounds, one at a time.
LEMMA BoundsAre == MaxDecoders \in Nat /\ MaxDecoders > 0 /\ MaxPending \in Nat /\ MaxPending > 0 /\ Datagrams \subseteq Seq(D!Tokens)
BY DecoderAssumption DEF D!DecoderBounds

\* The endpoints of pipelines.
LEMMA KeysAre ==
  ASSUME NEW ps \in Seq(Pipelines)
  PROVE  \A e : e \in D!Keys(ps) <=> \E i \in 1..Len(ps) : ps[i].at = e
<1>1. DOMAIN ps = 1..Len(ps)
  OBVIOUS
<1> QED BY <1>1 DEF D!Keys

\* Dropping some pipelines leaves the others sorted.
LEMMA DropKeeps ==
  ASSUME NEW ps \in Seq(Pipelines), Sorted(ps), NEW gone
  PROVE  /\ D!Drop(ps, gone) \in Seq(Pipelines) /\ Sorted(D!Drop(ps, gone)) /\ Len(D!Drop(ps, gone)) <= Len(ps)
         /\ \A e : e \in D!Keys(D!Drop(ps, gone)) <=> e \in D!Keys(ps) /\ e \notin gone
         /\ \A i \in 1..Len(D!Drop(ps, gone)) : \E k \in 1..Len(ps) : D!Drop(ps, gone)[i] = ps[k]
         /\ (\E e \in gone : e \in D!Keys(ps)) => Len(D!Drop(ps, gone)) < Len(ps)
<1> DEFINE d == D!Drop(ps, gone)
<1>1. IsDropped(ps, gone, Len(ps), d)
  BY DropIs
<1> HIDE DEF d
<1>2. d \in Seq(Pipelines) /\ Len(d) <= Len(ps)
  BY <1>1 DEF IsDropped
<1>3. Sorted(d)
  <2> SUFFICES ASSUME NEW i \in 1..Len(d), NEW j \in 1..Len(d), i < j
               PROVE  d[i].at # d[j].at /\ d[i].lastUsed <= d[j].lastUsed
    BY DEF Sorted
  <2>1. PICK k \in 1..Len(ps), l \in 1..Len(ps) : k < l /\ d[i] = ps[k] /\ d[j] = ps[l]
    BY <1>1 DEF IsDropped
  <2> QED BY <2>1 DEF Sorted
<1>4. \A e : e \in D!Keys(d) <=> e \in D!Keys(ps) /\ e \notin gone
  <2>1. \A e : e \in D!Keys(d) <=> \E i \in 1..Len(d) : d[i].at = e
    BY <1>2, KeysAre
  <2>2. \A e : e \in D!Keys(ps) <=> \E i \in 1..Len(ps) : ps[i].at = e
    BY KeysAre
  <2>3. \A i \in 1..Len(d) : \E k \in 1..Len(ps) : d[i] = ps[k] /\ ps[k].at \notin gone
    BY <1>1 DEF IsDropped
  <2>4. \A k \in 1..Len(ps) : ps[k].at \notin gone => \E i \in 1..Len(d) : d[i] = ps[k]
    BY <1>1 DEF IsDropped
  <2> SUFFICES ASSUME NEW e
               PROVE  e \in D!Keys(d) <=> e \in D!Keys(ps) /\ e \notin gone
    OBVIOUS
  <2>5. ASSUME e \in D!Keys(d)
        PROVE  e \in D!Keys(ps) /\ e \notin gone
    <3>1. PICK i \in 1..Len(d) : d[i].at = e
      BY <2>1, <2>5, Zenon
    <3>2. PICK k \in 1..Len(ps) : d[i] = ps[k] /\ ps[k].at \notin gone
      BY <2>3
    <3> QED BY <2>2, <3>1, <3>2
  <2>6. ASSUME e \in D!Keys(ps), e \notin gone
        PROVE  e \in D!Keys(d)
    <3>1. PICK k \in 1..Len(ps) : ps[k].at = e
      BY <2>2, <2>6, Zenon
    <3>2. PICK i \in 1..Len(d) : d[i] = ps[k]
      BY <2>4, <2>6, <3>1
    <3> QED BY <2>1, <3>1, <3>2
  <2> QED BY <2>5, <2>6
<1>5. \A i \in 1..Len(d) : \E k \in 1..Len(ps) : d[i] = ps[k]
  BY <1>1 DEF IsDropped
<1>6. (\E e \in gone : e \in D!Keys(ps)) => Len(d) < Len(ps)
  <2>1. \A e : e \in D!Keys(ps) <=> \E i \in 1..Len(ps) : ps[i].at = e
    BY KeysAre
  <2> QED BY <1>1, <2>1 DEF IsDropped
<1> QED BY <1>2, <1>3, <1>4, <1>5, <1>6 DEF d

\* What a pipeline keeps of its tail loses no frame.
LEMMA KeptLosesNothing ==
  ASSUME NEW t \in Seq(D!Tokens), Quiet(t)
  PROVE  /\ D!Kept(t) \in Seq(D!Tokens) /\ Quiet(D!Kept(t))
         /\ \A b \in Seq(D!Tokens) : D!Split[D!Kept(t) \o b].frames = D!Split[t \o b].frames
<1>1. << >> \in Seq(D!Tokens) /\ Junk(<< >>)
  BY DEF Junk
<1>2. CASE Len(t) > MaxPending
  <2>1. D!Kept(t) = << >>
    BY <1>2 DEF D!Kept
  <2>2. Junk(t)
    <3>1. ASSUME NEW s \in D!Starts, t = <<s>>
          PROVE  FALSE
      <4>1. Len(t) = 1
        BY <3>1
      <4> QED BY <1>2, <4>1, BoundsAre
    <3> QED BY <3>1 DEF Quiet
  <2>3. \A b \in Seq(D!Tokens) : << >> \o b = b
    BY ConcatEmptySeq
  <2>4. \A b \in Seq(D!Tokens) : D!Split[t \o b].frames = D!Split[b].frames
    BY <2>2, JunkChangesNothing
  <2> QED BY <1>1, <2>1, <2>3, <2>4 DEF Quiet
<1>3. CASE ~(Len(t) > MaxPending)
  <2>1. D!Kept(t) = t
    BY <1>3 DEF D!Kept
  <2> QED BY <2>1
<1> QED BY <1>2, <1>3

\* A quiet tail gives no frame of its own.
LEMMA QuietGivesNothing ==
  ASSUME NEW t \in Seq(D!Tokens), Quiet(t)
  PROVE  D!Split[t].frames = << >>
<1>1. CASE Junk(t)
  BY <1>1, JunkIsKept, NothingIs
<1>2. CASE ~Junk(t)
  <2>1. PICK s \in D!Starts : t = <<s>>
    BY <1>2 DEF Quiet
  <2>2. << >> \in Seq(D!Tokens) /\ Junk(<< >>)
    BY DEF Junk
  <2>3. D!Split[<< >> \o (<<s>> \o << >>)] = After(s, << >>)
    BY <2>2, StartDecides, Zenon
  <2>4. << >> \o (t \o << >>) = t
    BY ConcatEmptySeq
  <2>5. D!Split[t] = Nothing(t)
    BY <2>1, <2>3, <2>4 DEF After
  <2> QED BY <2>5, NothingIs
<1> QED BY <1>1, <1>2

\* A pipeline that is given up is one of those there are, and the coldest of its tier.
LEMMA VictimIs ==
  ASSUME NEW ps \in Seq(Pipelines), Len(ps) > 0
  PROVE  \E k \in 1..Len(ps) :
           /\ D!Victim(ps) = ps[k].at
           /\ D!LooksLikeMavPartial(ps[k]) =>
                \A i \in 1..Len(ps) : D!HasPendingPartial(ps[i]) /\ (ps[i].validated \/ D!LooksLikeMavPartial(ps[i]))
<1> DEFINE all == 1..Len(ps)
           junk == {i \in all : ~ps[i].validated /\ ~D!LooksLikeMavPartial(ps[i])}
           quiet == {i \in all : ps[i].validated /\ ~D!HasPendingPartial(ps[i])}
           tier == IF junk # {} THEN junk ELSE IF quiet # {} THEN quiet ELSE all
           k == CHOOSE i \in tier : \A j \in tier : i <= j
<1>1. DOMAIN ps = all /\ Len(ps) \in Nat
  OBVIOUS
<1>2. D!Victim(ps) = ps[k].at
  BY <1>1 DEF D!Victim
<1>3. tier \subseteq Nat /\ tier # {} /\ tier \subseteq all
  <2>1. all # {} /\ all \subseteq Nat
    <3>1. 1 \in all
      BY <1>1
    <3> QED BY <3>1
  <2>2. junk \subseteq all /\ quiet \subseteq all
    OBVIOUS
  <2> HIDE DEF all, junk, quiet
  <2> QED BY <2>1, <2>2
<1>4. k \in tier
  <2>1. \E i \in tier : \A j \in tier : i <= j
    BY <1>3, LeastExists
  <2> HIDE DEF tier
  <2> QED BY <2>1
<1> HIDE DEF k
<1>5. ASSUME D!LooksLikeMavPartial(ps[k]), NEW i \in all
      PROVE  D!HasPendingPartial(ps[i]) /\ (ps[i].validated \/ D!LooksLikeMavPartial(ps[i]))
  <2>1. junk = {}
    BY <1>4, <1>5
  <2>2. D!LooksLikeMavPartial(ps[k]) => D!HasPendingPartial(ps[k])
    BY DEF D!LooksLikeMavPartial
  <2>3. quiet = {}
    BY <1>4, <1>5, <2>1, <2>2
  <2>4. D!LooksLikeMavPartial(ps[i]) => D!HasPendingPartial(ps[i])
    BY DEF D!LooksLikeMavPartial
  <2>5. ~(i \in junk) /\ ~(i \in quiet)
    BY <2>1, <2>3
  <2> QED BY <2>4, <2>5
<1>6. k \in all
  BY <1>3, <1>4
<1> QED BY <1>2, <1>5, <1>6

\* What is at the front of what was appended to.
LEMMA FrontOfAppended ==
  ASSUME NEW S, NEW s \in Seq(S), NEW x \in S
  PROVE  D!Front(Append(s, x)) = s /\ D!Last(Append(s, x)) = x
<1> DEFINE t == Append(s, x)
           f == D!Front(t)
           size == Len(s)
<1>1. t \in Seq(S) /\ Len(t) = Len(s) + 1 /\ (\A i \in 1..Len(s) : t[i] = s[i]) /\ t[Len(s) + 1] = x
  BY AppendProperties
<1>2. size \in Nat
  OBVIOUS
<1> HIDE DEF t, size
<1>3. D!Last(t) = x
  BY <1>1 DEF D!Last
<1>4. f = SubSeq(t, 1, size)
  <2>1. Len(t) - 1 = size
    BY <1>1, <1>2 DEF size
  <2> QED BY <2>1 DEF D!Front
<1>5. \A i \in 1..size : t[i] \in S
  BY <1>1, ElementOfSeq DEF size
<1>6. f \in Seq(S) /\ Len(f) = (IF 1 <= size THEN size - 1 + 1 ELSE 0) /\ \A i \in 1..(size - 1 + 1) : f[i] = t[1 + i - 1]
  <2>1. 1 \in Int /\ size \in Int
    BY <1>2
  <2> HIDE DEF f
  <2> QED BY <1>4, <1>5, <2>1, SubSeqProperties, SMT
<1> HIDE DEF f
<1>7. Len(f) = size /\ \A i \in 1..size : f[i] = t[i]
  <2>1. size - 1 + 1 = size /\ (1 <= size \/ size = 0)
    BY <1>2
  <2>2. \A i \in 1..size : 1 + i - 1 = i
    OBVIOUS
  <2> QED BY <1>6, <2>1, <2>2
<1>8. f = s
  <2>1. Len(f) = Len(s) /\ \A i \in 1..Len(f) : f[i] = s[i]
    BY <1>1, <1>7 DEF size
  <2> QED BY <1>6, <2>1, SeqEqual
<1> QED BY <1>3, <1>8 DEF t, f

\* Some of the pipelines stay as they are.
LEMMA SomeStay ==
  ASSUME DecodeInv, NEW ps \in Seq(Pipelines), Sorted(ps), Len(ps) <= Len(pipes),
         \A i \in 1..Len(ps) : \E k \in 1..Len(pipes) : ps[i] = pipes[k],
         pipes' = ps, heard' = D!Living(heard, ps), told' = D!Living(told, ps), clock' = clock
  PROVE  DecodeInv'
<1>1. /\ heard' = [e \in Senders |-> IF e \in D!Keys(ps) THEN heard[e] ELSE << >>]
      /\ told' = [e \in Senders |-> IF e \in D!Keys(ps) THEN told[e] ELSE << >>]
  BY DEF D!Living
<1>2. /\ heard \in [Senders -> Seq(D!Tokens)] /\ told \in [Senders -> Seq(D!Tokens)]
      /\ \A i \in 1..Len(pipes) : IsOwn(pipes[i])
      /\ clock \in Nat /\ Len(pipes) <= MaxDecoders /\ pipes \in Seq(Pipelines)
  BY DEF DecodeInv
<1>3. heard' \in [Senders -> Seq(D!Tokens)] /\ told' \in [Senders -> Seq(D!Tokens)]
  BY <1>1, <1>2
<1>4. \A e \in Senders : e \notin D!Keys(ps) => heard'[e] = << >> /\ told'[e] = << >>
  BY <1>1
<1>5. ASSUME NEW i \in 1..Len(ps)
      PROVE  IsOwn(ps[i])'
  <2>1. PICK k \in 1..Len(pipes) : ps[i] = pipes[k]
    OBVIOUS
  <2>2. IsOwn(ps[i])
    BY <1>2, <2>1
  <2>3. ps[i] \in Pipelines /\ ps[i].at \in Senders /\ ps[i].at \in D!Keys(ps)
    <3>1. ps[i] \in Pipelines
      BY ElementOfSeq
    <3>2. ps[i].at \in D!Keys(ps)
      BY KeysAre
    <3> QED BY <3>1, <3>2 DEF Pipelines
  <2>4. heard'[ps[i].at] = heard[ps[i].at] /\ told'[ps[i].at] = told[ps[i].at]
    BY <1>1, <2>3
  <2> QED BY <2>2, <2>4 DEF IsOwn, Owns
<1>6. Len(ps) <= MaxDecoders
  <2>1. Len(ps) \in Nat /\ Len(pipes) \in Nat
    BY <1>2
  <2> QED BY <1>2, <2>1, BoundsAre
<1>7. pipes' \in Seq(Pipelines) /\ Sorted(pipes)' /\ (Len(pipes) <= MaxDecoders)'
  BY <1>6 DEF Sorted
<1>8. \A i \in 1..Len(pipes') : IsOwn(pipes[i])'
  BY <1>5 DEF IsOwn, Owns
<1>9. \A e \in Senders : e \notin D!Keys(pipes)' => heard'[e] = << >> /\ told'[e] = << >>
  BY <1>4 DEF D!Keys
<1> QED BY <1>2, <1>3, <1>7, <1>8, <1>9 DEF DecodeInv

\* What getDecoder makes of the pipelines: those that stay, and the endpoint's at the warm end.
IsGot(e, rest, entry) ==
  /\ D!GetDecoder(e) = Append(rest, entry)
  /\ rest \in Seq(Pipelines) /\ Sorted(rest) /\ Len(rest) < MaxDecoders
  /\ \A i \in 1..Len(rest) : \E k \in 1..Len(pipes) : rest[i] = pipes[k]
  /\ e \notin D!Keys(rest)
  /\ \A x \in D!Keys(pipes) : x \in D!Keys(rest) \/ x = e \/ (e \notin D!Keys(pipes) /\ x = D!Victim(pipes))
  /\ entry \in Pipelines /\ entry.at = e /\ entry.lastUsed = clock
  /\ Quiet(entry.tail) /\ Follows(heard[e], told[e], entry.tail)

\* GetDecoder gives such an entry.
LEMMA GetDecoderIs ==
  ASSUME DecodeInv, NEW e \in Senders
  PROVE  \E rest, entry : IsGot(e, rest, entry)
<1>1. /\ pipes \in Seq(Pipelines) /\ Sorted(pipes) /\ Len(pipes) <= MaxDecoders /\ clock \in Nat
      /\ \A i \in 1..Len(pipes) : IsOwn(pipes[i])
      /\ \A x \in Senders : x \notin D!Keys(pipes) => heard[x] = << >> /\ told[x] = << >>
      /\ DOMAIN pipes = 1..Len(pipes) /\ Len(pipes) \in Nat
  BY DEF DecodeInv
<1>2. \A x : x \in D!Keys(pipes) <=> \E i \in 1..Len(pipes) : pipes[i].at = x
  BY <1>1, KeysAre
<1>3. CASE e \in D!Keys(pipes)
  <2> DEFINE old == CHOOSE p \in D!ToSet(pipes) : p.at = e
             rest == D!Drop(pipes, {e})
             entry == [old EXCEPT !.lastUsed = clock]
  <2>1. D!GetDecoder(e) = Append(rest, entry)
    BY <1>3 DEF D!GetDecoder
  <2>2. old \in D!ToSet(pipes) /\ old.at = e
    <3>1. PICK i \in 1..Len(pipes) : pipes[i].at = e
      BY <1>2, <1>3
    <3>2. pipes[i] \in D!ToSet(pipes)
      BY <1>1 DEF D!ToSet
    <3> QED BY <3>1, <3>2
  <2> HIDE DEF old, rest
  <2>3. PICK k \in 1..Len(pipes) : old = pipes[k]
    BY <1>1, <2>2 DEF D!ToSet
  <2>4. IsOwn(old) /\ old \in Pipelines
    BY <1>1, <2>3, ElementOfSeq
  <2>5. /\ entry \in Pipelines /\ entry.at = e /\ entry.lastUsed = clock /\ entry.tail = old.tail
    BY <1>1, <2>2, <2>4 DEF Pipelines
  <2> HIDE DEF entry
  <2>6. Quiet(entry.tail) /\ Follows(heard[e], told[e], entry.tail)
    BY <2>2, <2>4, <2>5 DEF IsOwn, Owns
  <2>7. /\ rest \in Seq(Pipelines) /\ Sorted(rest) /\ Len(rest) <= Len(pipes)
        /\ \A x : x \in D!Keys(rest) <=> x \in D!Keys(pipes) /\ x \notin {e}
        /\ \A i \in 1..Len(rest) : \E j \in 1..Len(pipes) : rest[i] = pipes[j]
        /\ (\E x \in {e} : x \in D!Keys(pipes)) => Len(rest) < Len(pipes)
    BY <1>1, DropKeeps DEF rest
  <2>8. Len(rest) < MaxDecoders
    <3>1. Len(rest) < Len(pipes) /\ Len(rest) \in Nat
      BY <1>3, <2>7
    <3> QED BY <1>1, <3>1, BoundsAre
  <2>9. e \notin D!Keys(rest) /\ \A x \in D!Keys(pipes) : x \in D!Keys(rest) \/ x = e
    BY <2>7
  <2>10. IsGot(e, rest, entry)
    BY <2>1, <2>5, <2>6, <2>7, <2>8, <2>9 DEF IsGot
  <2> QED BY <2>10
<1>4. CASE e \notin D!Keys(pipes)
  <2> DEFINE rest == IF Len(pipes) >= MaxDecoders THEN D!EvictOne(pipes) ELSE pipes
             entry == [at |-> e, tail |-> << >>, validated |-> FALSE, lastUsed |-> clock]
  <2>1. D!GetDecoder(e) = Append(rest, entry)
    BY <1>4 DEF D!GetDecoder
  <2>2. << >> \in Seq(D!Tokens) /\ Junk(<< >>)
    BY DEF Junk
  <2>3. entry \in Pipelines /\ entry.at = e /\ entry.lastUsed = clock /\ entry.tail = << >>
    BY <1>1, <2>2 DEF Pipelines
  <2> HIDE DEF entry
  <2>4. Quiet(entry.tail)
    BY <2>2, <2>3 DEF Quiet
  <2>5. Follows(heard[e], told[e], entry.tail)
    <3> SUFFICES ASSUME NEW b \in Seq(D!Tokens)
                 PROVE  D!Split[<< >> \o b].frames = << >> \o D!Split[<< >> \o b].frames
      BY <1>1, <1>4, <2>3 DEF Follows
    <3>1. << >> \o b = b
      BY ConcatEmptySeq
    <3>2. D!Split[b].frames \in Seq(D!Tokens)
      BY SplitIsQuiet DEF IsSplit, Results
    <3>3. << >> \o D!Split[b].frames = D!Split[b].frames
      BY <3>2, ConcatEmptySeq
    <3> QED BY <3>1, <3>3
  <2>6. CASE Len(pipes) >= MaxDecoders
    <3> DEFINE victim == D!Victim(pipes)
    <3>1. rest = D!Drop(pipes, {victim})
      BY <2>6 DEF D!EvictOne
    <3>2. Len(pipes) > 0
      BY <1>1, <2>6, BoundsAre
    <3>3. victim \in D!Keys(pipes)
      BY <1>1, <1>2, <3>2, VictimIs
    <3> DEFINE left == D!Drop(pipes, {victim})
    <3> HIDE DEF victim, rest
    <3>4. /\ left \in Seq(Pipelines) /\ Sorted(left) /\ Len(left) <= Len(pipes)
          /\ \A x : x \in D!Keys(left) <=> x \in D!Keys(pipes) /\ x \notin {victim}
          /\ \A i \in 1..Len(left) : \E j \in 1..Len(pipes) : left[i] = pipes[j]
          /\ (\E x \in {victim} : x \in D!Keys(pipes)) => Len(left) < Len(pipes)
      BY <1>1, DropKeeps
    <3> HIDE DEF left
    <3>5. Len(left) < MaxDecoders
      <4>1. Len(left) < Len(pipes) /\ Len(left) \in Nat
        BY <3>3, <3>4
      <4> QED BY <1>1, <4>1, BoundsAre
    <3>6. e \notin D!Keys(left)
      BY <1>4, <3>4
    <3>7. \A x \in D!Keys(pipes) : x \in D!Keys(left) \/ x = D!Victim(pipes)
      BY <3>4 DEF victim
    <3>8. IsGot(e, rest, entry)
      BY <1>4, <2>1, <2>3, <2>4, <2>5, <3>1, <3>4, <3>5, <3>6, <3>7 DEF IsGot, left
    <3> QED BY <3>8
  <2>7. CASE ~(Len(pipes) >= MaxDecoders)
    <3>1. rest = pipes
      BY <2>7
    <3>2. Len(pipes) < MaxDecoders
      BY <1>1, <2>7, BoundsAre
    <3> HIDE DEF rest
    <3>3. IsGot(e, rest, entry)
      BY <1>1, <1>4, <2>1, <2>3, <2>4, <2>5, <3>1, <3>2 DEF IsGot
    <3> QED BY <3>3
  <2> QED BY <2>6, <2>7
<1> QED BY <1>3, <1>4

\* What a datagram adds to what was heard and told.
LEMMA FollowsOn ==
  ASSUME NEW h \in Seq(D!Tokens), NEW t \in Seq(D!Tokens), NEW tail \in Seq(D!Tokens), NEW d \in Seq(D!Tokens),
         Follows(h, t, tail)
  PROVE  Follows(h \o d, t \o D!Split[tail \o d].frames, D!Kept(D!Split[tail \o d].tail))
<1> DEFINE a == tail \o d
           f == D!Split[a].frames
           left == D!Split[a].tail
           kept == D!Kept(left)
<1>1. a \in Seq(D!Tokens)
  BY ConcatProperties, Zenon
<1>2. f \in Seq(D!Tokens) /\ left \in Seq(D!Tokens) /\ Quiet(left)
  BY <1>1, SplitIsQuiet DEF IsSplit, Results
<1> HIDE DEF f, left, a
<1>3. kept \in Seq(D!Tokens) /\ \A b \in Seq(D!Tokens) : D!Split[kept \o b].frames = D!Split[left \o b].frames
  BY <1>2, KeptLosesNothing
<1> HIDE DEF kept
<1>4. ASSUME NEW b \in Seq(D!Tokens)
      PROVE  D!Split[(h \o d) \o b].frames = (t \o f) \o D!Split[kept \o b].frames
  <2> DEFINE db == d \o b
             g == D!Split[kept \o b].frames
  <2>1. db \in Seq(D!Tokens) /\ kept \o b \in Seq(D!Tokens)
    BY <1>3, ConcatProperties, Zenon
  <2>2. (h \o d) \o b = h \o db
    BY Regrouped, Zenon
  <2>3. (tail \o d) \o b = tail \o db
    BY Regrouped, Zenon
  <2>4. g \in Seq(D!Tokens)
    BY <2>1, SplitIsQuiet DEF IsSplit, Results
  <2>5. g = D!Split[left \o b].frames
    BY <1>3
  <2> HIDE DEF db, g
  <2>6. D!Split[h \o db].frames = t \o D!Split[tail \o db].frames
    BY <2>1 DEF Follows
  <2>7. D!Split[a \o b].frames = f \o g
    <3>1. Goes(a, b)
      BY <1>1, CutsChangeNothing
    <3> QED BY <3>1, <2>5 DEF Goes, f, left
  <2>8. D!Split[tail \o db].frames = f \o g
    BY <2>3, <2>7 DEF a
  <2>9. (t \o f) \o g = t \o (f \o g)
    <3>1. t \in Seq(D!Tokens) /\ f \in Seq(D!Tokens) /\ g \in Seq(D!Tokens)
      BY <1>2, <2>4
    <3> QED BY ONLY <3>1, Regrouped, Zenon
  <2> QED BY <2>2, <2>6, <2>8, <2>9 DEF g
<1> QED BY <1>4 DEF Follows, kept, left, f, a

\* A datagram goes into the pipeline of who sent it, and into no other.
LEMMA DecodeKeeps ==
  ASSUME DecodeInv, NEW e \in Senders, NEW d \in Datagrams, D!Decode(e, d)
  PROVE  DecodeInv'
<1>1. PICK rest, entry : IsGot(e, rest, entry)
  BY GetDecoderIs
<1>2. /\ D!GetDecoder(e) = Append(rest, entry)
      /\ rest \in Seq(Pipelines) /\ Sorted(rest) /\ Len(rest) < MaxDecoders
      /\ \A i \in 1..Len(rest) : \E k \in 1..Len(pipes) : rest[i] = pipes[k]
      /\ e \notin D!Keys(rest)
      /\ entry \in Pipelines /\ entry.at = e /\ entry.lastUsed = clock
      /\ Quiet(entry.tail) /\ Follows(heard[e], told[e], entry.tail)
  BY <1>1 DEF IsGot
<1>3. D!Front(Append(rest, entry)) = rest /\ D!Last(Append(rest, entry)) = entry
  BY <1>2, FrontOfAppended
<1> DEFINE split == D!Split[entry.tail \o d]
           valid == entry.validated \/ \E i \in DOMAIN split.frames : split.frames[i] = "H"
           new == [entry EXCEPT !.tail = D!Kept(split.tail), !.validated = valid]
           ps == Append(rest, entry)
<1>4. /\ pipes' = Append(rest, [entry EXCEPT !.tail = D!Kept(split.tail),
                                             !.validated = @ \/ \E i \in DOMAIN split.frames : split.frames[i] = "H"])
      /\ heard' = [D!Living(heard, ps) EXCEPT ![e] = @ \o d]
      /\ told' = [D!Living(told, ps) EXCEPT ![e] = @ \o split.frames]
      /\ clock' = clock
  BY <1>2, <1>3 DEF D!Decode
<1>5. d \in Seq(D!Tokens) /\ MaxDecoders \in Nat
  BY BoundsAre
<1>6. /\ heard \in [Senders -> Seq(D!Tokens)] /\ told \in [Senders -> Seq(D!Tokens)]
      /\ (\A i \in 1..Len(pipes) : IsOwn(pipes[i])) /\ clock \in Nat /\ pipes \in Seq(Pipelines)
  BY DEF DecodeInv
<1>7. entry.tail \in Seq(D!Tokens) /\ entry.validated \in BOOLEAN
  BY <1>2 DEF Pipelines
<1>8. entry.tail \o d \in Seq(D!Tokens)
  BY <1>5, <1>7, ConcatProperties, Zenon
<1>9. split.frames \in Seq(D!Tokens) /\ split.tail \in Seq(D!Tokens) /\ Quiet(split.tail)
  BY <1>8, SplitIsQuiet DEF IsSplit, Results
<1>10. D!Kept(split.tail) \in Seq(D!Tokens) /\ Quiet(D!Kept(split.tail))
  BY <1>9, KeptLosesNothing
<1>11. Follows(heard[e] \o d, told[e] \o split.frames, D!Kept(split.tail))
  BY <1>2, <1>5, <1>6, <1>7, FollowsOn
<1> DEFINE kept == D!Kept(split.tail)
           frames == split.frames
<1>12. valid \in BOOLEAN
  BY <1>7
<1> HIDE DEF kept, frames, ps
<1>13. pipes' = Append(rest, new)
  BY <1>4
<1>14. new \in Pipelines /\ new.at = e /\ new.tail = kept /\ new.lastUsed = clock
  <2> DEFINE tailed == [entry EXCEPT !.tail = kept]
  <2>1. kept \in Seq(D!Tokens)
    BY <1>10 DEF kept
  <2> HIDE DEF valid
  <2>2. tailed \in Pipelines /\ tailed.at = e /\ tailed.tail = kept /\ tailed.lastUsed = clock
    BY <1>2, <2>1 DEF Pipelines
  <2> HIDE DEF tailed
  <2>3. [tailed EXCEPT !.validated = valid] \in Pipelines
    BY <1>12, <2>2 DEF Pipelines
  <2>4. /\ [tailed EXCEPT !.validated = valid].at = e /\ [tailed EXCEPT !.validated = valid].tail = kept
        /\ [tailed EXCEPT !.validated = valid].lastUsed = clock
    BY <2>2 DEF Pipelines
  <2> QED BY <2>3, <2>4 DEF tailed, kept
<1> HIDE DEF new, split, valid
<1>15. /\ pipes' \in Seq(Pipelines) /\ Len(pipes') = Len(rest) + 1
       /\ (\A i \in 1..Len(rest) : pipes'[i] = rest[i]) /\ pipes'[Len(rest) + 1] = new
  BY <1>2, <1>13, <1>14, AppendProperties
<1>16. \A x : x \in D!Keys(ps) <=> x \in D!Keys(rest) \/ x = e
  <2>1. /\ ps \in Seq(Pipelines) /\ Len(ps) = Len(rest) + 1
        /\ (\A i \in 1..Len(rest) : ps[i] = rest[i]) /\ ps[Len(rest) + 1] = entry
    BY <1>2, AppendProperties DEF ps
  <2>2. /\ \A x : x \in D!Keys(ps) <=> \E i \in 1..Len(ps) : ps[i].at = x
        /\ \A x : x \in D!Keys(rest) <=> \E i \in 1..Len(rest) : rest[i].at = x
    BY <1>2, <2>1, KeysAre
  <2>3. /\ \A i \in 1..Len(ps) : i = Len(rest) + 1 \/ i \in 1..Len(rest)
        /\ \A i \in 1..Len(rest) : i \in 1..Len(ps)
        /\ Len(rest) + 1 \in 1..Len(ps)
    BY <1>2, <2>1
  <2> QED BY <1>2, <2>1, <2>2, <2>3
<1>17. /\ heard' \in [Senders -> Seq(D!Tokens)] /\ told' \in [Senders -> Seq(D!Tokens)]
       /\ heard'[e] = heard[e] \o d /\ told'[e] = told[e] \o frames
       /\ \A x \in Senders : x # e => /\ heard'[x] = IF x \in D!Keys(rest) THEN heard[x] ELSE << >>
                                      /\ told'[x] = IF x \in D!Keys(rest) THEN told[x] ELSE << >>
  <2> DEFINE h == D!Living(heard, ps)
             t == D!Living(told, ps)
  <2>1. /\ h = [x \in Senders |-> IF x \in D!Keys(ps) THEN heard[x] ELSE << >>]
        /\ t = [x \in Senders |-> IF x \in D!Keys(ps) THEN told[x] ELSE << >>]
    BY DEF D!Living
  <2> HIDE DEF h, t
  <2>2. heard[e] \o d \in Seq(D!Tokens) /\ told[e] \o frames \in Seq(D!Tokens)
    <3>1. heard[e] \in Seq(D!Tokens) /\ told[e] \in Seq(D!Tokens) /\ frames \in Seq(D!Tokens)
      BY <1>6, <1>9 DEF frames
    <3> QED BY <1>5, <3>1, ConcatProperties, Zenon
  <2>3. h \in [Senders -> Seq(D!Tokens)] /\ t \in [Senders -> Seq(D!Tokens)] /\ h[e] = heard[e] /\ t[e] = told[e]
    BY <1>6, <1>16, <2>1
  <2>4. heard' = [h EXCEPT ![e] = @ \o d] /\ told' = [t EXCEPT ![e] = @ \o frames]
    BY <1>4 DEF h, t, frames
  <2>5. heard' = [h EXCEPT ![e] = heard[e] \o d] /\ told' = [t EXCEPT ![e] = told[e] \o frames]
    BY <2>3, <2>4
  <2>6. heard' \in [Senders -> Seq(D!Tokens)] /\ told' \in [Senders -> Seq(D!Tokens)]
    BY <2>2, <2>3, <2>5
  <2>7. heard'[e] = heard[e] \o d /\ told'[e] = told[e] \o frames
    BY <2>3, <2>5
  <2>8. \A x \in Senders : x # e => heard'[x] = h[x] /\ told'[x] = t[x]
    BY <2>3, <2>5
  <2> QED BY <1>16, <2>1, <2>6, <2>7, <2>8
<1>18. \A x : x \in D!Keys(pipes)' <=> x \in D!Keys(rest) \/ x = e
  <2> DEFINE qs == pipes'
  <2>1. /\ \A x : x \in D!Keys(qs) <=> \E i \in 1..Len(qs) : qs[i].at = x
        /\ \A x : x \in D!Keys(rest) <=> \E i \in 1..Len(rest) : rest[i].at = x
    BY <1>2, <1>15, KeysAre
  <2>2. D!Keys(pipes)' = D!Keys(qs)
    BY DEF D!Keys
  <2>3. /\ \A i \in 1..Len(qs) : i = Len(rest) + 1 \/ i \in 1..Len(rest)
        /\ \A i \in 1..Len(rest) : i \in 1..Len(qs)
        /\ Len(rest) + 1 \in 1..Len(qs)
    BY <1>2, <1>15
  <2> HIDE DEF qs
  <2>4. (\A i \in 1..Len(rest) : qs[i] = rest[i]) /\ qs[Len(rest) + 1] = new
    BY <1>15 DEF qs
  <2> QED BY <1>14, <2>1, <2>2, <2>3, <2>4
<1>19. \A x \in Senders : x \notin D!Keys(pipes)' => heard'[x] = << >> /\ told'[x] = << >>
  BY <1>17, <1>18
<1>20. ASSUME NEW i \in 1..Len(rest)
       PROVE  IsOwn(rest[i]) /\ IsOwn(rest[i])' /\ rest[i].at # e /\ rest[i].lastUsed <= clock
  <2>1. PICK k \in 1..Len(pipes) : rest[i] = pipes[k]
    BY <1>2
  <2>2. IsOwn(rest[i]) /\ rest[i] \in Pipelines
    BY <1>2, <1>6, <2>1, ElementOfSeq
  <2>3. rest[i].at \in D!Keys(rest) /\ rest[i].at \in Senders
    BY <1>2, <2>2, KeysAre DEF Pipelines
  <2>4. rest[i].at # e
    BY <1>2, <2>3
  <2>5. heard'[rest[i].at] = heard[rest[i].at] /\ told'[rest[i].at] = told[rest[i].at]
    BY <1>17, <2>3, <2>4
  <2> QED BY <1>4, <2>2, <2>4, <2>5 DEF IsOwn, Owns
<1>21. Owns(new, heard', told', clock')
  <2>1. Follows(heard'[e], told'[e], kept)
    BY <1>11, <1>17 DEF kept, frames
  <2>2. clock <= clock /\ Quiet(kept)
    BY <1>6, <1>10 DEF kept
  <2> QED BY <1>4, <1>14, <2>1, <2>2 DEF Owns
<1>22. \A i \in 1..Len(pipes') : i = Len(rest) + 1 \/ i \in 1..Len(rest)
  BY <1>2, <1>15
<1>23. \A i \in 1..Len(pipes') : Owns(pipes'[i], heard', told', clock')
  <2> SUFFICES ASSUME NEW i \in 1..Len(pipes')
               PROVE  Owns(pipes'[i], heard', told', clock')
    OBVIOUS
  <2>1. CASE i \in 1..Len(rest)
    <3>1. Owns(rest[i], heard', told', clock')
      BY <1>20, <2>1 DEF IsOwn
    <3> QED BY <1>15, <2>1, <3>1
  <2>2. CASE i = Len(rest) + 1
    BY <1>15, <1>21, <2>2
  <2> QED BY <1>22, <2>1, <2>2
<1>24. Sorted(pipes)'
  <2> SUFFICES ASSUME NEW i \in 1..Len(pipes'), NEW j \in 1..Len(pipes'), i < j
               PROVE  pipes'[i].at # pipes'[j].at /\ pipes'[i].lastUsed <= pipes'[j].lastUsed
    BY DEF Sorted
  <2>1. i \in 1..Len(rest)
    BY <1>2, <1>15
  <2>2. CASE j = Len(rest) + 1
    BY <1>14, <1>15, <1>20, <2>1, <2>2
  <2>3. CASE j \in 1..Len(rest)
    BY <1>2, <1>15, <2>1, <2>3 DEF Sorted
  <2> QED BY <1>22, <2>2, <2>3
<1>25. (Len(pipes) <= MaxDecoders)' /\ clock' \in Nat
  <2>1. Len(rest) \in Nat
    BY <1>2
  <2> QED BY <1>2, <1>4, <1>5, <1>6, <1>15, <2>1
<1> QED BY <1>15, <1>17, <1>19, <1>23, <1>24, <1>25 DEF DecodeInv, IsOwn

\* Time passes.
LEMMA PassesKeeps ==
  ASSUME DecodeInv, UNCHANGED pipes, UNCHANGED heard, UNCHANGED told, clock' \in Nat, clock <= clock'
  PROVE  DecodeInv'
<1>1. /\ clock \in Nat /\ pipes \in Seq(Pipelines) /\ \A i \in 1..Len(pipes) : IsOwn(pipes[i])
  BY DEF DecodeInv
<1>2. ASSUME NEW i \in 1..Len(pipes)
      PROVE  Owns(pipes[i], heard, told, clock')
  <2>1. IsOwn(pipes[i]) /\ pipes[i] \in Pipelines
    BY <1>1, ElementOfSeq
  <2>2. pipes[i].lastUsed \in Nat
    BY <2>1 DEF Pipelines
  <2>3. pipes[i].lastUsed <= clock'
    BY <1>1, <2>1, <2>2 DEF IsOwn, Owns
  <2> QED BY <2>1, <2>3 DEF IsOwn, Owns
<1>3. D!Keys(pipes)' = D!Keys(pipes) /\ (Sorted(pipes)' <=> Sorted(pipes))
  BY DEF D!Keys, Sorted
<1>4. \A i \in 1..Len(pipes') : Owns(pipes'[i], heard', told', clock')
  BY <1>2
<1> QED BY <1>3, <1>4 DEF DecodeInv, IsOwn

\* Every step keeps what is true of the pipelines.
LEMMA PipelinesKeep ==
  ASSUME DecodeInv, D!DecodeNext
  PROVE  DecodeInv'
<1>0. pipes \in Seq(Pipelines) /\ Sorted(pipes) /\ clock \in Nat /\ Len(pipes) \in Nat
  BY DEF DecodeInv
<1>1. ASSUME NEW gone, D!LeaveOnly(D!Drop(pipes, gone))
      PROVE  DecodeInv'
  <2> DEFINE ps == D!Drop(pipes, gone)
  <2>1. /\ ps \in Seq(Pipelines) /\ Sorted(ps) /\ Len(ps) <= Len(pipes)
        /\ \A e : e \in D!Keys(ps) <=> e \in D!Keys(pipes) /\ e \notin gone
        /\ \A i \in 1..Len(ps) : \E k \in 1..Len(pipes) : ps[i] = pipes[k]
        /\ (\E e \in gone : e \in D!Keys(pipes)) => Len(ps) < Len(pipes)
    BY <1>0, DropKeeps
  <2>2. pipes' = ps /\ heard' = D!Living(heard, ps) /\ told' = D!Living(told, ps) /\ clock' = clock
    BY <1>1 DEF D!LeaveOnly
  <2> HIDE DEF ps
  <2> QED BY <2>1, <2>2, SomeStay
<1>2. ASSUME NEW e \in Senders, NEW d \in Datagrams, D!Decode(e, d)
      PROVE  DecodeInv'
  BY <1>2, DecodeKeeps
<1>3. ASSUME NEW e \in Senders, D!ReleaseDecoder(e)
      PROVE  DecodeInv'
  BY <1>1, <1>3 DEF D!ReleaseDecoder
<1>4. CASE D!ClearDecoders
  <2>1. /\ << >> \in Seq(Pipelines) /\ Sorted(<< >>) /\ Len(<< >>) <= Len(pipes)
        /\ \A i \in 1..Len(<< >>) : \E k \in 1..Len(pipes) : << >>[i] = pipes[k]
    BY <1>0 DEF Sorted
  <2>2. pipes' = << >> /\ heard' = D!Living(heard, << >>) /\ told' = D!Living(told, << >>) /\ clock' = clock
    BY <1>4 DEF D!ClearDecoders, D!LeaveOnly
  <2> DEFINE ps == << >>
  <2>3. /\ ps \in Seq(Pipelines) /\ Sorted(ps) /\ Len(ps) <= Len(pipes)
        /\ \A i \in 1..Len(ps) : \E k \in 1..Len(pipes) : ps[i] = pipes[k]
        /\ pipes' = ps /\ heard' = D!Living(heard, ps) /\ told' = D!Living(told, ps) /\ clock' = clock
    BY <2>1, <2>2
  <2> HIDE DEF ps
  <2> QED BY <2>3, SomeStay
<1>5. CASE D!EvictIdleDecoders
  BY <1>1, <1>5 DEF D!EvictIdleDecoders
<1>6. CASE D!Passes
  <2>1. UNCHANGED pipes /\ UNCHANGED heard /\ UNCHANGED told /\ clock' = clock + 1
    BY <1>6 DEF D!Passes
  <2>2. clock' \in Nat /\ clock <= clock'
    BY <1>0, <2>1
  <2> QED BY <2>1, <2>2, PassesKeeps
<1> QED BY <1>2, <1>3, <1>4, <1>5, <1>6 DEF D!DecodeNext

\* There is no pipeline at first.
LEMMA PipelinesStart ==
  ASSUME D!DecodeInit
  PROVE  DecodeInv
<1>1. pipes = << >> /\ clock = 0 /\ heard = [e \in Senders |-> << >>] /\ told = [e \in Senders |-> << >>]
  BY DEF D!DecodeInit
<1>2. << >> \in Seq(Pipelines) /\ Sorted(<< >>) /\ Len(<< >>) <= MaxDecoders
  BY BoundsAre DEF Sorted
<1> QED BY <1>1, <1>2 DEF DecodeInv

\* What is told of a pipeline is what its endpoint's stream holds.
LEMMA PipelinesTellTheirOwn ==
  ASSUME DecodeInv
  PROVE  D!StreamsAreTheirOwn
<1>1. /\ pipes \in Seq(Pipelines) /\ Sorted(pipes) /\ Len(pipes) <= MaxDecoders /\ DOMAIN pipes = 1..Len(pipes)
      /\ heard \in [Senders -> Seq(D!Tokens)] /\ told \in [Senders -> Seq(D!Tokens)]
      /\ \A i \in 1..Len(pipes) : IsOwn(pipes[i])
  BY DEF DecodeInv
<1>2. ASSUME NEW e \in D!Keys(pipes)
      PROVE  told[e] = D!Split[heard[e]].frames
  <2>1. PICK i \in 1..Len(pipes) : pipes[i].at = e
    BY <1>1, KeysAre, Zenon
  <2> DEFINE h == heard[e]
             t == told[e]
             tail == pipes[i].tail
  <2>2. IsOwn(pipes[i]) /\ pipes[i] \in Pipelines
    BY <1>1, <2>1, ElementOfSeq
  <2>3. e \in Senders /\ tail \in Seq(D!Tokens)
    BY <2>1, <2>2 DEF Pipelines
  <2>4. h \in Seq(D!Tokens) /\ t \in Seq(D!Tokens)
    BY <1>1, <2>3
  <2>5. Quiet(tail) /\ Follows(h, t, tail)
    BY <2>1, <2>2 DEF IsOwn, Owns
  <2> HIDE DEF h, t, tail
  <2>6. << >> \in Seq(D!Tokens)
    OBVIOUS
  <2>7. D!Split[h \o << >>].frames = t \o D!Split[tail \o << >>].frames
    BY <2>5, <2>6 DEF Follows
  <2>8. h \o << >> = h /\ tail \o << >> = tail /\ t \o << >> = t
    BY <2>3, <2>4, ConcatEmptySeq
  <2>9. D!Split[tail].frames = << >>
    BY <2>3, <2>5, QuietGivesNothing
  <2>10. D!Split[h].frames = t
    BY <2>7, <2>8, <2>9
  <2> QED BY <2>10 DEF h, t
<1>3. \A i, j \in DOMAIN pipes : i < j => pipes[i].at # pipes[j].at /\ pipes[i].lastUsed <= pipes[j].lastUsed
  BY <1>1 DEF Sorted
<1> QED BY <1>1, <1>2, <1>3 DEF D!StreamsAreTheirOwn

\* Who is in a frame goes only where nobody else could.
LEMMA ChurnSparesFrames ==
  ASSUME DecodeInv, D!DecodeNext
  PROVE  D!PartialsOutliveChurn
<1>0. /\ pipes \in Seq(Pipelines) /\ Sorted(pipes) /\ DOMAIN pipes = 1..Len(pipes) /\ Len(pipes) \in Nat
  BY DEF DecodeInv
<1>1. \A x : x \in D!Keys(pipes) <=> \E i \in 1..Len(pipes) : pipes[i].at = x
  BY <1>0, KeysAre
<1> SUFFICES ASSUME NEW p \in D!ToSet(pipes), D!LooksLikeMavPartial(p),
                    p.at \notin D!Keys(pipes'), D!Keys(pipes') \ D!Keys(pipes) # {}, NEW q \in D!ToSet(pipes)
             PROVE  D!HasPendingPartial(q) /\ (q.validated \/ D!LooksLikeMavPartial(q))
  BY DEF D!PartialsOutliveChurn
<1>2. PICK i \in 1..Len(pipes), j \in 1..Len(pipes) : p = pipes[i] /\ q = pipes[j]
  BY <1>0 DEF D!ToSet
<1>3. ASSUME NEW gone, pipes' = D!Drop(pipes, gone)
      PROVE  FALSE
  <2>1. \A e : e \in D!Keys(D!Drop(pipes, gone)) => e \in D!Keys(pipes)
    BY <1>0, DropKeeps
  <2> QED BY <1>3, <2>1
<1>4. ASSUME NEW e \in Senders, NEW d \in Datagrams, D!Decode(e, d)
      PROVE  D!HasPendingPartial(q) /\ (q.validated \/ D!LooksLikeMavPartial(q))
  <2>1. PICK rest, entry : IsGot(e, rest, entry)
    BY GetDecoderIs
  <2>2. /\ D!GetDecoder(e) = Append(rest, entry) /\ rest \in Seq(Pipelines)
        /\ \A x \in D!Keys(pipes) : x \in D!Keys(rest) \/ x = e \/ (e \notin D!Keys(pipes) /\ x = D!Victim(pipes))
        /\ entry \in Pipelines /\ entry.at = e
        /\ \A k \in 1..Len(rest) : \E l \in 1..Len(pipes) : rest[k] = pipes[l]
    BY <2>1 DEF IsGot
  <2>3. D!Front(Append(rest, entry)) = rest /\ D!Last(Append(rest, entry)) = entry
    BY <2>2, FrontOfAppended
  <2> DEFINE split == D!Split[entry.tail \o d]
             new == [entry EXCEPT !.tail = D!Kept(split.tail),
                                  !.validated = @ \/ \E k \in DOMAIN split.frames : split.frames[k] = "H"]
             ps == pipes'
  <2>4. ps = Append(rest, new)
    BY <1>4, <2>2, <2>3 DEF D!Decode
  <2>5. new.at = e
    BY <2>2 DEF Pipelines
  <2> HIDE DEF new
  <2>6. DOMAIN ps = 1..(Len(rest) + 1) /\ Len(rest) \in Nat /\ (\A k \in 1..Len(rest) : ps[k] = rest[k]) /\ ps[Len(rest) + 1] = new
    BY <2>2, <2>4
  <2> HIDE DEF ps
  <2>7. \A x : x \in D!Keys(ps) <=> x \in D!Keys(rest) \/ x = e
    <3>1. \A x : x \in D!Keys(rest) <=> \E k \in 1..Len(rest) : rest[k].at = x
      BY <2>2, KeysAre
    <3>2. \A x : x \in D!Keys(ps) <=> \E k \in 1..(Len(rest) + 1) : ps[k].at = x
      BY <2>6 DEF D!Keys
    <3>3. /\ \A k \in 1..(Len(rest) + 1) : k = Len(rest) + 1 \/ k \in 1..Len(rest)
          /\ \A k \in 1..Len(rest) : k \in 1..(Len(rest) + 1)
          /\ Len(rest) + 1 \in 1..(Len(rest) + 1)
      BY <2>6
    <3> QED BY <2>5, <2>6, <3>1, <3>2, <3>3
  <2>8. p.at \notin D!Keys(ps) /\ D!Keys(ps) \ D!Keys(pipes) # {}
    BY DEF ps
  <2>9. p.at \in D!Keys(pipes)
    BY <1>1, <1>2
  <2>10. p.at = D!Victim(pipes)
    BY <2>2, <2>7, <2>8, <2>9
  <2>11. Len(pipes) > 0
    BY <1>0, <1>2
  <2>12. PICK k \in 1..Len(pipes) :
           /\ D!Victim(pipes) = pipes[k].at
           /\ D!LooksLikeMavPartial(pipes[k]) =>
                \A l \in 1..Len(pipes) : D!HasPendingPartial(pipes[l]) /\ (pipes[l].validated \/ D!LooksLikeMavPartial(pipes[l]))
    BY <1>0, <2>11, VictimIs
  <2>13. k = i
    <3>1. ~(k < i) /\ ~(i < k)
      BY <1>2, <2>10, <2>12, <1>0 DEF Sorted
    <3> QED BY <1>0, <3>1
  <2> QED BY <1>2, <2>12, <2>13
<1>5. ASSUME NEW e \in Senders, D!ReleaseDecoder(e)
      PROVE  FALSE
  BY <1>3, <1>5 DEF D!ReleaseDecoder, D!LeaveOnly
<1>6. CASE D!ClearDecoders
  <2>1. pipes' = << >>
    BY <1>6 DEF D!ClearDecoders, D!LeaveOnly
  <2>2. D!Keys(<< >>) = {}
    BY DEF D!Keys
  <2> QED BY <2>1, <2>2
<1>7. CASE D!EvictIdleDecoders
  BY <1>3, <1>7 DEF D!EvictIdleDecoders, D!LeaveOnly
<1>8. CASE D!Passes
  BY <1>8 DEF D!Passes
<1> QED BY <1>4, <1>5, <1>6, <1>7, <1>8 DEF D!DecodeNext

(***************************************************************************)
(* The codec                                                               *)
(***************************************************************************)

\* The instance counts as the library does.
LEMMA CardinalityOfCodec == \A S : C!Cardinality(S) = Cardinality(S) /\ (C!IsFiniteSet(S) <=> IsFiniteSet(S))
BY DEF C!Cardinality, Cardinality, C!IsFiniteSet, IsFiniteSet

\* Fields of which each has a place of its own in the definition.
Fields(m) ==
  /\ IsFiniteSet(m)
  /\ \A f \in m : C!IsField(f)
  /\ \A f, g \in m : f.declared = g.declared => f = g

\* An element has its bytes, and its value one of them.
LEMMA ElementsHaveBytes ==
  ASSUME NEW f, f.type \in DOMAIN C!typeInfo
  PROVE  C!elementSize(f) \in {1, 2, 4, 8} /\ C!ValueByte(f) \in 1..C!elementSize(f)
BY DEF C!typeInfo, C!Of, C!elementSize, C!ValueByte, C!IsFloat

\* So has a field.
LEMMA FieldsHaveBytes ==
  ASSUME NEW f, C!IsField(f)
  PROVE  C!Cells(f) \in Nat \ {0}
<1>1. f.arrayLength \in Nat /\ C!elementSize(f) \in {1, 2, 4, 8}
  BY ElementsHaveBytes DEF C!IsField
<1>2. C!Cells(f) = C!elementSize(f) * (IF f.arrayLength = 0 THEN 1 ELSE f.arrayLength)
  BY DEF C!Cells
<1> DEFINE n == IF f.arrayLength = 0 THEN 1 ELSE f.arrayLength
<1>3. n \in Nat \ {0}
  BY <1>1
<1> HIDE DEF n
<1>4. 1 * n \in Nat \ {0} /\ 2 * n \in Nat \ {0} /\ 4 * n \in Nat \ {0} /\ 8 * n \in Nat \ {0}
  BY <1>3
<1> QED BY <1>1, <1>2, <1>4 DEF n

\* The wire order is an order.
LEMMA WireOrders ==
  ASSUME NEW m, Fields(m), NEW f \in m, NEW g \in m, NEW h \in m
  PROVE  /\ ~C!Before(f, f)
         /\ C!Before(f, g) /\ C!Before(g, h) => C!Before(f, h)
         /\ f # g => C!Before(f, g) \/ C!Before(g, f)
<1>1. ASSUME NEW x \in m
      PROVE  x.declared \in Nat /\ x.extension \in BOOLEAN /\ C!elementSize(x) \in {1, 2, 4, 8}
  BY ElementsHaveBytes DEF Fields, C!IsField
<1>2. f # g => f.declared # g.declared
  BY DEF Fields
<1>3. f.extension \in BOOLEAN /\ g.extension \in BOOLEAN /\ h.extension \in BOOLEAN
  BY <1>1
<1>4. f.declared \in Nat /\ g.declared \in Nat /\ h.declared \in Nat
  BY <1>1
<1>5. C!elementSize(f) \in Nat /\ C!elementSize(g) \in Nat /\ C!elementSize(h) \in Nat
  BY <1>1
<1> QED BY <1>2, <1>3, <1>4, <1>5 DEF C!Before, C!Larger

\* A message has finitely many bytes.
LEMMA CellsAreFinite ==
  ASSUME NEW m, Fields(m)
  PROVE  IsFiniteSet(C!CellsOf(m))
<1> DEFINE of == [f \in m |-> {f} \X (1..C!Cells(f))]
           all == {{f} \X (1..C!Cells(f)) : f \in m}
<1>1. of \in Surjection(m, all)
  BY DEF Surjection
<1>2. IsFiniteSet(all)
  BY <1>1, FS_Surjection DEF Fields
<1>3. \A f \in m : IsFiniteSet({f} \X (1..C!Cells(f)))
  <2> TAKE f \in m
  <2>1. C!Cells(f) \in Int
    BY FieldsHaveBytes DEF Fields
  <2>2. IsFiniteSet(1..C!Cells(f))
    BY <2>1, FS_Interval
  <2>3. IsFiniteSet({f})
    BY FS_Singleton, Zenon
  <2> QED BY <2>2, <2>3, FS_Product
<1>4. \A S \in all : IsFiniteSet(S)
  BY <1>3
<1>5. IsFiniteSet(UNION all)
  BY <1>2, <1>4, FS_UNION
<1> QED BY <1>5 DEF C!CellsOf

\* A field has as many bytes as it has cells.
LEMMA CellsCount ==
  ASSUME NEW f, C!Cells(f) \in Nat
  PROVE  /\ IsFiniteSet({f} \X (1..C!Cells(f)))
         /\ Cardinality({f} \X (1..C!Cells(f))) = C!Cells(f)
<1> DEFINE n == C!Cells(f)
<1> HIDE DEF n
<1>0. n \in Nat
  BY DEF n
<1>1. IsFiniteSet(1..n) /\ Cardinality(1..n) = IF 1 > n THEN 0 ELSE n - 1 + 1
  BY <1>0, FS_Interval
<1>2. Cardinality(1..n) = n
  BY <1>0, <1>1
<1>3. IsFiniteSet({f}) /\ Cardinality({f}) = 1
  BY FS_Singleton, Zenon
<1>4. IsFiniteSet({f} \X (1..n)) /\ Cardinality({f} \X (1..n)) = Cardinality({f}) * Cardinality(1..n)
  BY <1>1, <1>3, FS_Product, Zenon
<1> QED BY <1>0, <1>2, <1>3, <1>4 DEF n

\* The cells before a field.
Ahead(m, f) == {c \in C!CellsOf(m) : C!Before(c[1], f)}

\* A cell is of a field, by its number.
LEMMA CellsAre ==
  ASSUME NEW m, NEW c
  PROVE  c \in C!CellsOf(m) <=> \E f \in m : \E k \in 1..C!Cells(f) : c = <<f, k>>
BY DEF C!CellsOf

\* What is before a field, and the field, are before what follows it.
LEMMA PlacesFollow ==
  ASSUME NEW m, Fields(m), NEW f \in m
  PROVE  /\ C!Offset(m, f) \in Nat
         /\ C!Offset(m, f) + C!Cells(f) <= C!PayloadLength(m)
         /\ \A g \in m : C!Before(f, g) => C!Offset(m, f) + C!Cells(f) <= C!Offset(m, g)
<1> DEFINE own == {f} \X (1..C!Cells(f))
<1>1. IsFiniteSet(C!CellsOf(m))
  BY CellsAreFinite
<1>2. \A g : Ahead(m, g) \subseteq C!CellsOf(m)
  BY DEF Ahead
<1>3. \A g : IsFiniteSet(Ahead(m, g)) /\ Cardinality(Ahead(m, g)) \in Nat
  BY <1>1, <1>2, FS_Subset, FS_CardinalityType
<1>4. \A g : C!Offset(m, g) = Cardinality(Ahead(m, g))
  BY CardinalityOfCodec DEF C!Offset, Ahead
<1>5. C!Cells(f) \in Nat
  BY FieldsHaveBytes DEF Fields
<1>6. IsFiniteSet(own) /\ Cardinality(own) = C!Cells(f)
  BY <1>5, CellsCount
<1>7. own \subseteq C!CellsOf(m)
  BY DEF C!CellsOf
<1>8. \A c \in own : c[1] = f
  OBVIOUS
<1>9. Ahead(m, f) \cap own = {}
  BY <1>8, WireOrders DEF Ahead
<1> HIDE DEF own
<1>10. Cardinality(Ahead(m, f) \cap own) = 0
  BY <1>9, FS_EmptySet
<1>11. Cardinality(Ahead(m, f) \cup own) = Cardinality(Ahead(m, f)) + Cardinality(own)
  <2>1. Cardinality(Ahead(m, f) \cup own)
          = Cardinality(Ahead(m, f)) + Cardinality(own) - Cardinality(Ahead(m, f) \cap own)
    BY <1>3, <1>6, FS_Union
  <2> QED BY <2>1, <1>3, <1>5, <1>6, <1>10
<1>12. ASSUME NEW S, IsFiniteSet(S), Ahead(m, f) \subseteq S, own \subseteq S
       PROVE  C!Offset(m, f) + C!Cells(f) <= Cardinality(S)
  <2>1. Ahead(m, f) \cup own \in SUBSET S
    BY <1>12
  <2>2. Cardinality(Ahead(m, f) \cup own) <= Cardinality(S)
    BY <1>12, <2>1, FS_Subset
  <2> QED BY <2>2, <1>4, <1>6, <1>11
<1>13. C!Offset(m, f) + C!Cells(f) <= C!PayloadLength(m)
  BY <1>1, <1>2, <1>7, <1>12, CardinalityOfCodec DEF C!PayloadLength
<1>14. ASSUME NEW g \in m, C!Before(f, g)
       PROVE  C!Offset(m, f) + C!Cells(f) <= C!Offset(m, g)
  <2>1. own \subseteq Ahead(m, g)
    BY <1>7, <1>8, <1>14 DEF Ahead
  <2>2. Ahead(m, f) \subseteq Ahead(m, g)
    <3> SUFFICES ASSUME NEW c \in Ahead(m, f)
                 PROVE  c \in Ahead(m, g)
      OBVIOUS
    <3>1. c \in C!CellsOf(m) /\ C!Before(c[1], f)
      BY DEF Ahead
    <3>2. c[1] \in m
      BY <3>1, CellsAre
    <3>3. C!Before(c[1], g)
      BY <1>14, <3>1, <3>2, WireOrders
    <3> QED BY <3>1, <3>3 DEF Ahead
  <2>3. C!Offset(m, f) + C!Cells(f) <= Cardinality(Ahead(m, g))
    BY <1>3, <1>12, <2>1, <2>2
  <2> QED BY <1>4, <2>3
<1> QED BY <1>3, <1>4, <1>13, <1>14

\* So every place is one field's.
LEMMA PlacesAreOwn ==
  ASSUME NEW m, Fields(m), NEW f \in m, NEW g \in m, NEW at \in C!Place(m, f), at \in C!Place(m, g)
  PROVE  f = g
<1>1. C!Offset(m, f) \in Nat /\ C!Offset(m, g) \in Nat
  BY PlacesFollow
<1>2. C!Cells(f) \in Nat /\ C!Cells(g) \in Nat
  BY FieldsHaveBytes DEF Fields
<1>3. /\ at \in Int /\ C!Offset(m, f) + 1 <= at /\ at <= C!Offset(m, f) + C!Cells(f)
      /\ C!Offset(m, g) + 1 <= at /\ at <= C!Offset(m, g) + C!Cells(g)
  BY <1>1, <1>2 DEF C!Place
<1>4. /\ C!Before(f, g) => C!Offset(m, f) + C!Cells(f) <= C!Offset(m, g)
      /\ C!Before(g, f) => C!Offset(m, g) + C!Cells(g) <= C!Offset(m, f)
  BY PlacesFollow
<1>5. ~C!Before(f, g) /\ ~C!Before(g, f)
  BY <1>1, <1>2, <1>3, <1>4
<1> QED BY <1>5, WireOrders

\* A field's bytes are where the field is.
LEMMA PayloadIs ==
  ASSUME NEW m, Fields(m), NEW v, NEW f \in m, NEW k \in 1..C!Cells(f)
  PROVE  /\ C!Offset(m, f) + k \in 1..C!PayloadLength(m)
         /\ C!Payload(m, v)[C!Offset(m, f) + k] = C!Bytes(f, v[f])[k]
<1> DEFINE at == C!Offset(m, f) + k
<1>1. C!Offset(m, f) \in Nat /\ C!Cells(f) \in Nat /\ C!Offset(m, f) + C!Cells(f) <= C!PayloadLength(m)
  BY PlacesFollow, FieldsHaveBytes DEF Fields
<1>2. C!PayloadLength(m) \in Nat
  BY CellsAreFinite, FS_CardinalityType, CardinalityOfCodec DEF C!PayloadLength
<1>3. at \in 1..C!PayloadLength(m) /\ at \in C!Place(m, f) /\ at - C!Offset(m, f) = k
  BY <1>1, <1>2 DEF C!Place
<1> HIDE DEF at
<1>4. (CHOOSE g \in m : at \in C!Place(m, g)) = f
  BY <1>3, PlacesAreOwn
<1>5. C!Payload(m, v)[at] = C!Bytes(f, v[f])[at - C!Offset(m, f)]
  BY <1>3, <1>4 DEF C!Payload
<1> QED BY <1>3, <1>5 DEF at

\* An old receiver finds the core where a new one does.
LEMMA CoreIsWhereItIs ==
  ASSUME NEW m, Fields(m)
  PROVE  /\ Fields(C!Core(m)) /\ C!Core(C!Core(m)) = C!Core(m)
         /\ \A f \in C!Core(m) : C!Offset(C!Core(m), f) = C!Offset(m, f)
<1>1. C!Core(m) \subseteq m
  BY DEF C!Core
<1>2. Fields(C!Core(m))
  BY <1>1, FS_Subset DEF Fields
<1>3. C!Core(C!Core(m)) = C!Core(m)
  BY DEF C!Core
<1>4. ASSUME NEW f \in C!Core(m)
      PROVE  Ahead(C!Core(m), f) = Ahead(m, f)
  <2>1. \A g \in m : C!Before(g, f) => g \in C!Core(m)
    BY <1>4 DEF C!Before, C!Core
  <2>2. \A c : c \in Ahead(m, f) => c \in Ahead(C!Core(m), f)
    BY <2>1, CellsAre DEF Ahead
  <2>3. \A c : c \in Ahead(C!Core(m), f) => c \in Ahead(m, f)
    BY <1>1, CellsAre DEF Ahead
  <2> QED BY <2>2, <2>3
<1> QED BY <1>2, <1>3, <1>4 DEF C!Offset, Ahead

\* A cut payload is a sequence with a byte, and what was cut is zero.
LEMMA NothingIsCutAway ==
  ASSUME NEW p, NEW n \in Nat \ {0}, DOMAIN p = 1..n
  PROVE  /\ C!Truncated(p) # << >> /\ Len(C!Truncated(p)) >= 1
         /\ \A at \in 1..n : C!Padded(C!Truncated(p), at) = p[at]
<1> DEFINE full == {i \in DOMAIN p : p[i] # 0}
           last == CHOOSE i \in full : \A j \in full : j <= i
           length == IF full = {} THEN 1 ELSE last
<1>1. ASSUME full # {}
      PROVE  last \in full /\ \A j \in full : j <= last
  <2> DEFINE behind == {n - i : i \in full}
  <2>1. behind \subseteq Nat /\ behind # {}
    BY <1>1
  <2>2. PICK x \in behind : \A y \in behind : x <= y
    BY <2>1, LeastExists
  <2>3. PICK i \in full : x = n - i
    BY <2>2
  <2>4. \A j \in full : j <= i
    <3> TAKE j \in full
    <3>1. x <= n - j
      BY <2>2
    <3> QED BY <2>3, <3>1
  <2> QED BY <2>3, <2>4
<1>2. length \in 1..n
  BY <1>1
<1>3. C!Truncated(p) = [i \in 1..length |-> p[i]]
  BY DEF C!Truncated
<1>4. \A at \in 1..n : at \notin 1..length => p[at] = 0
  BY <1>1
<1> DEFINE some == {p[i] : i \in 1..n}
<1> HIDE DEF length, full, last
<1>5. C!Truncated(p) \in [1..length -> some]
  BY <1>2, <1>3
<1> HIDE DEF some
<1>6. C!Truncated(p) \in Seq(some) /\ Len(C!Truncated(p)) = length
  BY <1>2, <1>5
<1>7. C!Truncated(p) # << >> /\ Len(C!Truncated(p)) >= 1
  BY <1>2, <1>6
<1>8. \A at \in 1..n : C!Padded(C!Truncated(p), at) = p[at]
  BY <1>2, <1>3, <1>4 DEF C!Padded
<1> QED BY <1>7, <1>8

\* An element's value byte is where a reader looks for it.
LEMMA ElementIsThere ==
  ASSUME NEW f, C!IsField(f), NEW v, NEW i \in 1..(IF f.arrayLength = 0 THEN 1 ELSE f.arrayLength)
  PROVE  /\ (i - 1) * C!elementSize(f) + C!ValueByte(f) \in 1..C!Cells(f)
         /\ C!Bytes(f, v)[(i - 1) * C!elementSize(f) + C!ValueByte(f)] = C!Element(f, C!ElementAt(f, v, i))
<1> DEFINE size == C!elementSize(f)
           b == C!ValueByte(f)
           k == (i - 1) * size + b
           n == IF f.arrayLength = 0 THEN 1 ELSE f.arrayLength
<1>1. size \in {1, 2, 4, 8} /\ b \in 1..size /\ n \in Nat /\ i \in 1..n
  BY ElementsHaveBytes DEF C!IsField
<1>2. C!Cells(f) = size * n
  BY DEF C!Cells
<1> HIDE DEF size, b, n
<1>3. k \in 1..(size * n) /\ (k - 1) % size = b - 1 /\ (k - 1) \div size = i - 1
  <2>1. CASE size = 1
    BY <1>1, <2>1
  <2>2. CASE size = 2
    BY <1>1, <2>2
  <2>3. CASE size = 4
    BY <1>1, <2>3
  <2>4. CASE size = 8
    BY <1>1, <2>4
  <2> QED BY <1>1, <2>1, <2>2, <2>3, <2>4
<1> HIDE DEF k
<1>4. C!Bytes(f, v)[k] = IF (k - 1) % size = b - 1 THEN C!Element(f, C!ElementAt(f, v, (k - 1) \div size + 1)) ELSE 0
  BY <1>2, <1>3 DEF C!Bytes, size, b
<1>5. (k - 1) \div size + 1 = i
  BY <1>1, <1>3
<1> QED BY <1>2, <1>3, <1>4, <1>5 DEF k, size, b

\* What a reader makes of a byte.
Decoded(f, byte) == IF C!IsFloat(f) /\ byte = 255 THEN NaN ELSE byte

\* It makes of an element what it was, and zero of nothing.
LEMMA ElementsComeBack ==
  ASSUME NEW f, NEW x \in C!Spoken(f) \cup {Blank}
  PROVE  Decoded(f, C!Element(f, x)) = IF x = Blank \/ (x = NaN /\ C!IsInteger(f)) THEN 0 ELSE x
<1>1. Blank \notin 0..255 /\ NaN \notin 0..255 /\ Blank # NaN
  BY CodecAssumption DEF C!CodecBounds
<1>2. C!IsInteger(f) => ~C!IsFloat(f)
  BY DEF C!IsInteger
<1>3. x \in 0..254 \/ (x = NaN /\ (C!IsFloat(f) \/ C!IsInteger(f))) \/ x = Blank
  BY DEF C!Spoken
<1> QED BY <1>1, <1>2, <1>3 DEF Decoded, C!Element

\* What is written of a field is read back.
LEMMA BytesComeBack ==
  ASSUME NEW f, C!IsField(f), NEW v
  PROVE  C!Read(f, C!Bytes(f, v)) =
           IF f.arrayLength = 0 THEN Decoded(f, C!Element(f, C!ElementAt(f, v, 1)))
           ELSE [i \in 1..f.arrayLength |-> Decoded(f, C!Element(f, C!ElementAt(f, v, i)))]
<1>1. f.arrayLength \in Nat
  BY DEF C!IsField
<1>2. ASSUME f.arrayLength = 0
      PROVE  C!Bytes(f, v)[(1 - 1) * C!elementSize(f) + C!ValueByte(f)] = C!Element(f, C!ElementAt(f, v, 1))
  BY <1>2, ElementIsThere
<1>3. ASSUME f.arrayLength # 0, NEW i \in 1..f.arrayLength
      PROVE  C!Bytes(f, v)[(i - 1) * C!elementSize(f) + C!ValueByte(f)] = C!Element(f, C!ElementAt(f, v, i))
  BY <1>3, ElementIsThere
<1> QED BY <1>1, <1>2, <1>3 DEF C!Read, Decoded

\* What the class is given is what a receiver is owed.
LEMMA OwedIsSent ==
  ASSUME NEW m \in Messages, NEW b \in Bags, NEW f \in m, C!assertArraysFit(m, b)
  PROVE  C!Read(f, C!Bytes(f, C!assignFields(m, b)[f])) = C!Owed(f, b)
<1> DEFINE v == C!assignFields(m, b)[f]
<1>1. C!IsField(f) /\ C!Fits(f, b)
  BY CodecAssumption DEF C!CodecBounds
<1>2. v = IF f.constValue = None /\ f.name \in DOMAIN b THEN b[f.name]
          ELSE IF f.constValue # None THEN f.constValue ELSE IF f.arrayLength > 0 THEN << >> ELSE 0
  BY DEF C!assignFields, C!DefaultOf
<1> HIDE DEF v
<1>3. Blank \notin 0..255 /\ NaN \notin 0..255 /\ Blank # NaN /\ 0..254 \subseteq C!Spoken(f)
  BY CodecAssumption DEF C!CodecBounds, C!Spoken
<1>4. f.arrayLength \in Nat
  BY <1>1 DEF C!IsField
<1>5. CASE f.arrayLength = 0
  <2>1. v \in C!Spoken(f) \cup {Blank}
    BY <1>1, <1>2, <1>3, <1>5 DEF C!Fits, C!IsField
  <2>2. C!Read(f, C!Bytes(f, v)) = IF v = Blank \/ (v = NaN /\ C!IsInteger(f)) THEN 0 ELSE v
    BY <1>1, <1>5, <2>1, BytesComeBack, ElementsComeBack DEF C!ElementAt
  <2>3. C!Owed(f, b) = IF v = Blank \/ (v = NaN /\ C!IsInteger(f)) THEN 0 ELSE v
    BY <1>1, <1>2, <1>3, <1>5 DEF C!Owed, C!IsField
  <2> QED BY <2>2, <2>3 DEF v
<1>6. CASE f.arrayLength > 0
  <2>1. f.constValue = None
    BY <1>1, <1>6 DEF C!IsField
  <2> DEFINE given == IF f.name \in DOMAIN b /\ b[f.name] # Blank THEN b[f.name] ELSE << >>
  <2>2. given \in Seq(C!Spoken(f))
    BY <1>1, <1>6 DEF C!Fits
  <2>3. \A i \in 1..f.arrayLength :
          C!ElementAt(f, v, i) = IF i <= Len(given) THEN given[i] ELSE Blank
    BY <1>2, <1>6, <2>1 DEF C!ElementAt
  <2>4. C!Owed(f, b) = [i \in 1..f.arrayLength |-> IF i <= Len(given) THEN (IF given[i] = NaN /\ C!IsInteger(f) THEN 0 ELSE given[i]) ELSE 0]
    BY <1>4, <1>6, <2>1 DEF C!Owed
  <2> HIDE DEF given
  <2>5. ASSUME NEW i \in 1..f.arrayLength
        PROVE  Decoded(f, C!Element(f, C!ElementAt(f, v, i)))
                 = IF i <= Len(given) THEN (IF given[i] = NaN /\ C!IsInteger(f) THEN 0 ELSE given[i]) ELSE 0
    <3>1. CASE i <= Len(given)
      <4>1. given[i] \in C!Spoken(f)
        BY <1>4, <2>2, <3>1
      <4>2. given[i] # Blank
        BY <1>3, <4>1 DEF C!Spoken
      <4> QED BY <2>3, <3>1, <4>1, <4>2, ElementsComeBack
    <3>2. CASE ~(i <= Len(given))
      BY <2>3, <3>2, ElementsComeBack
    <3> QED BY <3>1, <3>2
  <2>6. C!Read(f, C!Bytes(f, v)) = [i \in 1..f.arrayLength |-> Decoded(f, C!Element(f, C!ElementAt(f, v, i)))]
    BY <1>1, <1>6, BytesComeBack
  <2> QED BY <2>4, <2>5, <2>6 DEF v
<1> QED BY <1>4, <1>5, <1>6

\* What refuses: an integer nobody spoke, an array too long.
Refuses(m, b) ==
  \E f \in m :
    /\ f.constValue = None
    /\ \/ ~f.extension /\ f.arrayLength = 0 /\ C!IsInteger(f) /\ C!Owed(f, b) = 0
          /\ ~(f.name \in DOMAIN b /\ b[f.name] = 0)
       \/ f.arrayLength > 0 /\ f.name \in DOMAIN b /\ b[f.name] # Blank /\ Len(b[f.name]) > f.arrayLength

\* The sender's checks are those.
LEMMA ChecksRefuse ==
  ASSUME NEW m \in Messages, NEW b \in Bags
  PROVE  Refuses(m, b) <=> ~C!assertCoreIntegerFieldsSpoken(m, b) \/ ~C!assertArraysFit(m, b)
<1>0. 0 # Blank /\ 0 # NaN
  BY CodecAssumption DEF C!CodecBounds
<1>1. ASSUME NEW f \in m, f.constValue = None, ~f.extension, f.arrayLength = 0, C!IsInteger(f)
      PROVE  (C!Owed(f, b) = 0 /\ ~(f.name \in DOMAIN b /\ b[f.name] = 0)) <=> ~(C!Given(f, b) /\ b[f.name] # NaN)
  BY <1>0, <1>1 DEF C!Owed, C!Given
<1>2. ASSUME NEW f \in m, f.constValue = None, f.arrayLength > 0, C!Given(f, b)
      PROVE  Len(b[f.name]) > f.arrayLength <=> ~(Len(b[f.name]) <= f.arrayLength)
  <2>1. C!IsField(f) /\ C!Fits(f, b)
    BY CodecAssumption DEF C!CodecBounds
  <2>2. f.arrayLength \in Nat /\ b[f.name] \in Seq(C!Spoken(f))
    BY <1>2, <2>1 DEF C!IsField, C!Fits, C!Given
  <2> QED BY <2>2
<1>3. ~C!assertCoreIntegerFieldsSpoken(m, b) <=>
        \E f \in m : /\ f.constValue = None /\ ~f.extension /\ f.arrayLength = 0 /\ C!IsInteger(f)
                     /\ ~(C!Given(f, b) /\ b[f.name] # NaN)
  BY DEF C!assertCoreIntegerFieldsSpoken
<1>4. ~C!assertArraysFit(m, b) <=>
        \E f \in m : f.constValue = None /\ f.arrayLength > 0 /\ C!Given(f, b) /\ ~(Len(b[f.name]) <= f.arrayLength)
  BY DEF C!assertArraysFit
<1>5. Refuses(m, b) <=>
        \/ \E f \in m : /\ f.constValue = None /\ ~f.extension /\ f.arrayLength = 0 /\ C!IsInteger(f)
                        /\ C!Owed(f, b) = 0 /\ ~(f.name \in DOMAIN b /\ b[f.name] = 0)
        \/ \E f \in m : f.constValue = None /\ f.arrayLength > 0 /\ C!Given(f, b) /\ Len(b[f.name]) > f.arrayLength
  BY DEF Refuses, C!Given
<1>6. (\E f \in m : /\ f.constValue = None /\ ~f.extension /\ f.arrayLength = 0 /\ C!IsInteger(f)
                    /\ C!Owed(f, b) = 0 /\ ~(f.name \in DOMAIN b /\ b[f.name] = 0))
      <=> ~C!assertCoreIntegerFieldsSpoken(m, b)
  BY <1>1, <1>3, Zenon
<1>7. (\E f \in m : f.constValue = None /\ f.arrayLength > 0 /\ C!Given(f, b) /\ Len(b[f.name]) > f.arrayLength)
      <=> ~C!assertArraysFit(m, b)
  BY <1>2, <1>4, Zenon
<1> QED BY <1>5, <1>6, <1>7

\* The fields of a message the checks know.
LEMMA MessagesHaveFields ==
  ASSUME NEW m \in Messages
  PROVE  Fields(m) /\ m # {}
BY CodecAssumption, CardinalityOfCodec DEF C!CodecBounds, Fields

\* What goes out is read as it was meant, by who knows the message and by who
\* knows only its core.
LEMMA SentIsRead ==
  ASSUME NEW m \in Messages, NEW b \in Bags, C!assertArraysFit(m, b),
         NEW cut, cut = C!Truncated(C!Payload(m, C!assignFields(m, b))),
         NEW r \in {m, C!Core(m)}
  PROVE  /\ cut # << >> /\ Len(cut) >= 1
         /\ C!crcExtra(m) = C!crcExtra(r)
         /\ C!extractFields(r, cut) = {[name |-> f.name, value |-> C!Owed(f, b)] : f \in r}
<1> DEFINE values == C!assignFields(m, b)
           p == C!Payload(m, values)
           n == C!PayloadLength(m)
<1>1. Fields(m) /\ m # {}
  BY MessagesHaveFields
<1>2. n \in Nat \ {0}
  <2>1. PICK f \in m : TRUE
    BY <1>1
  <2>2. C!Cells(f) \in Nat \ {0}
    BY <1>1, FieldsHaveBytes DEF Fields
  <2>3. C!Offset(m, f) \in Nat /\ C!Offset(m, f) + C!Cells(f) <= n
    BY <1>1, PlacesFollow
  <2>4. n \in Nat
    BY <1>1, CellsAreFinite, FS_CardinalityType, CardinalityOfCodec DEF C!PayloadLength
  <2> QED BY <2>2, <2>3, <2>4
<1>3. DOMAIN p = 1..n
  BY DEF C!Payload
<1> HIDE DEF n
<1>4. /\ cut # << >> /\ Len(cut) >= 1
      /\ \A at \in 1..n : C!Padded(cut, at) = p[at]
  BY <1>2, <1>3, NothingIsCutAway
<1>5. r \subseteq m /\ \A f \in r : C!Offset(r, f) = C!Offset(m, f)
  BY <1>1, CoreIsWhereItIs DEF C!Core
<1>6. C!crcExtra(m) = C!crcExtra(r)
  BY <1>1, CoreIsWhereItIs DEF C!crcExtra
<1>7. ASSUME NEW f \in r
      PROVE  C!Read(f, [k \in 1..C!Cells(f) |-> C!Padded(cut, C!Offset(r, f) + k)]) = C!Owed(f, b)
  <2>1. f \in m /\ C!Offset(r, f) = C!Offset(m, f)
    BY <1>5
  <2>2. \A k \in 1..C!Cells(f) : C!Padded(cut, C!Offset(r, f) + k) = C!Bytes(f, values[f])[k]
    <3> TAKE k \in 1..C!Cells(f)
    <3>1. C!Offset(m, f) + k \in 1..n /\ p[C!Offset(m, f) + k] = C!Bytes(f, values[f])[k]
      BY <1>1, <2>1, PayloadIs DEF n
    <3> QED BY <1>4, <2>1, <3>1
  <2> HIDE DEF values
  <2>3. [k \in 1..C!Cells(f) |-> C!Padded(cut, C!Offset(r, f) + k)] = [k \in 1..C!Cells(f) |-> C!Bytes(f, values[f])[k]]
    BY <2>2
  <2>4. [k \in 1..C!Cells(f) |-> C!Bytes(f, values[f])[k]] = C!Bytes(f, values[f])
    BY DEF C!Bytes
  <2>5. C!Read(f, C!Bytes(f, values[f])) = C!Owed(f, b)
    BY <2>1, OwedIsSent DEF values
  <2> QED BY <2>3, <2>4, <2>5
<1>8. C!extractFields(r, cut) = {[name |-> f.name, value |-> C!Owed(f, b)] : f \in r}
  BY <1>7 DEF C!extractFields
<1> QED BY <1>4, <1>6, <1>8

\* The bytes of a number.
LEMMA BytesOfNumbers ==
  ASSUME NEW n \in Int
  PROVE  C!Byte(n, 1) = n % 256 /\ C!Byte(n, 2) = (n \div 256) % 256
<1>1. C!Byte(n, 1) = (n \div 1) % 256 /\ C!Byte(n, 2) = (n \div 256) % 256
  BY SMT DEF C!Byte, C!Weights
<1> QED BY <1>1, SMT

\* A number of 32 bits, of three bytes and a signed fourth.
Int32(n) == n \in Int /\ -2147483648 <= n /\ n <= 2147483647
MadeOf(n, a, b, c, h) ==
  /\ a \in Int /\ 0 <= a /\ a <= 255 /\ b \in Int /\ 0 <= b /\ b <= 255 /\ c \in Int /\ 0 <= c /\ c <= 255
  /\ h \in Int /\ -128 <= h /\ h <= 127 /\ n = h * 16777216 + c * 65536 + b * 256 + a
SpellsSignaling(n) == n % 8388608 > 0 /\ n % 8388608 < 4194304 /\ (n \div 8388608) % 256 = 255

LEMMA FourBytes ==
  ASSUME NEW n, Int32(n)
  PROVE  \E h : MadeOf(n, C!Byte(n, 1), C!Byte(n, 2), C!Byte(n, 3), h) /\ C!Byte(n, 4) = IF h < 0 THEN h + 256 ELSE h
<1>1. /\ C!Byte(n, 1) = (n \div 1) % 256 /\ C!Byte(n, 2) = (n \div 256) % 256
      /\ C!Byte(n, 3) = (n \div 65536) % 256 /\ C!Byte(n, 4) = (n \div 16777216) % 256
  BY SMT DEF C!Byte, C!Weights
<1> DEFINE h == n \div 16777216
           a == C!Byte(n, 1)
           b == C!Byte(n, 2)
           c == C!Byte(n, 3)
           d == C!Byte(n, 4)
<1>2. a = n % 256 /\ b = (n \div 256) % 256 /\ c = (n \div 65536) % 256 /\ d = h % 256
  BY <1>1, SMT DEF Int32
<1>3. h = n \div 16777216
  OBVIOUS
<1> HIDE DEF a, b, c, d, h
<1>4. a \in Int /\ 0 <= a /\ a <= 255 /\ b \in Int /\ 0 <= b /\ b <= 255 /\ c \in Int /\ 0 <= c /\ c <= 255
  BY <1>2, SMT DEF Int32
<1>5. h \in Int /\ -128 <= h /\ h <= 127 /\ h % 256 = IF h < 0 THEN h + 256 ELSE h
  BY <1>3, SMT DEF Int32
<1>6. n = h * 16777216 + c * 65536 + b * 256 + a
  BY <1>2, <1>3, SMT DEF Int32
<1>7. MadeOf(n, a, b, c, h)
  BY <1>4, <1>5, <1>6, SMT DEF MadeOf
<1>8. d = IF h < 0 THEN h + 256 ELSE h
  BY <1>2, <1>5, SMT
<1> HIDE DEF MadeOf
<1> QED BY <1>7, <1>8, Zenon DEF a, b, c, d

\* An exponent that is all ones, and a mantissa that is not quiet.
LEMMA SignalingBytes ==
  ASSUME NEW n \in Int, NEW a, NEW b, NEW c, NEW h, MadeOf(n, a, b, c, h),
         128 <= c, c < 192, ~(a = 0 /\ b = 0 /\ c = 128), h = 127 \/ h = -1
  PROVE  SpellsSignaling(n)
<1> DEFINE r == (c - 128) * 65536 + b * 256 + a
           q == 2 * h + 1
<1>1. r \in Int /\ q \in Int /\ n = q * 8388608 + r
  BY SMT DEF MadeOf
<1>2. r > 0 /\ r < 4194304
  BY SMT DEF MadeOf
<1>3. q % 256 = 255
  BY SMT
<1> HIDE DEF r, q
<1>4. n % 8388608 = r /\ n \div 8388608 = q
  BY <1>1, <1>2, SMT
<1> QED BY <1>2, <1>3, <1>4, SMT DEF SpellsSignaling

\* The bytes spell a signaling NaN.
Signaling(n, t) == t = "INT32" /\ SpellsSignaling(n)

\* A number in the range of a type comes back, but for those.
LEMMA NumbersComeBack ==
  ASSUME NEW n \in Int, NEW t \in DOMAIN C!ParamTypes, ~Signaling(n, t),
         C!ParamTypes[t].least <= n, n <= C!ParamTypes[t].most
  PROVE  C!paramValueFromWire(C!paramValueToWire(n, t), t) = n
<1> DEFINE w == C!writeInt(n, t)
<1>1. C!paramValueToWire(n, t) = C!Quiet(w)
  <2>1. C!ParamTypes[t].least \in Int /\ C!ParamTypes[t].most \in Int
    BY SMT DEF C!ParamTypes
  <2> QED BY <2>1, SMT DEF C!paramValueToWire
<1>2. /\ w = [k \in 1..4 |-> IF k <= C!ParamTypes[t].bytes THEN C!Byte(n, k) ELSE 0]
  BY SMT DEF C!writeInt
<1> HIDE DEF w
<1>3. CASE t = "INT32"
  <2>1. C!ParamTypes[t].bytes = 4 /\ C!ParamTypes[t].least < 0 /\ Int32(n)
    BY <1>3, SMT DEF C!ParamTypes, Int32
  <2>2. w[1] = C!Byte(n, 1) /\ w[2] = C!Byte(n, 2) /\ w[3] = C!Byte(n, 3) /\ w[4] = C!Byte(n, 4)
    BY <1>2, <2>1, SMT
  <2>3. PICK h : MadeOf(n, w[1], w[2], w[3], h) /\ w[4] = IF h < 0 THEN h + 256 ELSE h
    BY <2>1, <2>2, FourBytes, Zenon
  <2>4. ~(w[4] % 128 = 127 /\ w[3] >= 128 /\ w[3] < 192 /\ <<w[1], w[2], w[3]>> # <<0, 0, 128>>)
    <3> SUFFICES ASSUME w[4] % 128 = 127, w[3] >= 128, w[3] < 192, ~(w[1] = 0 /\ w[2] = 0 /\ w[3] = 128)
                 PROVE  FALSE
      BY SMT
    <3>1. h = 127 \/ h = -1
      BY <2>3, SMT DEF MadeOf
    <3>2. 128 <= w[3]
      BY <2>3, SMT DEF MadeOf
    <3>3. SpellsSignaling(n)
      BY <2>3, <3>1, <3>2, SignalingBytes, SMT
    <3> QED BY <1>3, <3>3 DEF Signaling
  <2>5. C!Quiet(w) = w
    BY <2>4, SMT DEF C!Quiet
  <2>6. C!readInt(w, t) = (IF w[4] >= 128 THEN w[4] - 256 ELSE w[4]) * 16777216 + w[3] * 65536 + w[2] * 256 + w[1]
    BY <2>1, SMT DEF C!readInt
  <2> QED BY <1>1, <2>3, <2>5, <2>6, SMT DEF C!paramValueFromWire, MadeOf
<1>4. CASE t # "INT32"
  <2>1. t \in {"UINT8", "INT8", "UINT16", "INT16"}
    BY <1>4, SMT DEF C!ParamTypes
  <2>2. C!ParamTypes[t].bytes \in {1, 2}
    BY <2>1, SMT DEF C!ParamTypes
  <2>3. w[4] = 0 /\ w[1] = C!Byte(n, 1) /\ w[2] = IF C!ParamTypes[t].bytes = 2 THEN C!Byte(n, 2) ELSE 0
    BY <1>2, <2>2, SMT
  <2>4. C!Quiet(w) = w
    BY <2>3, SMT DEF C!Quiet
  <2>5. C!Byte(n, 1) = n % 256 /\ C!Byte(n, 2) = (n \div 256) % 256
    BY BytesOfNumbers
  <2>6. CASE C!ParamTypes[t].bytes = 1
    <3>1. \/ C!ParamTypes[t].least = 0 /\ n \in 0..255
          \/ C!ParamTypes[t].least < 0 /\ n \in -128..127
      BY <2>1, <2>6, SMT DEF C!ParamTypes
    <3>2. C!readInt(w, t) = IF C!ParamTypes[t].least < 0 /\ w[1] >= 128 THEN w[1] - 256 ELSE w[1]
      BY <2>6, SMT DEF C!readInt
    <3> QED BY <1>1, <2>3, <2>4, <2>5, <3>1, <3>2, SMT DEF C!paramValueFromWire
  <2>7. CASE C!ParamTypes[t].bytes = 2
    <3>1. \/ C!ParamTypes[t].least = 0 /\ 0 <= n /\ n <= 65535
          \/ C!ParamTypes[t].least < 0 /\ -32768 <= n /\ n <= 32767
      BY <2>1, <2>7, SMT DEF C!ParamTypes
    <3>2. C!readInt(w, t) = (IF C!ParamTypes[t].least < 0 /\ w[2] >= 128 THEN w[2] - 256 ELSE w[2]) * 256 + w[1]
      BY <2>7, SMT DEF C!readInt
    <3> QED BY <1>1, <2>3, <2>4, <2>5, <2>7, <3>1, <3>2, SMT DEF C!paramValueFromWire
  <2> QED BY <2>2, <2>6, <2>7, SMT
<1> QED BY <1>3, <1>4, SMT

\* What is in a frame was made of the message and what was given for it.
CodecInv ==
  /\ message \in Messages /\ bag \in Bags
  /\ step = "sent" => /\ frame = C!serialize(message, bag)
                      /\ slot = [p \in Parameters |-> C!paramValueToWire(p.value, p.type)]

\* That is so at the start, and stays so.
LEMMA CodecStarts == ASSUME C!CodecInit PROVE CodecInv
BY DEF C!CodecInit, CodecInv

LEMMA CodecKeeps == ASSUME CodecInv, C!Sends PROVE CodecInv'
BY DEF C!Sends, CodecInv

\* And then the frame means the same.
LEMMA FramesMean == ASSUME CodecInv PROVE C!FramesMeanTheSame
<1> SUFFICES ASSUME step = "sent"
             PROVE  C!FramesMeanTheSame
  BY DEF C!FramesMeanTheSame
<1> DEFINE cut == C!Truncated(C!Payload(message, C!assignFields(message, bag)))
           owed(r) == {[name |-> f.name, value |-> C!Owed(f, bag)] : f \in r}
<1>1. /\ message \in Messages /\ bag \in Bags /\ frame = C!serialize(message, bag)
      /\ slot = [p \in Parameters |-> C!paramValueToWire(p.value, p.type)]
  BY DEF CodecInv
<1>2. Refuses(message, bag) => frame = C!Nothing
  BY <1>1, ChecksRefuse DEF C!serialize
<1>3. ASSUME ~Refuses(message, bag)
      PROVE  /\ frame # C!Nothing /\ Len(frame.payload) >= 1
             /\ \A r \in {message, C!Core(message)} :
                  frame.seed = C!crcExtra(r) /\ C!extractFields(r, frame.payload) = owed(r)
  <2>1. C!assertArraysFit(message, bag) /\ frame = [payload |-> cut, seed |-> C!crcExtra(message)]
    BY <1>1, <1>3, ChecksRefuse DEF C!serialize
  <2>2. frame.payload = cut /\ frame.seed = C!crcExtra(message)
    BY <2>1
  <2> HIDE DEF cut
  <2>3. ASSUME NEW r \in {message, C!Core(message)}
        PROVE  cut # << >> /\ Len(cut) >= 1 /\ C!crcExtra(message) = C!crcExtra(r) /\ C!extractFields(r, cut) = owed(r)
    BY <1>1, <2>1, SentIsRead DEF cut
  <2> HIDE DEF owed
  <2>4. cut # << >> /\ Len(cut) >= 1
    BY <2>3
  <2>5. frame # C!Nothing
    BY <2>2, <2>4 DEF C!Nothing
  <2> QED BY <2>2, <2>3, <2>4, <2>5
<1>4. ASSUME NEW p \in Parameters, slot[p] # None, ~Signaling(p.value, p.type)
      PROVE  C!paramValueFromWire(slot[p], p.type) = p.value
  <2>1. p.value \in Int /\ p.type \in DOMAIN C!ParamTypes
    BY CodecAssumption DEF C!CodecBounds
  <2>2. slot[p] = C!paramValueToWire(p.value, p.type)
    BY <1>1
  <2>3. C!ParamTypes[p.type].least \in Int /\ C!ParamTypes[p.type].most \in Int
    BY <2>1 DEF C!ParamTypes
  <2>4. C!ParamTypes[p.type].least <= p.value /\ p.value <= C!ParamTypes[p.type].most
    BY <1>4, <2>1, <2>2, <2>3 DEF C!paramValueToWire
  <2> QED BY <1>4, <2>1, <2>2, <2>4, NumbersComeBack
<1>5. frame = C!Nothing <=> Refuses(message, bag)
  BY <1>2, <1>3
<1>6. frame # C!Nothing =>
        /\ Len(frame.payload) >= 1
        /\ \A r \in {message, C!Core(message)} :
             /\ frame.seed = C!crcExtra(r)
             /\ C!extractFields(r, frame.payload) = {[name |-> f.name, value |-> C!Owed(f, bag)] : f \in r}
  BY <1>2, <1>3
<1> QED BY <1>4, <1>5, <1>6, SMT DEF C!FramesMeanTheSame, Refuses, Signaling, SpellsSignaling

(***************************************************************************)
(* Together                                                                *)
(***************************************************************************)

InboundInv ==
  /\ part = "transport" => TransportInv
  /\ part = "receive" => ReceiverInv
  /\ part = "in" => InNodeInv
  /\ part = "decode" => DecodeInv
  /\ part = "codec" => CodecInv

\* Each part keeps its own, and no other part touches it.
LEMMA InboundSteps ==
  ASSUME InboundInv, [Next]_vars
  PROVE  InboundInv'
<1>1. CASE part = "transport" /\ T!TransportNext /\ part' = part
  BY <1>1, TransportKeeps DEF InboundInv
<1>2. CASE part = "receive" /\ R!ReceiverNext /\ part' = part
  BY <1>2, ReceiverKeeps DEF InboundInv
<1>3. CASE part = "in" /\ I!InNext /\ part' = part
  BY <1>3, InNodeKeeps DEF InboundInv
<1>4. CASE part = "decode" /\ D!DecodeNext /\ part' = part
  BY <1>4, PipelinesKeep DEF InboundInv
<1>5. CASE part = "codec" /\ C!Sends /\ part' = part
  BY <1>5, CodecKeeps DEF InboundInv
<1>6. CASE UNCHANGED vars
  <2>1. /\ part' = part /\ UNCHANGED transportVars /\ UNCHANGED receiveVars /\ UNCHANGED inVars
        /\ UNCHANGED decodeVars /\ UNCHANGED codecVars
    BY <1>6 DEF vars
  <2>2. TransportInv => TransportInv'
    BY <2>1 DEF transportVars, TransportInv, TransportTyped, WritesAreOnce, UseIsOfTheLiving, ServersListen,
                T!RoutesAreTheLatest, T!Stream, T!Dgram
  <2>3. ReceiverInv => ReceiverInv'
    BY <2>1 DEF receiveVars, ReceiverInv, WalkIsTrue, R!TrustIsEarned
  <2>4. InNodeInv => InNodeInv'
    BY <2>1 DEF inVars, InNodeInv, RemembersTheLast, I!PassesOnAsConfigured, I!Due, I!LastOfKin, I!Wanted,
                I!HasField, I!LimitMs, I!Subject
  <2>5. ASSUME DecodeInv
        PROVE  DecodeInv'
    <3>1. UNCHANGED pipes /\ UNCHANGED heard /\ UNCHANGED told /\ clock' = clock
      BY <2>1 DEF decodeVars
    <3>2. clock' \in Nat /\ clock <= clock'
      BY <2>5, <3>1 DEF DecodeInv
    <3> QED BY <2>5, <3>1, <3>2, PassesKeeps
  <2>6. CodecInv => CodecInv'
    BY <2>1 DEF codecVars, CodecInv
  <2> QED BY <2>1, <2>2, <2>3, <2>4, <2>5, <2>6 DEF InboundInv
<1> QED BY <1>1, <1>2, <1>3, <1>4, <1>5, <1>6 DEF Next

\* The invariant holds throughout.
LEMMA InboundInvariant == Spec => []InboundInv
<1>1. Init => InboundInv
  BY TransportStarts, ReceiverStarts, InNodeStarts, PipelinesStart, CodecStarts DEF Init, InboundInv
<1>2. InboundInv /\ [Next]_vars => InboundInv'
  BY InboundSteps
<1> QED BY <1>1, <1>2, PTL DEF Spec

\* Whatever the kind of transport, and for any addresses, sockets and writes:
\* every write's callback runs exactly once and until then the write waits on a
\* handle that can still drain, fail or close; a server's route to an address is
\* the latest connection from there, and only its bytes are decoded for it
\* (tcp.js:318-413, drain.js:25).
THEOREM TransportsAnswer == Spec => []TransportIsTrue
<1>1. InboundInv => TransportIsTrue
  BY WritesAreCounted DEF InboundInv, TransportInv, TransportIsTrue
<1> QED BY <1>1, InboundInvariant, PTL

\* For any frames, identities and filters, only what proved itself teaches a
\* route, we are not our own peer, and the override shows while the link is up
\* (runtime.js:711-727, DESIGN.md 7).
THEOREM RoutesAreEarned == Spec => []TrustIsEarned
<1>1. InboundInv => TrustIsEarned
  BY DEF InboundInv, ReceiverInv, TrustIsEarned
<1> QED BY <1>1, InboundInvariant, PTL

\* A dispatch serves every subscriber that is there when its turn comes, whatever
\* handlers do to the table or throw, and nobody else (subscriptions.js:84-106).
THEOREM DispatchServesWhoIsThere == Spec => DispatchIsExact
<1>1. InboundInv /\ [Next]_vars => [part = "receive" => R!DispatchIsExact]_vars
  <2> SUFFICES ASSUME InboundInv, Next, part = "receive"
               PROVE  R!DispatchIsExact \/ UNCHANGED vars
    OBVIOUS
  <2>1. ReceiverInv /\ R!ReceiverNext
    BY DEF InboundInv, Next
  <2> QED BY <2>1, DispatchSteps
<1> QED BY <1>1, InboundInvariant, PTL DEF Spec, DispatchIsExact

\* For any settings, what goes on is what the filters together make due of what
\* went on before: the node's memory of each key is its last (mavlink-in.js:146-204).
THEOREM InNodePassesWhatIsDue == Spec => []PassesOnAsConfigured
<1>1. InboundInv => PassesOnAsConfigured
  BY DEF InboundInv, InNodeInv, PassesOnAsConfigured
<1> QED BY <1>1, InboundInvariant, PTL

\* Whatever tokens come from whomever, and however they are cut into datagrams, a
\* pipeline gives the frames of its endpoint's stream read whole; there are never more
\* pipelines than the cap, one for each endpoint, coldest first (wire.js:28-35).
THEOREM PipelinesAreTheirOwn == Spec => []StreamsAreTheirOwn
<1>1. InboundInv => StreamsAreTheirOwn
  BY PipelinesTellTheirOwn DEF InboundInv, StreamsAreTheirOwn
<1> QED BY <1>1, InboundInvariant, PTL

\* Of any messages, of fields of any types in any order, and whatever is given for
\* them: a frame is refused exactly for an integer nobody spoke or an array too
\* long, and any other is read as it was meant, by a receiver that knows the
\* message and by one that knows only its core, with every trailing zero cut; an
\* integer parameter comes back unless it spells a signaling NaN (wire.js:261-301,
\* 463-529; wire-classes.js:70-128; param-union.js:50-101).
THEOREM FramesAreAsMeant == Spec => []FramesMeanTheSame
<1>1. InboundInv => FramesMeanTheSame
  BY FramesMean DEF InboundInv, FramesMeanTheSame
<1> QED BY <1>1, InboundInvariant, PTL

\* For any endpoints, caps and datagrams, a peer in the middle of a frame loses its
\* pipeline to a new source only where every other is in a frame too, or proved
\* itself and holds something (wire.js:189-194).
THEOREM FramesOutliveChurn == Spec => PartialsOutliveChurn
<1>1. InboundInv /\ [Next]_vars => [part = "decode" => D!PartialsOutliveChurn]_vars
  <2> SUFFICES ASSUME InboundInv, Next, part = "decode"
               PROVE  D!PartialsOutliveChurn \/ UNCHANGED vars
    OBVIOUS
  <2>1. DecodeInv /\ D!DecodeNext
    BY DEF InboundInv, Next
  <2> QED BY <2>1, ChurnSparesFrames
<1> QED BY <1>1, InboundInvariant, PTL DEF Spec, PartialsOutliveChurn
=============================================================================
