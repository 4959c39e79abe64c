------------------------------- MODULE Decoders -------------------------------
(***************************************************************************)
(* The decode pipelines of a Connection (lib/connection/wire.js): one       *)
(* splitter per endpoint, under a cap and in the order they were last used. *)
(*                                                                         *)
(* A frame is two tokens: a start and a rest.  "H" starts a frame of the    *)
(* dialect, "U" one of another dialect, "G" one with an incompatibility     *)
(* flag nobody understands; "R" is the rest that a checksum vouches for; "J" *)
(* is a byte that neither starts nor completes anything.  The splitter and  *)
(* parser are node-mavlink's.                                               *)
(***************************************************************************)
EXTENDS Integers, SequencesExt

CONSTANTS
  Endpoints,
  Datagrams,    \* what arrives at once: sequences of tokens
  MaxDecoders,  \* the cap
  MaxPending,   \* the most tokens an unfinished frame can hold
  IdleMs, MaxNow, \* the idle limit; bound: the clock
  MaxHeard, MaxFailures, \* bounds: tokens a pipeline hears before its last datagram; checksum failures
  Sweeps        \* the transports whose idle pipelines go ("udp")

VARIABLES
  mode,       \* the transport's mode; it never changes
  decoders,   \* decoders: sequence of [at, tail, validated, lastUsed], coldest first
  crcFailures,
  clock,
  heard, told \* history: the tokens that reached each living pipeline, the frames it gave

decodeVars == <<mode, decoders, crcFailures, clock, heard, told>>

Starts == {"H", "U", "G"}
Tokens == Starts \cup {"R", "J"}

DecoderBounds ==
  /\ {MaxDecoders, MaxPending, IdleMs, MaxNow, MaxHeard, MaxFailures} \subseteq Nat \ {0}
  /\ Datagrams \subseteq Seq(Tokens)

-----------------------------------------------------------------------------
(* The splitter *)

\* validatePacket: a checksum is only verified of a message the dialect has, and
\* only its failure is counted; an unknown one takes what bytes it declares.
Valid(start, rest) == start = "U" \/ (start = "H" /\ rest = "R")
Failed(start, rest) == start = "H" /\ rest # "R"

\* What the splitter makes of a buffer: a rejected frame costs its first token only.
Split[buffer \in Seq(Tokens)] ==
  LET starting == {i \in DOMAIN buffer : buffer[i] \in Starts}
      from == CHOOSE i \in starting : \A j \in starting : i <= j
      rest == SubSeq(buffer, from + 1, Len(buffer))
  IN  IF starting = {} THEN [frames |-> << >>, tail |-> buffer, failures |-> 0]
      ELSE IF rest = << >> THEN [frames |-> << >>, tail |-> SubSeq(buffer, from, from), failures |-> 0]
      ELSE IF Valid(buffer[from], rest[1])
        THEN LET later == Split[Tail(rest)] IN [later EXCEPT !.frames = <<buffer[from]>> \o @]
        ELSE LET later == Split[rest]
             IN  [later EXCEPT !.failures = @ + IF Failed(buffer[from], rest[1]) THEN 1 ELSE 0]

\* Beyond what a frame can hold, a tail holds no frame.
KeptNothing(tail) == << >>
Kept(tail) == IF Len(tail) > MaxPending THEN << >> ELSE tail

-----------------------------------------------------------------------------
(* Eviction *)

Keys(pipes) == {pipes[i].at : i \in DOMAIN pipes}
Drop(pipes, gone) ==
  LET kept[n \in 0..Len(pipes)] ==
        IF n = 0 THEN << >> ELSE IF pipes[n].at \in gone THEN kept[n - 1] ELSE Append(kept[n - 1], pipes[n])
  IN  kept[Len(pipes)]

HasPendingPartial(p) == p.tail # << >>
LooksLikeMavPartial(p) == HasPendingPartial(p) /\ p.tail[1] \in Starts

VictimColdest(pipes) == pipes[1].at
\* The pipeline to give up: the coldest that never proved itself and is not in
\* a frame, else the coldest proven one that holds nothing, else the coldest.
Victim(pipes) ==
  LET junk == {i \in DOMAIN pipes : ~pipes[i].validated /\ ~LooksLikeMavPartial(pipes[i])}
      quiet == {i \in DOMAIN pipes : pipes[i].validated /\ ~HasPendingPartial(pipes[i])}
      tier == IF junk # {} THEN junk ELSE IF quiet # {} THEN quiet ELSE DOMAIN pipes
  IN  pipes[CHOOSE i \in tier : \A j \in tier : i <= j].at
EvictOne(pipes) == Drop(pipes, {Victim(pipes)})

\* getDecoder: the endpoint's pipeline, at the warm end; a new one if it has none.
GetDecoder(e) ==
  IF e \in Keys(decoders)
  THEN LET old == CHOOSE p \in ToSet(decoders) : p.at = e
       IN  Append(Drop(decoders, {e}), [old EXCEPT !.lastUsed = clock])
  ELSE Append(IF Len(decoders) >= MaxDecoders THEN EvictOne(decoders) ELSE decoders,
              [at |-> e, tail |-> << >>, validated |-> FALSE, lastUsed |-> clock])

-----------------------------------------------------------------------------
DecodeInit ==
  /\ mode \in {"udp", "tcp"}
  /\ decoders = << >> /\ crcFailures = 0 /\ clock = 0
  /\ heard = [e \in Endpoints |-> << >>] /\ told = [e \in Endpoints |-> << >>]

\* History goes with the pipeline it is about.
Living(log, pipes) == [e \in Endpoints |-> IF e \in Keys(pipes) THEN log[e] ELSE << >>]

\* Bytes arrive from an endpoint.
Decode(e, datagram) ==
  LET pipes == GetDecoder(e)
      entry == Last(pipes)
      split == Split[entry.tail \o datagram]
  IN  /\ Len(heard[e]) < MaxHeard /\ crcFailures + split.failures <= MaxFailures
      /\ decoders' = Append(Front(pipes),
           [entry EXCEPT !.tail = Kept(split.tail), !.validated = @ \/ \E i \in DOMAIN split.frames : split.frames[i] = "H"])
      /\ crcFailures' = crcFailures + split.failures
      /\ heard' = [Living(heard, pipes) EXCEPT ![e] = @ \o datagram]
      /\ told' = [Living(told, pipes) EXCEPT ![e] = @ \o split.frames]
      /\ UNCHANGED <<mode, clock>>

LeaveOnly(pipes) ==
  /\ decoders' = pipes
  /\ heard' = Living(heard, pipes) /\ told' = Living(told, pipes)
  /\ UNCHANGED <<mode, crcFailures, clock>>

\* The endpoint's connection is gone; the Connection closes or redials.
ReleaseDecoder(e) == e \in Keys(decoders) /\ LeaveOnly(Drop(decoders, {e}))
ClearDecoders == decoders # << >> /\ LeaveOnly(<< >>)

\* The freshness sweep, where silence means that a peer has gone.
Idle(p) == clock - p.lastUsed > IdleMs
EvictIdleDecoders ==
  LET gone == {p.at : p \in {q \in ToSet(decoders) : Idle(q)}}
  IN  mode \in Sweeps /\ gone # {} /\ LeaveOnly(Drop(decoders, gone))

Passes == clock < MaxNow /\ clock' = clock + 1 /\ UNCHANGED <<mode, decoders, crcFailures, heard, told>>

DecodeNext ==
  \/ \E e \in Endpoints, d \in Datagrams : Decode(e, d)
  \/ \E e \in Endpoints : ReleaseDecoder(e)
  \/ ClearDecoders
  \/ EvictIdleDecoders
  \/ Passes

-----------------------------------------------------------------------------
(* Properties *)

\* Whatever other endpoints send in between, and however its bytes are cut into
\* datagrams, a pipeline gives the frames of one uncut stream (wire.js:28-35);
\* there are never more of them than the cap, one for each endpoint, and the
\* longest idle is the coldest.
StreamsAreTheirOwn ==
  /\ \A e \in Keys(decoders) : told[e] = Split[heard[e]].frames
  /\ Len(decoders) <= MaxDecoders
  /\ \A i, j \in DOMAIN decoders : i < j =>
       decoders[i].at # decoders[j].at /\ decoders[i].lastUsed <= decoders[j].lastUsed

\* Source churn costs a peer in the middle of a frame its pipeline only when
\* there was no other to give up: no unproven one without a frame begun, no
\* proven one that held nothing (wire.js:189-194).  Only silence on UDP, a
\* closed connection or a cleared link cost it otherwise.
PartialsOutliveChurn ==
  \A p \in ToSet(decoders) :
    LooksLikeMavPartial(p) /\ p.at \notin Keys(decoders') /\ Keys(decoders') \ Keys(decoders) # {}
    => \A q \in ToSet(decoders) : HasPendingPartial(q) /\ (q.validated \/ LooksLikeMavPartial(q))
=============================================================================
