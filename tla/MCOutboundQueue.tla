--------------------------- MODULE MCOutboundQueue ---------------------------
(* Small callers for OutboundQueue: two identities, two streams, tiny caps. *)
EXTENDS OutboundQueue

CONSTANTS id1, id2, hb, sp, t1, v1, v2

Req(b, i, n, v) == [band |-> b, identityId |-> i, name |-> n, target |-> t1, value |-> v]

\* Every band, two identities on the keyed bands, two values on one stream.
MCRequests ==
  {Req(EMERGENCY, id1, sp, v1), Req(LIVENESS, id1, hb, v1), Req(LIVENESS, id2, hb, v1),
   Req(CONTROL, id1, sp, v1), Req(STREAMING, id1, sp, v1), Req(STREAMING, id1, sp, v2),
   Req(STREAMING, id2, sp, v1), Req(BULK, id1, sp, v1), Req(5, id1, sp, v1)}

MCCapacity == (EMERGENCY :> 1) @@ (CONTROL :> 2) @@ (STREAMING :> 1) @@ (BULK :> 3)
=============================================================================
