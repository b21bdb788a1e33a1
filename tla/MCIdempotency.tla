--------------------------- MODULE MCIdempotency ----------------------------
(* Instances of Idempotency for TLC.  A tick is half a day. *)
EXTENDS Idempotency

CONSTANTS r1, r2, r3
=============================================================================
