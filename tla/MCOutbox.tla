------------------------------ MODULE MCOutbox ------------------------------
(* Instances of Outbox for TLC.  A tick is about 30 s. *)
EXTENDS Outbox

CONSTANTS w1, w2
=============================================================================
