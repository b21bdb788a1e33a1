----------------------------- MODULE MCSessions -----------------------------
(* Instances of Sessions for TLC.  A tick is five days. *)
EXTENDS Sessions, TLC

CONSTANTS r1, r2

Interchangeable == Permutations(Requests)
=============================================================================
