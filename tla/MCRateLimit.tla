---------------------------- MODULE MCRateLimit -----------------------------
(* Instances of RateLimit for TLC: one e-mail address (1) and one IP address
   (2); a login consumes both, a refresh the second. *)
EXTENDS RateLimit, TLC

CONSTANTS r1, r2, r3

Limits == [b \in Buckets |-> IF b = 1 THEN 1 ELSE 2]
Interchangeable == Permutations(Requests)
=============================================================================
