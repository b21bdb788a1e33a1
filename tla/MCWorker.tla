------------------------------ MODULE MCWorker ------------------------------
(* Instances of Worker for TLC: the four tasks that main() runs. *)
EXTENDS Worker
=============================================================================
