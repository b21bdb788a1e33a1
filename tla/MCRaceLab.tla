----------------------------- MODULE MCRaceLab ------------------------------
(* Instances of RaceLab for TLC. *)
EXTENDS RaceLab

CONSTANTS w1, w2
=============================================================================
