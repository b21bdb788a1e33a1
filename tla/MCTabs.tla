------------------------------- MODULE MCTabs -------------------------------
(* Instances of Tabs for TLC. *)
EXTENDS Tabs

CONSTANTS t1, t2
=============================================================================
