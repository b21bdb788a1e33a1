---------------------------- MODULE MCInventory ----------------------------
(* Instances of Inventory for TLC.  A tick is the half hour divided by Slot. *)
EXTENDS Inventory, TLC

CONSTANTS u1, u2, b1, b2, b3, b4

Interchangeable == Permutations(Users) \cup Permutations(BookingIds)
=============================================================================
