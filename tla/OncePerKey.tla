----------------------------- MODULE OncePerKey -----------------------------
(***************************************************************************)
(* What an idempotency key promises to its user.  A create is performed,   *)
(* repeated from memory or refused in ONE step: no locks, no rollbacks, no *)
(* half-written rows.  What was performed is remembered for Ttl ticks, and *)
(* not longer than Slack ticks more.                                       *)
(***************************************************************************)
EXTENDS Integers

CONSTANTS Requests, Bodies, Nothing, Ttl, Slack

VARIABLES clock, memo, reply

State == <<clock, memo, reply>>

Replies == {"none", "conflict", "mismatch", "error"} \cup Requests
Memories == [hash: Bodies, created: Nat, response: {"conflict"} \cup Requests]

Remembered == memo # Nothing /\ clock - memo.created < Ttl

(* The create takes place: a booking named after the request that made it, or a
   conflict, which is an answer like any other. *)
Perform(r) ==
    /\ reply[r] = "none"
    /\ \E body \in Bodies, at \in 0..clock, response \in {r, "conflict"} :
        /\ memo = Nothing \/ at - memo.created >= Ttl
        /\ memo' = [hash |-> body, created |-> at, response |-> response]
        /\ reply' = [reply EXCEPT ![r] = response]
    /\ UNCHANGED clock

Repeat(r) ==
    /\ reply[r] = "none" /\ memo # Nothing /\ clock - memo.created < Ttl + Slack
    /\ reply' = [reply EXCEPT ![r] = memo.response]
    /\ UNCHANGED <<clock, memo>>

Decline(r) ==
    /\ reply[r] = "none"
    /\ \/ reply' = [reply EXCEPT ![r] = "error"]
       \/ memo # Nothing /\ reply' = [reply EXCEPT ![r] = "mismatch"]
    /\ UNCHANGED <<clock, memo>>

Forget == memo # Nothing /\ ~Remembered /\ memo' = Nothing /\ UNCHANGED <<clock, reply>>

Pass == clock' = clock + 1 /\ UNCHANGED <<memo, reply>>

Init ==
    /\ clock = 0
    /\ memo = Nothing
    /\ reply = [r \in Requests |-> "none"]

Next == Forget \/ Pass \/ \E r \in Requests : Perform(r) \/ Repeat(r) \/ Decline(r)

Spec == Init /\ [][Next]_State
=============================================================================
