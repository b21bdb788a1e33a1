-------------------------- MODULE WaitlistPromise --------------------------
(***************************************************************************)
(* What the inventory of a resource promises to the people who use it,     *)
(* without bookings, offers, versions, locks or clocks: a set of held      *)
(* windows and a queue of requests for windows.                            *)
(*                                                                         *)
(*   - a window is held only while no held window overlaps it;             *)
(*   - only a request for a busy window may queue, and it never stays in   *)
(*     the queue once its window is free: giving windows up and serving    *)
(*     the queue is ONE step;                                              *)
(*   - a request is never served past an older one for the same window or  *)
(*     for a part of it.                                                   *)
(***************************************************************************)
EXTENDS Integers

VARIABLES held, queue

promiseVars == <<held, queue>>

Collide(x, y) == x.lo < y.hi /\ y.lo < x.hi

Free(H, w) == \A h \in H : ~Collide(h, w)

Within(x, y) == y.lo <= x.lo /\ x.hi <= y.hi

Older(x, y) == x.created < y.created \/ (x.created = y.created /\ x.id < y.id)

WindowOf(r) == [lo |-> r.lo, hi |-> r.hi]

PromiseInit == held = {} /\ queue = {}

(* A free window is taken. *)
Reserve(w) == Free(held, w) /\ held' = held \cup {w} /\ UNCHANGED queue

(* Somebody queues for a busy window. *)
Join(r) == ~Free(held, r) /\ queue' = queue \cup {r} /\ UNCHANGED held

(* Somebody leaves the queue. *)
Leave(r) == queue' = queue \ {r} /\ UNCHANGED held

(* Windows are given up, the queue is served in order, and requests that     *)
(* came too late are dropped: whoever is neither served nor left in the queue. *)
Settle(gone, served) ==
    /\ held' = (held \ gone) \cup {WindowOf(r) : r \in served}
    /\ queue' \subseteq queue \ served
    /\ \A r \in served : Free(held \ gone, r)
    /\ \A r, s \in served : r = s \/ ~Collide(r, s)
    /\ \A r \in queue' : ~Free(held', r)
    /\ \A r \in served, s \in queue' : Within(s, r) => Older(r, s)

PromiseNext ==
    \/ \E w \in held' : Reserve(w)
    \/ \E r \in queue' : Join(r)
    \/ \E r \in queue : Leave(r)
    \/ \E gone \in SUBSET held : \E served \in SUBSET queue : Settle(gone, served)

Spec == PromiseInit /\ [][PromiseNext]_promiseVars
=============================================================================
