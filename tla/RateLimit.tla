----------------------------- MODULE RateLimit ------------------------------
(***************************************************************************)
(* Fixed-window rate limits.  A request consumes all its buckets in one    *)
(* short transaction: bucket by bucket, in order, an upsert that counts    *)
(* and locks the row; the locks go at the commit, before anything else of  *)
(* the request runs.  Over the limit it is counted all the same.  Hourly   *)
(* maintenance deletes the rows of old windows.                            *)
(***************************************************************************)
EXTENDS Integers, Sequences, SequencesExt

CONSTANTS
    Buckets,        \* numbered in the order of (scope, identity_hash)
    Plans,          \* which buckets one request consumes: a login its e-mail and its IP
    Limit,          \* of each bucket
    Requests,       \* concurrent requests
    Window,         \* window_seconds
    Retention,      \* age of the rows that maintenance deletes, 24 hours
    Patience,       \* a request reaches its commit within this time of its clock reading
    LastTick,       \* BOUND: the clock stops here
    MaxCount        \* BOUND: attempts counted per row

ASSUME ConstantsAssumption ==
    /\ Buckets \subseteq Nat /\ IsFiniteSet(Buckets)
    /\ Plans \subseteq (SUBSET Buckets) \ {{}}
    /\ Limit \in [Buckets -> Nat \ {0}]
    /\ {Window, Retention, Patience, LastTick, MaxCount} \subseteq Nat /\ Window > 0
    /\ Retention >= Window + Patience

VARIABLES
    now,
    count,          \* rate_limits rows, committed; 0 when there is none
    request,
    granted         \* requests let through, per bucket and window

vars == <<now, count, request, granted>>

Windows == 0 .. LastTick \div Window
Idle == [step |-> "idle", at |-> 0, todo |-> <<>>, held |-> {}, retry |-> 0]

WindowOf(t) == t \div Window
Mine(r) == WindowOf(request[r].at)
Rest(r) == request' = [request EXCEPT ![r] = Idle]

(* The row is locked by a transaction that has consumed it. *)
Holds(q, b, w) == request[q].step = "consuming" /\ b \in request[q].held /\ Mine(q) = w
Waits(r, q) ==
    /\ request[r].step = "consuming" /\ request[r].todo # <<>>
    /\ Holds(q, Head(request[r].todo), Mine(r))

-----------------------------------------------------------------------------
(* The window is that of the clock reading at the door. *)
(* Fault: buckets are taken in the order the caller listed them. *)
AnyOrder(plan) == SetToSeqs(plan)
InOrder(plan) == {s \in SetToSeqs(plan) : \A i, j \in DOMAIN s : i < j => s[i] < s[j]}

Arrive(r) ==
    /\ request[r].step = "idle"
    /\ \E plan \in Plans : \E order \in InOrder(plan) :
        request' = [request EXCEPT ![r] = [step |-> "consuming", at |-> now, todo |-> order,
                                           held |-> {}, retry |-> 0]]
    /\ UNCHANGED <<now, count, granted>>

RetryTime == now + IF Window - (now % Window) > 1 THEN Window - (now % Window) ELSE 1

Over(b, n) == n > Limit[b]

Blocked(r) == \E q \in Requests \ {r} : Waits(r, q)

Consume(r) ==
    LET q == request[r]
        b == Head(q.todo) IN
    /\ q.step = "consuming" /\ q.todo # <<>>
    /\ ~Blocked(r)
    /\ count[b][Mine(r)] < MaxCount
    /\ request' = [request EXCEPT ![r] =
            [step |-> "consuming", at |-> q.at, todo |-> Tail(q.todo), held |-> q.held \cup {b},
             retry |-> IF Over(b, count[b][Mine(r)] + 1) THEN RetryTime ELSE q.retry]]
    /\ UNCHANGED <<now, count, granted>>

Counted(f, r) == [b \in Buckets |-> IF b \in request[r].held THEN [f[b] EXCEPT ![Mine(r)] = @ + 1] ELSE f[b]]

(* The commit; RateLimitExceeded is raised after it. *)
Commit(r) ==
    /\ request[r].step = "consuming" /\ request[r].todo = <<>>
    /\ count' = Counted(count, r)
    /\ granted' = IF request[r].retry = 0 THEN Counted(granted, r) ELSE granted
    /\ Rest(r)
    /\ UNCHANGED now

(* The connection or the process is lost: nothing was counted. *)
Die(r) ==
    /\ request[r].step = "consuming"
    /\ Rest(r)
    /\ UNCHANGED <<now, count, granted>>

(* Fault: a window is purged as soon as it began. *)
OldAtOnce(w) == w * Window < now
Old(w) == w * Window < now - Retention

(* A batch of maintenance is some of these deletions; a locked row is waited for. *)
Purge(b, w) ==
    /\ count[b][w] > 0 /\ Old(w)
    /\ ~\E q \in Requests : Holds(q, b, w)
    /\ count' = [count EXCEPT ![b][w] = 0]
    /\ UNCHANGED <<now, request, granted>>

Tick ==
    /\ now < LastTick
    /\ \A r \in Requests : request[r].step = "consuming" => now < request[r].at + Patience
    /\ now' = now + 1
    /\ UNCHANGED <<count, request, granted>>

Init ==
    /\ now = 0
    /\ count = [b \in Buckets |-> [w \in Windows |-> 0]]
    /\ request = [r \in Requests |-> Idle]
    /\ granted = [b \in Buckets |-> [w \in Windows |-> 0]]

Next ==
    \/ \E r \in Requests : Arrive(r) \/ Consume(r) \/ Commit(r) \/ Die(r)
    \/ \E b \in Buckets, w \in Windows : Purge(b, w)
    \/ Tick

Spec == Init /\ [][Next]_vars

-----------------------------------------------------------------------------
(* Counters stay in range, no row is locked twice, and a row that is not yet old
   has counted at least what it let through, also for requests that were refused
   or lost. *)
TypeOK ==
    /\ now \in 0..LastTick
    /\ count \in [Buckets -> [Windows -> 0..MaxCount]]
    /\ request \in [Requests -> [step: {"idle", "consuming"}, at: 0..LastTick, todo: Seq(Buckets),
                                 held: SUBSET Buckets, retry: 0..LastTick + Window]]
    /\ granted \in [Buckets -> [Windows -> Nat]]
    /\ \A q, r \in Requests, b \in Buckets, w \in Windows : Holds(q, b, w) /\ Holds(r, b, w) => q = r
    /\ \A b \in Buckets, w \in Windows : ~Old(w) => granted[b][w] <= count[b][w]

(* However requests interleave, and whatever maintenance deletes, no bucket lets
   more through in a window than its limit. *)
WithinLimit == \A b \in Buckets, w \in Windows : granted[b][w] <= Limit[b]

(* Two requests never wait for each other's buckets. *)
NoWaitCycle == ~\E q, r \in Requests : Waits(q, r) /\ Waits(r, q)

(* And no more do three or ten of them: whoever waits, waits for a request that
   has come further, so a chain of waits climbs and never returns to its start. *)
WaitsClimb ==
    \A q, r \in Requests :
        Waits(q, r) /\ request[r].todo # <<>> => Head(request[q].todo) < Head(request[r].todo)

(* A client that honours Retry-After comes back in a later window than the one
   that refused it. *)
RetryMeetsNewWindow ==
    \A r \in Requests : request[r].retry > 0 => WindowOf(request[r].retry) > Mine(r)
=============================================================================
