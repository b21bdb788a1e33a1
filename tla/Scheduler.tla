------------------------------ MODULE Scheduler ------------------------------
(***************************************************************************)
(* The hold scheduler over many resources: discovery in batches behind a   *)
(* cursor kept in memory, one transaction per resource, wrap at the end.   *)
(* What that transaction does is Inventory's ExpireAndPromote; here it     *)
(* only matters whether the resource is a candidate afterwards, which it   *)
(* stays when its row was locked or a waiter is still blocked.  Worker     *)
(* runs these actions inside the supervised task.                          *)
(***************************************************************************)
EXTENDS Integers, FiniteSets

CONSTANTS
    Resources,      \* ordered like their UUIDs
    Batch,          \* batch_size
    MaxCrashes      \* BOUND: restarts of the worker

VARIABLES
    candidate,      \* resources with an overdue hold or a waiting entry
    cursor,         \* self.cursor, 0 for None
    batch,          \* resources discovered and not yet visited, in their order
    cycle,          \* between run_cycle's discovery and its end
    reachedEnd,     \* what discovery returned
    crashes,
    last,           \* the resource visited last
    passed          \* passed[r][q]: visits of q since r is a waiting candidate

vars == <<candidate, cursor, batch, cycle, reachedEnd, crashes, last, passed>>

Never == [q \in Resources |-> 0]
Enough == 3 + MaxCrashes      \* BOUND: visits counted per pair

-----------------------------------------------------------------------------
(* A hold becomes overdue or a waiter joins; requests may also settle either. *)
Appear(r) ==
    /\ r \notin candidate
    /\ candidate' = candidate \cup {r}
    /\ passed' = [passed EXCEPT ![r] = Never]
    /\ UNCHANGED <<cursor, batch, cycle, reachedEnd, crashes, last>>

Settle(r) ==
    /\ r \in candidate
    /\ candidate' = candidate \ {r}
    /\ UNCHANGED <<cursor, batch, cycle, reachedEnd, crashes, last, passed>>

(* _query: the first candidates after a cursor, ordered and limited. *)
Later(after) == {r \in candidate : r > after}
Query(found, after) ==
    /\ found \subseteq Later(after) /\ Cardinality(found) <= Batch
    /\ found # Later(after) => Cardinality(found) = Batch
    /\ \A r \in found, q \in Later(after) \ found : r < q

(* Nothing behind the cursor: discovery wraps to the beginning. *)
Start == IF Later(cursor) = {} THEN 0 ELSE cursor

Discover ==
    \E found \in SUBSET candidate :
        /\ ~cycle
        /\ Query(found, Start)
        /\ cycle' = TRUE
        /\ batch' = found
        /\ reachedEnd' = (Cardinality(found) < Batch)
        /\ UNCHANGED <<candidate, cursor, crashes, last, passed>>

(* expire_and_promote on the next resource: the cursor moves past it first,
   whether its row can be locked or not. *)
(* Fault: the cursor moves only past resources that were settled. *)
MovedPastSettled(r) == IF r \in candidate' THEN cursor ELSE r
MovedPast(r) == r

Counted(n) == IF n < Enough THEN n + 1 ELSE n
Visit(r) ==
    /\ cycle /\ r \in batch
    /\ \A q \in batch : r <= q
    /\ candidate' \in {candidate, candidate \ {r}}
    /\ cursor' = MovedPast(r)
    /\ batch' = batch \ {r}
    /\ last' = r
    /\ passed' = [q \in Resources |->
                    IF q = r THEN Never
                    ELSE IF q \in candidate THEN [passed[q] EXCEPT ![r] = Counted(@)]
                    ELSE passed[q]]
    /\ UNCHANGED <<cycle, reachedEnd, crashes>>

(* The end of a cycle resets the cursor when the keyset was exhausted. *)
(* Fault: it is reset after every cycle. *)
EndCycleFromStart ==
    /\ cycle /\ batch = {}
    /\ cycle' = FALSE /\ cursor' = 0
    /\ UNCHANGED <<candidate, batch, reachedEnd, crashes, last, passed>>
EndCycle ==
    /\ cycle /\ batch = {}
    /\ cycle' = FALSE
    /\ cursor' = IF reachedEnd THEN 0 ELSE cursor
    /\ UNCHANGED <<candidate, batch, reachedEnd, crashes, last, passed>>

(* A transaction fails or the process dies: the restarted worker has no cursor. *)
Crash ==
    /\ crashes < MaxCrashes
    /\ crashes' = crashes + 1
    /\ cycle' = FALSE /\ batch' = {} /\ cursor' = 0 /\ reachedEnd' = FALSE
    /\ UNCHANGED <<candidate, last, passed>>

Init ==
    /\ candidate \in SUBSET Resources
    /\ cursor = 0 /\ batch = {} /\ cycle = FALSE /\ reachedEnd = FALSE
    /\ crashes = 0 /\ last = 0
    /\ passed = [r \in Resources |-> Never]

-----------------------------------------------------------------------------
(* While a resource waits for a visit, no other is visited more than twice, and
   once more for each restart. *)
BypassBounded ==
    \A r \in candidate, q \in Resources : passed[r][q] <= 2 + crashes
=============================================================================
