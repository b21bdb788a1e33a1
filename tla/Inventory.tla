----------------------------- MODULE Inventory -----------------------------
(***************************************************************************)
(* The inventory of ONE resource: its bookings and blackouts, its waitlist *)
(* and the outbox events its transactions write.  Every transaction locks  *)
(* the resource row first, FOR SHARE to insert a booking and FOR UPDATE to *)
(* do anything else, and no statement reads the rows of another resource,  *)
(* so resources meet only in `enabled' and in the clock.                   *)
(*                                                                         *)
(* A transaction that releases inventory goes on to promote_waiters under  *)
(* the same lock, one waiter after the other, while the clock runs and     *)
(* administrators enable and disable users.  It is modelled step by step:  *)
(* `work' holds its uncommitted rows, `db' what everybody else reads, and  *)
(* it ends in Commit or in Crash.  The other transactions hold the lock    *)
(* for a single write and are one action each.                             *)
(*                                                                         *)
(* Time is counted in ticks.  Slot, Lead, Hold, MaxSlots and MaxAhead are  *)
(* the 30 minutes, 15 minutes, 15 minutes, 4 hours and 90 days of the code *)
(* and MaxBlackoutSlots its 30 days.                                       *)
(***************************************************************************)
EXTENDS Integers, FiniteSets

CONSTANTS
    Users,          \* people who book and wait
    Nobody,         \* users.id NULL: the owner of a blackout, the actor of a worker
    BookingIds,     \* uuids of bookings
    NoBooking,      \* bookings.id NULL
    EntryIds,       \* uuids of waitlist entries, ordered as uuids are
    Slot, Lead, Hold, MaxSlots, MaxBlackoutSlots, MaxAhead,
    LockWait,       \* ticks that may pass between a clock sample and the row lock
    MaxActive,      \* active entries a resource accepts, 500 in the code
    Horizon,        \* BOUND: windows end by this tick
    LastTick,       \* BOUND: the clock stops here
    MaxCrashes,     \* BOUND: transactions that die before their commit
    Managed         \* BOUND: the users whose accounts administrators switch on and off

ASSUME ConstantsAssumption ==
    /\ Nobody \notin Users
    /\ NoBooking \notin BookingIds
    /\ EntryIds \subseteq Nat \ {0}
    /\ {Slot, Lead, Hold, MaxSlots} \subseteq Nat \ {0}
    /\ {MaxBlackoutSlots, MaxAhead, LockWait, MaxActive, Horizon, LastTick, MaxCrashes} \subseteq Nat
    /\ LockWait < Lead
    /\ Managed \subseteq Users

NoEntry == 0
NoTime == -1

VARIABLES
    now,            \* clock_timestamp() of the database
    enabled,        \* users.enabled
    active,         \* resources.active
    db,             \* committed rows: [bookings, entries, events]
    locked,         \* a releasing transaction holds the resource FOR UPDATE
    work,           \* the rows as that transaction sees them; db when there is none
    actor,          \* the user that transaction locked FOR SHARE, if any
    cursor,         \* (last_created_at, last_id) of its scan of the waiters
    candidate,      \* the waiter found eligible and free, not offered yet
    crashes         \* how many transactions died so far

vars == <<now, enabled, active, db, locked, work, actor, cursor, candidate, crashes>>

-----------------------------------------------------------------------------
(* Rows.  An id whose row was never inserted has status "absent". *)

Times == 0..Horizon
Occupying == {"confirmed", "offered"}
Queued == {"waiting", "offered"}
BookingStatus == {"absent", "confirmed", "offered", "cancelled", "expired"}
EntryStatus == {"absent", "waiting", "offered", "accepted", "cancelled", "expired"}
EventTypes == {"booking_confirmed", "booking_cancelled", "waitlist_offered", "hold_expired"}

BookingRow == [status: BookingStatus, user: Users \cup {Nobody}, lo: Times, hi: Times,
               expires: Times \cup {NoTime}, version: Nat]
EntryRow == [status: EntryStatus, user: Users \cup {Nobody}, lo: Times, hi: Times,
             created: Nat, booking: BookingIds \cup {NoBooking}, version: Nat]
Event == [type: EventTypes, booking: BookingIds, version: Nat]
Rows == [bookings: [BookingIds -> BookingRow], entries: [EntryIds -> EntryRow],
         events: SUBSET Event]

AbsentBooking == [status |-> "absent", user |-> Nobody, lo |-> 0, hi |-> 0,
                  expires |-> NoTime, version |-> 0]
AbsentEntry == [status |-> "absent", user |-> Nobody, lo |-> 0, hi |-> 0,
                created |-> 0, booking |-> NoBooking, version |-> 0]
NoRows == [bookings |-> [b \in BookingIds |-> AbsentBooking],
           entries |-> [e \in EntryIds |-> AbsentEntry], events |-> {}]

Overlap(x, y) == x.lo < y.hi /\ y.lo < x.hi

(* Fault: an offered hold does not block its window. *)
OccupiedByConfirmed(d, w) ==
    \E b \in BookingIds : d.bookings[b].status = "confirmed" /\ Overlap(d.bookings[b], w)
Occupied(d, w) ==
    \E b \in BookingIds : d.bookings[b].status \in Occupying /\ Overlap(d.bookings[b], w)

InState(d, E, s) == {e \in E : d.entries[e].status \in s}

Linked(d, B) == {e \in EntryIds : d.entries[e].booking \in B}

-----------------------------------------------------------------------------
(* Writes: the statements the transactions are made of. *)

InsertBooking(d, b, row) == [d EXCEPT !.bookings[b] = row]

InsertEntry(d, e, row) == [d EXCEPT !.entries[e] = row]

BookingInState(row, s) ==
    [row EXCEPT !.status = s, !.expires = NoTime, !.version = row.version + 1]

MoveBookings(d, B, s) ==
    [d EXCEPT !.bookings =
        [b \in BookingIds |-> IF b \in B THEN BookingInState(d.bookings[b], s) ELSE d.bookings[b]]]

(* Fault: the version of an entry is not incremented. *)
EntryInStateSameVersion(row, s) == [row EXCEPT !.status = s]
EntryInState(row, s) == [row EXCEPT !.status = s, !.version = row.version + 1]

MoveEntries(d, E, s) ==
    [d EXCEPT !.entries =
        [e \in EntryIds |-> IF e \in E THEN EntryInState(d.entries[e], s) ELSE d.entries[e]]]

(* append_event: the payload carries the booking's id and current version. *)
AppendEvents(d, type, B) ==
    [d EXCEPT !.events = d.events \cup
        {[type |-> type, booking |-> b, version |-> d.bookings[b].version] : b \in B}]

(* Overdue holds, the entries they were offered to, and their events. *)
(* Fault: no hold_expired event. *)
ExpireHoldsSilently(d, B) ==
    MoveBookings(MoveEntries(d, Linked(d, B), "expired"), B, "expired")
ExpireHolds(d, B) ==
    AppendEvents(MoveBookings(MoveEntries(d, Linked(d, B), "expired"), B, "expired"),
                 "hold_expired", B)
-----------------------------------------------------------------------------
(* Windows. *)

Aligned(lo, hi, slots) ==
    /\ lo % Slot = 0 /\ hi % Slot = 0
    /\ lo < hi /\ hi - lo <= slots * Slot

(* validate_booking_window against a clock sample t *)
BookingWindow(lo, hi, t) == Aligned(lo, hi, MaxSlots) /\ t + Lead <= lo /\ lo <= t + MaxAhead

(* validate_blackout_window: it may start in the current half hour *)
BlackoutWindow(lo, hi, t) ==
    Aligned(lo, hi, MaxBlackoutSlots) /\ t < hi /\ t - (t % Slot) <= lo

(* Clock samples taken before the row lock was granted. *)
Samples == {t \in 0..now : now <= t + LockWait}

-----------------------------------------------------------------------------
(* The two shapes of a transaction, both starting with the row lock. *)

(* One write, committed at once. *)
CommitRows(d) ==
    /\ db' = d /\ work' = d
    /\ UNCHANGED <<locked, actor, cursor, candidate>>

(* A release, to be followed by promote_waiters under the same lock. *)
Release(d, u) ==
    /\ work' = d /\ locked' = TRUE /\ actor' = u
    /\ UNCHANGED <<db, cursor, candidate>>

NoCursor == <<-1, NoEntry>>

-----------------------------------------------------------------------------
(* Members. *)

(* POST /bookings: the clock is sampled before insert_confirmed waits for the *)
(* resource; bookings_no_overlap refuses an occupied window.                  *)
CreateBooking(u, b, lo, hi) ==
    /\ ~locked /\ enabled[u] /\ active
    /\ \E t \in Samples : BookingWindow(lo, hi, t)
    /\ db.bookings[b].status = "absent"
    /\ ~Occupied(db, [lo |-> lo, hi |-> hi])
    /\ CommitRows(AppendEvents(
          InsertBooking(db, b, [status |-> "confirmed", user |-> u, lo |-> lo, hi |-> hi,
                                expires |-> NoTime, version |-> 1]),
          "booking_confirmed", {b}))
    /\ UNCHANGED <<now, enabled, active, crashes>>

(* cancel_booking past its checks: the booking, the entry it was offered to, *)
(* the event; promote_waiters follows.                                       *)
(* Fault: the entry the booking was offered to is forgotten. *)
ReleaseBookingAlone(b, u) ==
    Release(AppendEvents(MoveBookings(db, {b}, "cancelled"), "booking_cancelled", {b}), u)
ReleaseBooking(b, u) ==
    Release(AppendEvents(
              MoveEntries(MoveBookings(db, {b}, "cancelled"),
                          Linked(db, {b}) \cap InState(db, EntryIds, {"offered"}), "cancelled"),
              "booking_cancelled", {b}), u)

(* POST /bookings/{id}/cancel: only before the start *)
CancelBooking(b) ==
    /\ ~locked
    /\ db.bookings[b].status \in Occupying
    /\ db.bookings[b].user \in Users /\ enabled[db.bookings[b].user]
    /\ now < db.bookings[b].lo
    /\ ReleaseBooking(b, db.bookings[b].user)
    /\ UNCHANGED <<now, enabled, active, crashes>>

(* The cap on active entries. *)
(* Fault: the cap is compared one too late. *)
HasRoomForOneMore == Cardinality(InState(db, EntryIds, Queued)) <= MaxActive
HasRoom == Cardinality(InState(db, EntryIds, Queued)) < MaxActive

(* The entries of a user for a window (waitlist_active_unique_idx). *)
Queuing(u, lo, hi) ==
    {f \in InState(db, EntryIds, Queued) :
        db.entries[f].user = u /\ db.entries[f].lo = lo /\ db.entries[f].hi = hi}

(* POST /waitlist: the window is validated against a clock sample taken before *)
(* the resource lock, and created_at is the start of the transaction.          *)
JoinWaitlist(u, e, lo, hi) ==
    LET w == [lo |-> lo, hi |-> hi] IN
    /\ ~locked /\ enabled[u] /\ active
    /\ db.entries[e].status = "absent"
    /\ Occupied(db, w)
    /\ ~\E b \in BookingIds :
          /\ db.bookings[b].status \in Occupying
          /\ Overlap(db.bookings[b], w) /\ db.bookings[b].user = u
    /\ Queuing(u, lo, hi) = {}
    /\ HasRoom
    /\ \E t, begun \in Samples :
          /\ begun <= t /\ BookingWindow(lo, hi, t)
          /\ CommitRows(InsertEntry(db, e,
                [status |-> "waiting", user |-> u, lo |-> lo, hi |-> hi,
                 created |-> begun, booking |-> NoBooking, version |-> 1]))
    /\ UNCHANGED <<now, enabled, active, crashes>>

(* At the exact deadline expiry wins. *)
(* Fault: the deadline itself is still in time. *)
InTimeAtDeadline(b) == now <= db.bookings[b].expires
InTime(b) == now < db.bookings[b].expires

(* POST /waitlist/{id}/accept before the deadline *)
AcceptOffer(e) ==
    LET b == db.entries[e].booking IN
    /\ ~locked
    /\ db.entries[e].status = "offered" /\ enabled[db.entries[e].user]
    /\ b # NoBooking /\ db.bookings[b].status = "offered"
    /\ InTime(b)
    /\ CommitRows(AppendEvents(
          MoveEntries(MoveBookings(db, {b}, "confirmed"), {e}, "accepted"),
          "booking_confirmed", {b}))
    /\ UNCHANGED <<now, enabled, active, crashes>>

(* ... and at or after it: HOLD_EXPIRED commits the expiry and promotes. *)
AcceptTooLate(e) ==
    LET b == db.entries[e].booking IN
    /\ ~locked
    /\ db.entries[e].status = "offered" /\ enabled[db.entries[e].user]
    /\ b # NoBooking /\ db.bookings[b].status = "offered"
    /\ ~InTime(b)
    /\ Release(ExpireHolds(db, {b}), db.entries[e].user)
    /\ UNCHANGED <<now, enabled, active, crashes>>

(* DELETE /waitlist/{id}: a waiting entry just leaves, *)
(* Fault: a status the table's CHECK constraint does not know. *)
WithdrawAsDeclined(e) ==
    /\ ~locked
    /\ db.entries[e].status = "waiting" /\ enabled[db.entries[e].user]
    /\ now < db.entries[e].lo
    /\ CommitRows(MoveEntries(db, {e}, "declined"))
    /\ UNCHANGED <<now, enabled, active, crashes>>
Withdraw(e) ==
    /\ ~locked
    /\ db.entries[e].status = "waiting" /\ enabled[db.entries[e].user]
    /\ now < db.entries[e].lo
    /\ CommitRows(MoveEntries(db, {e}, "cancelled"))
    /\ UNCHANGED <<now, enabled, active, crashes>>

(* an offered one gives its hold back, without an event. *)
(* Fault: the hold is given back but nobody is promoted. *)
DeclineOnly(e) ==
    LET B == {b \in BookingIds : b = db.entries[e].booking /\ db.bookings[b].status = "offered"} IN
    /\ ~locked
    /\ db.entries[e].status = "offered" /\ enabled[db.entries[e].user]
    /\ now < db.entries[e].lo
    /\ CommitRows(MoveEntries(MoveBookings(db, B, "cancelled"), {e}, "cancelled"))
    /\ UNCHANGED <<now, enabled, active, crashes>>
Decline(e) ==
    LET B == {b \in BookingIds : b = db.entries[e].booking /\ db.bookings[b].status = "offered"} IN
    /\ ~locked
    /\ db.entries[e].status = "offered" /\ enabled[db.entries[e].user]
    /\ now < db.entries[e].lo
    /\ Release(MoveEntries(MoveBookings(db, B, "cancelled"), {e}, "cancelled"),
               db.entries[e].user)
    /\ UNCHANGED <<now, enabled, active, crashes>>

-----------------------------------------------------------------------------
(* Administrators. *)

(* Admin bookings cancel: until the end, whoever owns the reservation. *)
AdminCancelBooking(b) ==
    /\ ~locked
    /\ db.bookings[b].status \in Occupying /\ db.bookings[b].user # Nobody
    /\ now < db.bookings[b].hi
    /\ ReleaseBooking(b, Nobody)
    /\ UNCHANGED <<now, enabled, active, crashes>>

CreateBlackout(b, lo, hi) ==
    /\ ~locked /\ active
    /\ BlackoutWindow(lo, hi, now)
    /\ db.bookings[b].status = "absent"
    /\ ~Occupied(db, [lo |-> lo, hi |-> hi])
    /\ CommitRows(InsertBooking(db, b,
          [status |-> "confirmed", user |-> Nobody, lo |-> lo, hi |-> hi,
           expires |-> NoTime, version |-> 1]))
    /\ UNCHANGED <<now, enabled, active, crashes>>

CancelBlackout(b) ==
    /\ ~locked
    /\ db.bookings[b].status = "confirmed" /\ db.bookings[b].user = Nobody
    /\ now < db.bookings[b].hi
    /\ Release(MoveBookings(db, {b}, "cancelled"), Nobody)
    /\ UNCHANGED <<now, enabled, active, crashes>>

(* _check_resource_not_in_use *)
(* Fault: an outstanding offer does not count as use. *)
InUseByConfirmed ==
    \/ \E b \in BookingIds : db.bookings[b].status = "confirmed" /\ now < db.bookings[b].hi
    \/ InState(db, EntryIds, {"waiting"}) # {}
InUse ==
    \/ \E b \in BookingIds : db.bookings[b].status \in Occupying /\ now < db.bookings[b].hi
    \/ InState(db, EntryIds, {"waiting"}) # {}

(* archive_resource, and update_resource with active = false *)
Deactivate ==
    /\ ~locked /\ active /\ ~InUse
    /\ active' = FALSE
    /\ UNCHANGED <<now, enabled, db, locked, work, actor, cursor, candidate, crashes>>

(* update_resource with active = true *)
Activate ==
    /\ ~locked /\ ~active
    /\ active' = TRUE
    /\ UNCHANGED <<now, enabled, db, locked, work, actor, cursor, candidate, crashes>>

(* update_user: no resource lock, but it waits for the actor's FOR SHARE. *)
SetEnabled(u) ==
    /\ ~(locked /\ actor = u)
    /\ enabled' = [enabled EXCEPT ![u] = ~@]
    /\ UNCHANGED <<now, active, db, locked, work, actor, cursor, candidate, crashes>>

-----------------------------------------------------------------------------
(* The worker. *)

Overdue == {b \in BookingIds : db.bookings[b].status = "offered" /\ db.bookings[b].expires <= now}

(* What discover_candidate_resources looks for. *)
(* Fault: only waiting entries are discovered. *)
CandidateByWaiter == InState(db, EntryIds, {"waiting"}) # {}
(* Fault: only overdue holds are discovered. *)
CandidateByHold == Overdue # {}
Candidate == Overdue # {} \/ InState(db, EntryIds, {"waiting"}) # {}

(* expire_and_promote: SKIP LOCKED, then every overdue hold at once *)
ExpireAndPromote ==
    /\ ~locked /\ Candidate
    /\ Release(ExpireHolds(db, Overdue), Nobody)
    /\ UNCHANGED <<now, enabled, active, crashes>>

-----------------------------------------------------------------------------
(* promote_waiters, under the lock. *)

(* ORDER BY created_at, id *)
Earlier(x, y) == x[1] < y[1] \/ (x[1] = y[1] /\ x[2] < y[2])

Place(d, e) == <<d.entries[e].created, e>>

(* Fault: the keyset compares created_at alone and loses ties. *)
UnscannedByTime(d, c) ==
    {e \in InState(d, EntryIds, {"waiting"}) : c[1] < d.entries[e].created}
Unscanned(d, c) == {e \in InState(d, EntryIds, {"waiting"}) : Earlier(c, Place(d, e))}

(* Fault: the scan has no ORDER BY. *)
IsNextInAnyOrder(e) == e \in Unscanned(work, cursor)
IsNext(e) ==
    /\ e \in Unscanned(work, cursor)
    /\ \A f \in Unscanned(work, cursor) \ {e} : Earlier(Place(work, e), Place(work, f))

(* The next waiter of the keyset scan: its owner, its start and its window. *)
Examine(e) ==
    LET row == work.entries[e]
        mayOffer == enabled[row.user] /\ now + Lead <= row.lo
        passOver == /\ mayOffer /\ Occupied(work, row)
                    /\ UNCHANGED <<work, candidate>>
        drop     == /\ ~mayOffer
                    /\ work' = MoveEntries(work, {e}, "expired") /\ UNCHANGED candidate
        nominate == /\ mayOffer /\ ~Occupied(work, row)
                    /\ candidate' = e /\ UNCHANGED work
    IN
    /\ locked /\ candidate = NoEntry /\ IsNext(e)
    /\ cursor' = Place(work, e)
    /\ passOver \/ drop \/ nominate
    /\ UNCHANGED <<now, enabled, active, db, locked, actor, crashes>>

OfferExpiry(t, lo) == IF t + Hold > lo THEN lo ELSE t + Hold

(* The savepoint: hold, entry and event, dated by a clock sample of its own. *)
Offer(b) ==
    LET e == candidate
        row == work.entries[e]
        hold == [status |-> "offered", user |-> row.user, lo |-> row.lo, hi |-> row.hi,
                 expires |-> OfferExpiry(now, row.lo), version |-> 1]
        link == [row EXCEPT !.status = "offered", !.booking = b, !.version = row.version + 1]
    IN
    /\ locked /\ candidate # NoEntry
    /\ work.bookings[b].status = "absent"
    /\ work' = AppendEvents(InsertEntry(InsertBooking(work, b, hold), e, link),
                            "waitlist_offered", {b})
    /\ candidate' = NoEntry
    /\ UNCHANGED <<now, enabled, active, db, locked, actor, cursor, crashes>>

Finished == locked /\ candidate = NoEntry /\ Unscanned(work, cursor) = {}

Commit ==
    /\ Finished
    /\ db' = work /\ locked' = FALSE /\ actor' = Nobody /\ cursor' = NoCursor
    /\ UNCHANGED <<now, enabled, active, work, candidate, crashes>>

(* The process, the connection or a timeout ends the transaction: rollback. *)
Crash ==
    /\ locked /\ crashes < MaxCrashes
    /\ work' = db /\ locked' = FALSE /\ actor' = Nobody
    /\ cursor' = NoCursor /\ candidate' = NoEntry
    /\ crashes' = crashes + 1
    /\ UNCHANGED <<now, enabled, active, db>>

Tick ==
    /\ now < LastTick
    /\ now' = now + 1
    /\ UNCHANGED <<enabled, active, db, locked, work, actor, cursor, candidate, crashes>>

-----------------------------------------------------------------------------
Init ==
    /\ now = 0
    /\ enabled = [u \in Users |-> TRUE]
    /\ active = TRUE
    /\ db = NoRows /\ work = NoRows
    /\ locked = FALSE /\ actor = Nobody /\ cursor = NoCursor /\ candidate = NoEntry
    /\ crashes = 0

(* BOUND: every waiter keeps an id for its offer. *)
SpareId ==
    Cardinality({b \in BookingIds : db.bookings[b].status = "absent"})
        > Cardinality(InState(db, EntryIds, {"waiting"}))

Members ==
    \/ SpareId /\ \E u \in Users, b \in BookingIds, lo, hi \in Times : CreateBooking(u, b, lo, hi)
    \/ SpareId /\ \E u \in Users, e \in EntryIds, lo, hi \in Times : JoinWaitlist(u, e, lo, hi)
    \/ \E b \in BookingIds : CancelBooking(b)
    \/ \E e \in EntryIds : AcceptOffer(e) \/ AcceptTooLate(e) \/ Withdraw(e) \/ Decline(e)

Administrators ==
    \/ \E b \in BookingIds : AdminCancelBooking(b) \/ CancelBlackout(b)
    \/ SpareId /\ \E b \in BookingIds, lo, hi \in Times : CreateBlackout(b, lo, hi)
    \/ Deactivate
    \/ Activate
    \/ \E u \in Managed : SetEnabled(u)

PromoteWaiters ==
    \/ \E e \in EntryIds : Examine(e)
    \/ \E b \in BookingIds : Offer(b)
    \/ Commit

Next == Members \/ Administrators \/ ExpireAndPromote \/ PromoteWaiters \/ Crash \/ Tick

Spec == Init /\ [][Next]_vars

(* The clock runs, a statement of an open transaction returns, and the worker *)
(* visits a candidate resource again and again.                              *)
Fairness == WF_vars(Tick) /\ WF_vars(PromoteWaiters) /\ WF_vars(ExpireAndPromote)

FairSpec == Spec /\ Fairness
-----------------------------------------------------------------------------
(* Invariants of the committed rows, each stated for any rows d. *)

TypeOK ==
    /\ now \in 0..LastTick /\ crashes \in 0..MaxCrashes
    /\ enabled \in [Users -> BOOLEAN] /\ active \in BOOLEAN
    /\ db \in Rows /\ work \in Rows
    /\ locked \in BOOLEAN /\ actor \in Users \cup {Nobody}
    /\ cursor \in Int \X Nat /\ candidate \in EntryIds \cup {NoEntry}

Disjoint(d) ==
    \A b, c \in BookingIds :
        /\ b # c
        /\ d.bookings[b].status \in Occupying /\ d.bookings[c].status \in Occupying
        => ~Overlap(d.bookings[b], d.bookings[c])

(* Two active bookings or blackouts of a resource never overlap, whatever the *)
(* creates, promotions, acceptances and cancellations that led to them.       *)
NoOverlap == Disjoint(db)

AllBlocked(d) == \A e \in InState(d, EntryIds, {"waiting"}) : Occupied(d, d.entries[e])

(* No waiter is left stranded: whoever waits is blocked by an active booking. *)
(* Every path that releases a window (cancel, decline, expiry by the worker   *)
(* or by a late accept, blackout cancel) must promote before it commits.      *)
NoStrandedWaiter == AllBlocked(db)

(* Where the booking offered to an entry may be, by the state of the entry: *)
(* an accepted booking may be cancelled later, the entry does not follow.    *)
Partner == [waiting |-> {}, offered |-> {"offered"}, accepted |-> {"confirmed", "cancelled"},
            cancelled |-> {"cancelled"}, expired |-> {"expired"}, absent |-> {}]

LinkOK(d, e) ==
    LET row == d.entries[e]
        hold == d.bookings[row.booking]
    IN  IF row.booking = NoBooking
        THEN row.status \notin {"offered", "accepted"}
        ELSE /\ hold.status \in Partner[row.status]
             /\ hold.user = row.user /\ hold.lo = row.lo /\ hold.hi = row.hi

LinksOK(d) ==
    /\ \A e \in EntryIds : LinkOK(d, e)
    /\ \A e, f \in EntryIds : d.entries[e].booking = d.entries[f].booking
                              => e = f \/ d.entries[e].booking = NoBooking
    /\ \A b \in BookingIds : d.bookings[b].status = "offered" => Linked(d, {b}) # {}

(* A hold and the entry it was offered to move together: each hold belongs to *)
(* one entry of the same user and window, and no operation changes one side   *)
(* alone.                                                                     *)
OfferLinked == LinksOK(db)

(* A hold ends by the start of its window and at most 15 minutes from now. *)
HoldDeadline ==
    \A b \in BookingIds : db.bookings[b].status = "offered" =>
        db.bookings[b].expires <= db.bookings[b].lo /\ db.bookings[b].expires <= now + Hold

LastEvent(d, b, type) ==
    [type |-> type, booking |-> b, version |-> d.bookings[b].version] \in d.events

Declined(d, b) == \E e \in Linked(d, {b}) : d.entries[e].status = "cancelled"

TrailOK(d, b) ==
    LET s == d.bookings[b].status IN
    IF d.bookings[b].user = Nobody THEN \A v \in d.events : v.booking # b
    ELSE /\ s = "confirmed" => LastEvent(d, b, "booking_confirmed")
         /\ s = "offered" => LastEvent(d, b, "waitlist_offered")
         /\ s = "expired" => LastEvent(d, b, "hold_expired")
         /\ s = "cancelled" => LastEvent(d, b, "booking_cancelled") \/ Declined(d, b)
         /\ \A v \in d.events : v.booking = b => v.version \in 1..d.bookings[b].version
         /\ \A v, w \in d.events : v.booking = b /\ w.booking = b /\ v.version = w.version
                                    => v = w

(* The outbox tells the story of every reservation: one event per version,   *)
(* the last one matching its state, and none for a blackout.  The one silent  *)
(* transition is the decline of an offer.                                     *)
EventTrail == \A b \in BookingIds : TrailOK(db, b)

(* One active entry per user and window, and never more than the cap, even *)
(* though promotion turns waiting entries into offered ones.                *)
MembershipBounded ==
    /\ Cardinality(InState(db, EntryIds, Queued)) <= MaxActive
    /\ \A e, f \in InState(db, EntryIds, Queued) :
          /\ db.entries[e].user = db.entries[f].user
          /\ db.entries[e].lo = db.entries[f].lo /\ db.entries[e].hi = db.entries[f].hi
          => e = f

(* An archived resource has nobody waiting and nothing booked from now on, *)
(* though creates and joins race with the archive.                          *)
ArchivedIsQuiet ==
    ~active => /\ InState(db, EntryIds, {"waiting"}) = {}
               /\ \A b \in BookingIds : db.bookings[b].status \in Occupying => db.bookings[b].hi <= now

-----------------------------------------------------------------------------
(* The inductive invariant behind NoOverlap and NoStrandedWaiter. *)

(* A transaction that promotes has passed every waiter behind its cursor: the *)
(* ones still waiting there are blocked, except the one it is about to offer, *)
(* whose window is free in its own rows.                                      *)
ScanOK ==
    /\ \A e \in InState(work, EntryIds, {"waiting"}) :
          \/ e \in Unscanned(work, cursor)
          \/ e = candidate
          \/ Occupied(work, work.entries[e])
    /\ candidate # NoEntry =>
          /\ work.entries[candidate].status = "waiting"
          /\ ~Occupied(work, work.entries[candidate])

(* Between transactions the working rows are the committed ones and the scan *)
(* is at its start; inside one, ScanOK says what a commit may rely on.        *)
IInv ==
    /\ TypeOK
    /\ NoOverlap /\ Disjoint(work)
    /\ NoStrandedWaiter
    /\ ~locked => work = db /\ cursor = NoCursor /\ candidate = NoEntry
    /\ locked => ScanOK

-----------------------------------------------------------------------------
(* Action properties. *)

BecomesConfirmed(b) == db.bookings[b].status # "confirmed" /\ db'.bookings[b].status = "confirmed"

(* Nobody gets a reservation whose window has started: not by a create that *)
(* waited for the resource lock after its clock sample, nor by accepting a   *)
(* hold at its deadline.                                                     *)
ConfirmedInTime ==
    [][\A b \in BookingIds :
        BecomesConfirmed(b) /\ db'.bookings[b].user # Nobody => now < db'.bookings[b].lo]_vars

BecomesOffered(e) == db.entries[e].status = "waiting" /\ db'.entries[e].status = "offered"

(* FIFO per window: when a waiter gets an offer, nobody who joined before it *)
(* and asked for that window or a part of it is still waiting.                *)
FirstComeFirstServed ==
    [][\A e, f \in EntryIds :
        /\ BecomesOffered(e)
        /\ db.entries[f].status = "waiting"
        /\ db.entries[e].lo <= db.entries[f].lo /\ db.entries[f].hi <= db.entries[e].hi
        /\ \/ db.entries[f].created < db.entries[e].created
           \/ db.entries[f].created = db.entries[e].created /\ f < e
        => db'.entries[f].status # "waiting"]_vars

(* The transitions guard_booking_update accepts, and the waitlist life cycle. *)
BookingMoves == {<<"offered", "confirmed">>, <<"offered", "cancelled">>, <<"offered", "expired">>,
                 <<"confirmed", "cancelled">>, <<"absent", "confirmed">>, <<"absent", "offered">>}
EntryMoves == {<<"waiting", "offered">>, <<"waiting", "cancelled">>, <<"waiting", "expired">>,
               <<"offered", "accepted">>, <<"offered", "cancelled">>, <<"offered", "expired">>,
               <<"absent", "waiting">>}

Moved(old, new, moves) ==
    \/ new = old
    \/ /\ <<old.status, new.status>> \in moves /\ new.version = old.version + 1
       /\ \/ old.status = "absent"
          \/ new.user = old.user /\ new.lo = old.lo /\ new.hi = old.hi

(* A transaction takes a row one legal step further or leaves it alone: the *)
(* trigger never fires on a statement of the application, no entry is       *)
(* requeued, and no row is written twice by one release and its promotions. *)
RowsMoveLegally ==
    [][/\ \A b \in BookingIds : Moved(db.bookings[b], db'.bookings[b], BookingMoves)
       /\ \A e \in EntryIds : Moved(db.entries[e], db'.entries[e], EntryMoves)]_vars

-----------------------------------------------------------------------------
(* Liveness. *)

IsOverdue(b) == db.bookings[b].status = "offered" /\ db.bookings[b].expires <= now

(* An overdue hold is given up, though the worker skips a locked resource and *)
(* its transactions may die.                                                   *)
OverdueHoldsEnd == \A b \in BookingIds : IsOverdue(b) ~> ~IsOverdue(b)

(* Nobody waits for ever: an offer comes, or the waiter's time runs out. *)
WaitingEnds ==
    \A e \in EntryIds : db.entries[e].status = "waiting" ~> db.entries[e].status # "waiting"
-----------------------------------------------------------------------------
(* Refinement. *)

Held == {[lo |-> db.bookings[b].lo, hi |-> db.bookings[b].hi] :
            b \in {c \in BookingIds : db.bookings[c].status \in Occupying}}

Queue == {[id |-> e, lo |-> db.entries[e].lo, hi |-> db.entries[e].hi,
           created |-> db.entries[e].created] : e \in InState(db, EntryIds, {"waiting"})}

Promise == INSTANCE WaitlistPromise WITH held <- Held, queue <- Queue

(* The transactions keep the promise: to a reader of committed rows, every  *)
(* release serves the queue in the same instant, in order, and no window is *)
(* held twice.                                                              *)
KeepsPromise == Promise!Spec
=============================================================================
