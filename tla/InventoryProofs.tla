-------------------------- MODULE InventoryProofs --------------------------
(***************************************************************************)
(* Proofs about Inventory, for any users, ids, window rules and bounds.    *)
(*                                                                         *)
(* First what each write does to the rows, then that every action keeps    *)
(* the rows well formed, then the inductive invariants:                    *)
(*                                                                         *)
(*   IInv      no two reservations overlap, nobody is stranded.            *)
(*   HoldsOK   each hold and the waitlist entry it was offered to move     *)
(*             together, and no hold outlives its window.  These are facts *)
(*             about one set of rows, committed or a release's.            *)
(*   Progress  how the rows of an open release relate to the committed     *)
(*             ones: whom it serves and whom it may still serve.           *)
(*   Steady    a release has moved each row by one legal step or not at    *)
(*             all, and confirmed and queued nobody.                       *)
(*   Told      each write that moves a reservation appends its event.      *)
(*                                                                         *)
(* Each of the later four is an invariant given the ones before it.        *)
(***************************************************************************)
EXTENDS Inventory, FiniteSetTheorems, TLAPS

-----------------------------------------------------------------------------
(* What the writes do. *)

(* A row set is a record of two tables and the outbox. *)
LEMMA RowsParts ==
    ASSUME NEW d, d \in Rows
    PROVE  /\ d.bookings \in [BookingIds -> BookingRow]
           /\ d.entries \in [EntryIds -> EntryRow]
           /\ d.events \in SUBSET Event
           /\ d = [bookings |-> d.bookings, entries |-> d.entries, events |-> d.events]
  BY DEF Rows

(* A row keeps its owner and its window when its status moves. *)
LEMMA RowsInState ==
    /\ \A row \in BookingRow, s \in BookingStatus :
          LET m == BookingInState(row, s) IN
          /\ m \in BookingRow /\ m.status = s
          /\ m.user = row.user /\ m.lo = row.lo /\ m.hi = row.hi
    /\ \A row \in EntryRow, s \in EntryStatus :
          LET m == EntryInState(row, s) IN
          /\ m \in EntryRow /\ m.status = s /\ m.created = row.created
          /\ m.user = row.user /\ m.lo = row.lo /\ m.hi = row.hi /\ m.booking = row.booking
<1>1. ASSUME NEW row \in BookingRow, NEW s \in BookingStatus
      PROVE  LET m == BookingInState(row, s) IN
             /\ m \in BookingRow /\ m.status = s
             /\ m.user = row.user /\ m.lo = row.lo /\ m.hi = row.hi
  <2>1. [row EXCEPT !.status = s] \in BookingRow
    BY DEF BookingRow
  <2>2. [[row EXCEPT !.status = s] EXCEPT !.expires = NoTime] \in BookingRow
    BY <2>1 DEF BookingRow
  <2>3. row.version + 1 \in Nat
    BY DEF BookingRow
  <2>4. BookingInState(row, s) \in BookingRow
    BY <2>2, <2>3 DEF BookingInState, BookingRow
  <2>5. QED
    BY <2>4 DEF BookingInState, BookingRow
<1>2. ASSUME NEW row \in EntryRow, NEW s \in EntryStatus
      PROVE  LET m == EntryInState(row, s) IN
             /\ m \in EntryRow /\ m.status = s /\ m.created = row.created
             /\ m.user = row.user /\ m.lo = row.lo /\ m.hi = row.hi /\ m.booking = row.booking
  <2>1. [row EXCEPT !.status = s] \in EntryRow
    BY DEF EntryRow
  <2>2. row.version + 1 \in Nat
    BY DEF EntryRow
  <2>3. EntryInState(row, s) \in EntryRow
    BY <2>1, <2>2 DEF EntryInState, EntryRow
  <2>4. QED
    BY <2>3 DEF EntryInState, EntryRow
<1>3. QED
  BY <1>1, <1>2

(* MoveBookings changes the status of the given bookings, no window, no entry. *)
LEMMA MoveBookingsRows ==
    ASSUME NEW d, d \in Rows, NEW B, NEW s \in BookingStatus
    PROVE  LET m == MoveBookings(d, B, s) IN
           /\ m \in Rows
           /\ m.entries = d.entries /\ m.events = d.events
           /\ \A b \in BookingIds :
                /\ m.bookings[b].lo = d.bookings[b].lo /\ m.bookings[b].hi = d.bookings[b].hi
                /\ m.bookings[b].user = d.bookings[b].user
                /\ m.bookings[b].status = IF b \in B THEN s ELSE d.bookings[b].status
<1> DEFINE moved == [b \in BookingIds |-> IF b \in B THEN BookingInState(d.bookings[b], s)
                                                     ELSE d.bookings[b]]
<1>1. moved \in [BookingIds -> BookingRow]
  BY RowsParts, RowsInState
<1>2. MoveBookings(d, B, s) = [bookings |-> moved, entries |-> d.entries, events |-> d.events]
  BY RowsParts DEF MoveBookings
<1>3. MoveBookings(d, B, s) \in Rows
  BY <1>1, <1>2, RowsParts DEF Rows
<1>4. \A b \in BookingIds :
        moved[b] = IF b \in B THEN BookingInState(d.bookings[b], s) ELSE d.bookings[b]
  OBVIOUS
<1> HIDE DEF moved
<1>5. QED
  BY <1>2, <1>3, <1>4, RowsParts, RowsInState

(* MoveEntries changes the status of the given entries, no window, no booking. *)
LEMMA MoveEntriesRows ==
    ASSUME NEW d, d \in Rows, NEW E, NEW s \in EntryStatus
    PROVE  LET m == MoveEntries(d, E, s) IN
           /\ m \in Rows
           /\ m.bookings = d.bookings /\ m.events = d.events
           /\ \A e \in EntryIds :
                /\ m.entries[e].lo = d.entries[e].lo /\ m.entries[e].hi = d.entries[e].hi
                /\ m.entries[e].user = d.entries[e].user
                /\ m.entries[e].created = d.entries[e].created
                /\ m.entries[e].booking = d.entries[e].booking
                /\ m.entries[e].status = IF e \in E THEN s ELSE d.entries[e].status
<1> DEFINE moved == [e \in EntryIds |-> IF e \in E THEN EntryInState(d.entries[e], s)
                                                   ELSE d.entries[e]]
<1>1. moved \in [EntryIds -> EntryRow]
  BY RowsParts, RowsInState
<1>2. MoveEntries(d, E, s) = [bookings |-> d.bookings, entries |-> moved, events |-> d.events]
  BY RowsParts DEF MoveEntries
<1>3. MoveEntries(d, E, s) \in Rows
  BY <1>1, <1>2, RowsParts DEF Rows
<1>4. \A e \in EntryIds :
        moved[e] = IF e \in E THEN EntryInState(d.entries[e], s) ELSE d.entries[e]
  OBVIOUS
<1> HIDE DEF moved
<1>5. QED
  BY <1>2, <1>3, <1>4, RowsParts, RowsInState

(* append_event touches the outbox only. *)
LEMMA AppendEventsRows ==
    ASSUME NEW d, d \in Rows, NEW B, B \subseteq BookingIds, NEW type \in EventTypes
    PROVE  LET m == AppendEvents(d, type, B) IN
           m \in Rows /\ m.bookings = d.bookings /\ m.entries = d.entries
  BY RowsParts DEF AppendEvents, Rows, BookingRow, Event

(* An insert writes one row. *)
LEMMA InsertRows ==
    ASSUME NEW d, d \in Rows
    PROVE  /\ \A b \in BookingIds, row \in BookingRow :
                LET m == InsertBooking(d, b, row) IN
                /\ m \in Rows /\ m.entries = d.entries /\ m.events = d.events
                /\ m.bookings[b] = row
                /\ \A c \in BookingIds \ {b} : m.bookings[c] = d.bookings[c]
           /\ \A e \in EntryIds, row \in EntryRow :
                LET m == InsertEntry(d, e, row) IN
                /\ m \in Rows /\ m.bookings = d.bookings /\ m.events = d.events
                /\ m.entries[e] = row
                /\ \A f \in EntryIds \ {e} : m.entries[f] = d.entries[f]
  BY RowsParts DEF InsertBooking, InsertEntry, Rows
-----------------------------------------------------------------------------
(* Windows held and windows free. *)

(* Rows where no more bookings are active, at the same windows, stay disjoint. *)
LEMMA FewerStayDisjoint ==
    ASSUME NEW d, NEW m, Disjoint(d),
           \A b \in BookingIds :
             /\ m.bookings[b].status \in Occupying => d.bookings[b].status \in Occupying
             /\ m.bookings[b].lo = d.bookings[b].lo /\ m.bookings[b].hi = d.bookings[b].hi
    PROVE  Disjoint(m)
  BY DEF Disjoint, Overlap

(* A window stays occupied while the bookings that are active stay active. *)
LEMMA MoreOccupy ==
    ASSUME NEW d, NEW m, NEW w, Occupied(d, w),
           \A b \in BookingIds : d.bookings[b].status \in Occupying =>
             /\ m.bookings[b].status \in Occupying
             /\ m.bookings[b].lo = d.bookings[b].lo /\ m.bookings[b].hi = d.bookings[b].hi
    PROVE  Occupied(m, w)
  BY DEF Occupied, Overlap

(* A booking inserted into a free window keeps the rows disjoint and what was *)
(* occupied occupied.                                                          *)
LEMMA InsertStaysDisjoint ==
    ASSUME NEW d, d \in Rows, Disjoint(d), NEW b \in BookingIds, NEW row \in BookingRow,
           d.bookings[b].status = "absent", ~Occupied(d, row)
    PROVE  /\ Disjoint(InsertBooking(d, b, row))
           /\ \A w : Occupied(d, w) => Occupied(InsertBooking(d, b, row), w)
<1> DEFINE m == InsertBooking(d, b, row)
<1>1. m.bookings[b] = row /\ \A c \in BookingIds \ {b} : m.bookings[c] = d.bookings[c]
  BY InsertRows
<1>2. \A c \in BookingIds \ {b} : d.bookings[c].status \in Occupying => ~Overlap(row, d.bookings[c])
  BY DEF Occupied, Overlap
<1>3. d.bookings[b].status \notin Occupying
  BY DEF Occupying
<1> HIDE DEF m
<1>4. Disjoint(m)
  BY <1>1, <1>2 DEF Disjoint, Overlap
<1>5. ASSUME NEW w, Occupied(d, w) PROVE Occupied(m, w)
  BY <1>1, <1>3, <1>5 DEF Occupied
<1>6. QED
  BY <1>4, <1>5 DEF m

(* Occupied looks at a window's bounds only. *)
LEMMA OccupiedByBounds ==
    ASSUME NEW d, NEW v, NEW w, v.lo = w.lo, v.hi = w.hi
    PROVE  Occupied(d, v) <=> Occupied(d, w)
  BY DEF Occupied, Overlap

(* Fewer waiters for windows that are still occupied are still all blocked. *)
LEMMA FewerStayBlocked ==
    ASSUME NEW d, NEW m, AllBlocked(d),
           \A w : Occupied(d, w) => Occupied(m, w),
           \A f \in EntryIds : m.entries[f].lo = d.entries[f].lo /\ m.entries[f].hi = d.entries[f].hi,
           \A f \in EntryIds : m.entries[f].status = "waiting" => d.entries[f].status = "waiting"
    PROVE  AllBlocked(m)
<1>1. SUFFICES ASSUME NEW e \in InState(m, EntryIds, {"waiting"})
               PROVE  Occupied(m, m.entries[e])
  BY DEF AllBlocked
<1>2. e \in InState(d, EntryIds, {"waiting"})
  BY DEF InState
<1>3. Occupied(m, d.entries[e])
  BY <1>2 DEF AllBlocked
<1>4. m.entries[e].lo = d.entries[e].lo /\ m.entries[e].hi = d.entries[e].hi
  BY <1>2 DEF InState
<1>5. QED
  BY <1>3, <1>4, OccupiedByBounds

(* A hold never outlives the start of its window. *)
LEMMA OfferExpiryBound ==
    ASSUME NEW t \in Nat, NEW lo \in Times
    PROVE  OfferExpiry(t, lo) \in Times /\ OfferExpiry(t, lo) <= lo
                /\ OfferExpiry(t, lo) <= t + Hold
  BY ConstantsAssumption DEF OfferExpiry, Times

-----------------------------------------------------------------------------
(* The two shapes of a transaction preserve the inductive invariant. *)

(* A single committed write. *)
LEMMA CommitRowsKeepsIInv ==
    ASSUME IInv, ~locked, NEW d, d \in Rows, Disjoint(d), AllBlocked(d), CommitRows(d),
           UNCHANGED <<now, enabled, active, crashes>>
    PROVE  IInv'
<1>1. TypeOK'
  BY DEF IInv, TypeOK, CommitRows
<1>2. QED
  BY <1>1 DEF IInv, CommitRows, NoOverlap, NoStrandedWaiter, AllBlocked, Disjoint, InState, Occupied

(* A release: whoever waits is still ahead of the cursor. *)
LEMMA ReleaseKeepsIInv ==
    ASSUME IInv, ~locked, NEW d, d \in Rows, Disjoint(d), NEW u \in Users \cup {Nobody},
           Release(d, u), UNCHANGED <<now, enabled, active, crashes>>
    PROVE  IInv'
<1>1. TypeOK'
  BY DEF IInv, TypeOK, Release
<1>2. \A e \in InState(d, EntryIds, {"waiting"}) : e \in Unscanned(d, NoCursor)
  <2>1. TAKE e \in InState(d, EntryIds, {"waiting"})
  <2>2. e \in EntryIds /\ d.entries[e].created \in Nat
    BY RowsParts DEF InState, EntryRow
  <2>3. Earlier(NoCursor, Place(d, e))
    BY <2>2 DEF Earlier, NoCursor, Place
  <2>4. QED
    BY <2>3 DEF Unscanned
<1>3. cursor' = NoCursor /\ candidate' = NoEntry /\ work' = d /\ locked' /\ db' = db
  BY DEF IInv, Release
<1>4. ScanOK'
  BY <1>2, <1>3 DEF ScanOK, InState, Unscanned, Earlier, Place
<1>5. QED
  BY <1>1, <1>3, <1>4
     DEF IInv, NoOverlap, NoStrandedWaiter, AllBlocked, Disjoint, InState, Occupied
-----------------------------------------------------------------------------
(* One lemma per transaction. *)

(* insert_confirmed *)
LEMMA CreateBookingStep ==
    ASSUME IInv, NEW u \in Users, NEW b \in BookingIds, NEW lo \in Times, NEW hi \in Times,
           CreateBooking(u, b, lo, hi)
    PROVE  IInv'
<1> DEFINE row == [status |-> "confirmed", user |-> u, lo |-> lo, hi |-> hi,
                   expires |-> NoTime, version |-> 1]
           i == InsertBooking(db, b, row)
           m == AppendEvents(i, "booking_confirmed", {b})
<1>1. db \in Rows /\ Disjoint(db) /\ AllBlocked(db) /\ ~locked
  BY DEF IInv, TypeOK, NoOverlap, NoStrandedWaiter, CreateBooking
<1>2. row \in BookingRow
  BY DEF BookingRow, BookingStatus
<1>3. i \in Rows /\ i.entries = db.entries
  BY <1>1, <1>2, InsertRows
<1>4. m \in Rows /\ m.bookings = i.bookings /\ m.entries = i.entries
  BY <1>3, AppendEventsRows DEF EventTypes
<1>5. ~Occupied(db, row)
  BY OccupiedByBounds DEF CreateBooking
<1>6. Disjoint(i) /\ \A w : Occupied(db, w) => Occupied(i, w)
  BY <1>1, <1>2, <1>5, InsertStaysDisjoint DEF CreateBooking
<1>7. CommitRows(m) /\ UNCHANGED <<now, enabled, active, crashes>>
  BY DEF CreateBooking
<1> HIDE DEF row, i, m
<1>8. Disjoint(m)
  BY <1>4, <1>6 DEF Disjoint
<1>9. AllBlocked(m)
  BY <1>1, <1>3, <1>4, <1>6 DEF AllBlocked, InState, Occupied
<1>10. QED
  BY <1>1, <1>4, <1>7, <1>8, <1>9, CommitRowsKeepsIInv

(* create_blackout *)
LEMMA CreateBlackoutStep ==
    ASSUME IInv, NEW b \in BookingIds, NEW lo \in Times, NEW hi \in Times,
           CreateBlackout(b, lo, hi)
    PROVE  IInv'
<1> DEFINE row == [status |-> "confirmed", user |-> Nobody, lo |-> lo, hi |-> hi,
                   expires |-> NoTime, version |-> 1]
           m == InsertBooking(db, b, row)
<1>1. db \in Rows /\ Disjoint(db) /\ AllBlocked(db) /\ ~locked
  BY DEF IInv, TypeOK, NoOverlap, NoStrandedWaiter, CreateBlackout
<1>2. row \in BookingRow
  BY DEF BookingRow, BookingStatus
<1>3. m \in Rows /\ m.entries = db.entries
  BY <1>1, <1>2, InsertRows
<1>4. ~Occupied(db, row)
  BY OccupiedByBounds DEF CreateBlackout
<1>5. Disjoint(m) /\ \A w : Occupied(db, w) => Occupied(m, w)
  BY <1>1, <1>2, <1>4, InsertStaysDisjoint DEF CreateBlackout
<1>6. CommitRows(m) /\ UNCHANGED <<now, enabled, active, crashes>>
  BY DEF CreateBlackout
<1> HIDE DEF row, m
<1>7. AllBlocked(m)
  BY <1>1, <1>3, <1>5 DEF AllBlocked, InState
<1>8. QED
  BY <1>1, <1>3, <1>5, <1>6, <1>7, CommitRowsKeepsIInv

(* join_waitlist: only a blocked window gets a waiter. *)
LEMMA JoinWaitlistStep ==
    ASSUME IInv, NEW u \in Users, NEW e \in EntryIds, NEW lo \in Times, NEW hi \in Times,
           JoinWaitlist(u, e, lo, hi)
    PROVE  IInv'
<1>1. db \in Rows /\ Disjoint(db) /\ AllBlocked(db) /\ ~locked /\ now \in Nat
  BY DEF IInv, TypeOK, NoOverlap, NoStrandedWaiter, JoinWaitlist
<1>2. PICK begun \in Samples :
        CommitRows(InsertEntry(db, e,
          [status |-> "waiting", user |-> u, lo |-> lo, hi |-> hi,
           created |-> begun, booking |-> NoBooking, version |-> 1]))
  BY DEF JoinWaitlist
<1> DEFINE row == [status |-> "waiting", user |-> u, lo |-> lo, hi |-> hi,
                   created |-> begun, booking |-> NoBooking, version |-> 1]
           m == InsertEntry(db, e, row)
<1>3. row \in EntryRow
  BY <1>1 DEF EntryRow, EntryStatus, Samples
<1>4. /\ m \in Rows /\ m.bookings = db.bookings
      /\ m.entries[e] = row /\ \A f \in EntryIds \ {e} : m.entries[f] = db.entries[f]
  BY <1>1, <1>3, InsertRows
<1>5. Occupied(db, row)
  BY OccupiedByBounds DEF JoinWaitlist
<1>6. CommitRows(m) /\ UNCHANGED <<now, enabled, active, crashes>>
  BY <1>2 DEF JoinWaitlist
<1> HIDE DEF row, m
<1>7. Disjoint(m)
  BY <1>1, <1>4 DEF Disjoint
<1>8. AllBlocked(m)
  BY <1>1, <1>4, <1>5 DEF AllBlocked, InState, Occupied
<1>9. QED
  BY <1>1, <1>4, <1>6, <1>7, <1>8, CommitRowsKeepsIInv

(* cancel_booking: one booking fewer, the entries it takes along, an event. *)
LEMMA ReleaseBookingStep ==
    ASSUME IInv, ~locked, NEW b \in BookingIds, NEW u \in Users \cup {Nobody},
           ReleaseBooking(b, u), UNCHANGED <<now, enabled, active, crashes>>
    PROVE  IInv'
<1> DEFINE i == MoveBookings(db, {b}, "cancelled")
           E == Linked(db, {b}) \cap InState(db, EntryIds, {"offered"})
           j == MoveEntries(i, E, "cancelled")
           m == AppendEvents(j, "booking_cancelled", {b})
<1>1. db \in Rows /\ Disjoint(db)
  BY DEF IInv, TypeOK, NoOverlap
<1>2. i \in Rows
  BY <1>1, MoveBookingsRows DEF BookingStatus
<1>3. Disjoint(i)
  BY <1>1, MoveBookingsRows, FewerStayDisjoint DEF BookingStatus, Occupying
<1>4. j \in Rows /\ j.bookings = i.bookings
  BY <1>2, MoveEntriesRows DEF EntryStatus
<1>5. m \in Rows /\ m.bookings = j.bookings
  BY <1>4, AppendEventsRows DEF EventTypes
<1>6. Release(m, u)
  BY DEF ReleaseBooking
<1> HIDE DEF i, j, m
<1>7. Disjoint(m)
  BY <1>3, <1>4, <1>5 DEF Disjoint
<1>8. QED
  BY <1>5, <1>6, <1>7, ReleaseKeepsIInv

(* Expiring holds, by the worker or by a late accept. *)
LEMMA ExpireHoldsStep ==
    ASSUME IInv, ~locked, NEW B, B \subseteq BookingIds, NEW u \in Users \cup {Nobody},
           Release(ExpireHolds(db, B), u), UNCHANGED <<now, enabled, active, crashes>>
    PROVE  IInv'
<1> DEFINE i == MoveEntries(db, Linked(db, B), "expired")
           j == MoveBookings(i, B, "expired")
           m == AppendEvents(j, "hold_expired", B)
<1>1. db \in Rows /\ Disjoint(db)
  BY DEF IInv, TypeOK, NoOverlap
<1>2. i \in Rows /\ i.bookings = db.bookings
  BY <1>1, MoveEntriesRows DEF EntryStatus
<1>3. Disjoint(i)
  BY <1>1, <1>2 DEF Disjoint
<1>4. j \in Rows /\ Disjoint(j)
  <2> HIDE DEF i
  <2>1. QED
    BY <1>2, <1>3, MoveBookingsRows, FewerStayDisjoint DEF BookingStatus, Occupying
<1>5. m \in Rows /\ m.bookings = j.bookings
  BY <1>4, AppendEventsRows DEF EventTypes
<1>6. Release(m, u)
  BY DEF ExpireHolds
<1> HIDE DEF i, j, m
<1>7. Disjoint(m)
  BY <1>4, <1>5 DEF Disjoint
<1>8. QED
  BY <1>5, <1>6, <1>7, ReleaseKeepsIInv

(* accept_offer in time: the hold turns into a reservation where it stands. *)
LEMMA AcceptOfferStep ==
    ASSUME IInv, NEW e \in EntryIds, AcceptOffer(e)
    PROVE  IInv'
<1> DEFINE b == db.entries[e].booking
           i == MoveBookings(db, {b}, "confirmed")
           j == MoveEntries(i, {e}, "accepted")
           m == AppendEvents(j, "booking_confirmed", {b})
<1>1. db \in Rows /\ Disjoint(db) /\ AllBlocked(db) /\ ~locked
  BY DEF IInv, TypeOK, NoOverlap, NoStrandedWaiter, AcceptOffer
<1>2. b \in BookingIds /\ db.bookings[b].status = "offered"
  BY <1>1, RowsParts DEF AcceptOffer, EntryRow
<1>3. CommitRows(m) /\ UNCHANGED <<now, enabled, active, crashes>>
  BY DEF AcceptOffer
<1> HIDE DEF b
<1>4. /\ i \in Rows /\ i.entries = db.entries
      /\ \A c \in BookingIds :
           /\ i.bookings[c].status \in Occupying <=> db.bookings[c].status \in Occupying
           /\ i.bookings[c].lo = db.bookings[c].lo /\ i.bookings[c].hi = db.bookings[c].hi
  BY <1>1, <1>2, MoveBookingsRows DEF BookingStatus, Occupying
<1> HIDE DEF i
<1>5. Disjoint(i) /\ \A w : Occupied(db, w) => Occupied(i, w)
  BY <1>1, <1>4, FewerStayDisjoint, MoreOccupy
<1>6. /\ j \in Rows /\ j.bookings = i.bookings
      /\ \A f \in EntryIds : /\ j.entries[f].lo = db.entries[f].lo
                             /\ j.entries[f].hi = db.entries[f].hi
                             /\ j.entries[f].status = "waiting" => db.entries[f].status = "waiting"
  BY <1>4, MoveEntriesRows DEF EntryStatus
<1>7. m \in Rows /\ m.bookings = j.bookings /\ m.entries = j.entries
  BY <1>2, <1>6, AppendEventsRows DEF EventTypes
<1> HIDE DEF j, m
<1>8. Disjoint(m)
  BY <1>5, <1>6, <1>7 DEF Disjoint
<1>9. AllBlocked(m)
  <2>1. \A w : Occupied(db, w) => Occupied(m, w)
    BY <1>5, <1>6, <1>7 DEF Occupied
  <2>2. \A f \in EntryIds : m.entries[f].lo = db.entries[f].lo /\ m.entries[f].hi = db.entries[f].hi
    BY <1>6, <1>7
  <2>3. \A f \in EntryIds : m.entries[f].status = "waiting" => db.entries[f].status = "waiting"
    BY <1>6, <1>7
  <2>4. QED
    BY <1>1, <2>1, <2>2, <2>3, FewerStayBlocked, Zenon
<1>10. QED
  BY <1>1, <1>3, <1>7, <1>8, <1>9, CommitRowsKeepsIInv

(* decline_entry of a waiting entry *)
LEMMA WithdrawStep ==
    ASSUME IInv, NEW e \in EntryIds, Withdraw(e)
    PROVE  IInv'
<1> DEFINE m == MoveEntries(db, {e}, "cancelled")
<1>1. db \in Rows /\ Disjoint(db) /\ AllBlocked(db) /\ ~locked
  BY DEF IInv, TypeOK, NoOverlap, NoStrandedWaiter, Withdraw
<1>2. /\ m \in Rows /\ m.bookings = db.bookings
      /\ \A f \in EntryIds : /\ m.entries[f].lo = db.entries[f].lo
                             /\ m.entries[f].hi = db.entries[f].hi
                             /\ m.entries[f].status = "waiting" => db.entries[f].status = "waiting"
  BY <1>1, MoveEntriesRows DEF EntryStatus
<1>3. CommitRows(m) /\ UNCHANGED <<now, enabled, active, crashes>>
  BY DEF Withdraw
<1> HIDE DEF m
<1>4. Disjoint(m) /\ \A w : Occupied(db, w) => Occupied(m, w)
  BY <1>1, <1>2 DEF Disjoint, Occupied
<1>5. AllBlocked(m)
  <2>1. \A f \in EntryIds : m.entries[f].lo = db.entries[f].lo /\ m.entries[f].hi = db.entries[f].hi
    BY <1>2
  <2>2. \A f \in EntryIds : m.entries[f].status = "waiting" => db.entries[f].status = "waiting"
    BY <1>2
  <2>3. QED
    BY <1>1, <1>4, <2>1, <2>2, FewerStayBlocked, Zenon
<1>6. QED
  BY <1>1, <1>2, <1>3, <1>4, <1>5, CommitRowsKeepsIInv

(* decline_entry of an offered entry *)
LEMMA DeclineStep ==
    ASSUME IInv, NEW e \in EntryIds, Decline(e)
    PROVE  IInv'
<1> DEFINE B == {b \in BookingIds : b = db.entries[e].booking /\ db.bookings[b].status = "offered"}
           i == MoveBookings(db, B, "cancelled")
           m == MoveEntries(i, {e}, "cancelled")
<1>1. db \in Rows /\ Disjoint(db) /\ ~locked
  BY DEF IInv, TypeOK, NoOverlap, Decline
<1>2. i \in Rows /\ Disjoint(i)
  BY <1>1, MoveBookingsRows, FewerStayDisjoint DEF BookingStatus, Occupying
<1>3. db.entries[e].user \in Users \cup {Nobody}
  BY <1>1, RowsParts DEF EntryRow
<1>4. Release(m, db.entries[e].user) /\ UNCHANGED <<now, enabled, active, crashes>>
  BY DEF Decline
<1> HIDE DEF i
<1>5. m \in Rows /\ m.bookings = i.bookings
  BY <1>2, MoveEntriesRows DEF EntryStatus
<1> HIDE DEF m
<1>6. Disjoint(m)
  BY <1>2, <1>5 DEF Disjoint
<1>7. QED
  BY <1>1, <1>3, <1>4, <1>5, <1>6, ReleaseKeepsIInv

(* cancel_blackout *)
LEMMA CancelBlackoutStep ==
    ASSUME IInv, NEW b \in BookingIds, CancelBlackout(b)
    PROVE  IInv'
<1>1. db \in Rows /\ Disjoint(db) /\ ~locked
  BY DEF IInv, TypeOK, NoOverlap, CancelBlackout
<1>2. MoveBookings(db, {b}, "cancelled") \in Rows
  BY <1>1, MoveBookingsRows DEF BookingStatus
<1>3. Disjoint(MoveBookings(db, {b}, "cancelled"))
  BY <1>1, MoveBookingsRows, FewerStayDisjoint DEF BookingStatus, Occupying
<1>4. QED
  BY <1>1, <1>2, <1>3, ReleaseKeepsIInv DEF CancelBlackout
-----------------------------------------------------------------------------
(* One lemma per step of promote_waiters. *)

(* A waiter behind the new place of the cursor was passed on purpose. *)
LEMMA ScanAdvances ==
    ASSUME IInv, locked, candidate = NoEntry, NEW e \in EntryIds, IsNext(e),
           NEW f \in InState(work, EntryIds, {"waiting"}), f # e
    PROVE  Earlier(Place(work, e), Place(work, f)) \/ Occupied(work, work.entries[f])
<1>1. f \in EntryIds /\ f # NoEntry
  BY ConstantsAssumption DEF InState, NoEntry
<1>2. f \in Unscanned(work, cursor) \/ Occupied(work, work.entries[f])
  BY <1>1 DEF IInv, ScanOK
<1>3. QED
  BY <1>2 DEF IsNext

(* The next waiter is passed over, dropped or nominated. *)
LEMMA ExamineStep ==
    ASSUME IInv, NEW e \in EntryIds, Examine(e)
    PROVE  IInv'
<1>1. /\ work \in Rows /\ Disjoint(work) /\ locked /\ candidate = NoEntry /\ IsNext(e)
      /\ cursor' = Place(work, e)
  BY DEF IInv, TypeOK, Examine
<1>2. work.entries[e].status = "waiting" /\ work.entries[e].created \in Nat /\ e \in Nat
  BY <1>1, RowsParts, ConstantsAssumption DEF IsNext, Unscanned, InState, EntryRow
<1>3. cursor' \in Int \X Nat
  BY <1>1, <1>2 DEF Place
<1>4. UNCHANGED <<now, enabled, active, db, locked, actor, crashes>>
  BY DEF Examine
<1>5. CASE UNCHANGED <<work, candidate>> /\ Occupied(work, work.entries[e])
  <2>1. TypeOK'
    BY <1>3, <1>4, <1>5 DEF IInv, TypeOK
  <2>2. ScanOK'
    <3>1. ASSUME NEW f \in InState(work, EntryIds, {"waiting"})
          PROVE  f \in Unscanned(work, Place(work, e)) \/ Occupied(work, work.entries[f])
      BY <1>1, <1>5, ScanAdvances DEF Unscanned
    <3>2. QED
      BY <1>1, <1>5, <3>1 DEF ScanOK
  <2>3. QED
    BY <1>1, <1>4, <1>5, <2>1, <2>2
       DEF IInv, NoOverlap, NoStrandedWaiter, AllBlocked, Disjoint, InState, Occupied
<1>6. CASE work' = MoveEntries(work, {e}, "expired") /\ UNCHANGED candidate
  <2> DEFINE m == MoveEntries(work, {e}, "expired")
  <2>1. /\ m \in Rows /\ m.bookings = work.bookings
        /\ \A f \in EntryIds : /\ m.entries[f].lo = work.entries[f].lo
                               /\ m.entries[f].hi = work.entries[f].hi
                               /\ m.entries[f].created = work.entries[f].created
                               /\ m.entries[f].status = IF f = e THEN "expired"
                                                        ELSE work.entries[f].status
    BY <1>1, MoveEntriesRows DEF EntryStatus
  <2>2. work' = m
    BY <1>6
  <2> HIDE DEF m
  <2>3. TypeOK'
    BY <1>3, <1>4, <1>6, <2>1, <2>2 DEF IInv, TypeOK
  <2>4. Disjoint(m) /\ \A w : Occupied(work, w) => Occupied(m, w)
    BY <1>1, <2>1 DEF Disjoint, Occupied
  <2>5. ASSUME NEW f \in InState(m, EntryIds, {"waiting"})
        PROVE  f \in Unscanned(m, Place(work, e)) \/ Occupied(m, m.entries[f])
    <3>1. f \in InState(work, EntryIds, {"waiting"}) /\ f # e
      BY <2>1 DEF InState
    <3>2. Place(m, f) = Place(work, f)
      BY <2>1, <3>1 DEF Place, InState
    <3>3. CASE Earlier(Place(work, e), Place(work, f))
      BY <3>2, <3>3 DEF Unscanned
    <3>4. CASE Occupied(work, work.entries[f])
      BY <2>1, <2>4, <3>1, <3>4, OccupiedByBounds DEF InState
    <3>5. QED
      BY <1>1, <3>1, <3>3, <3>4, ScanAdvances
  <2>6. ScanOK'
    BY <1>1, <1>6, <2>2, <2>5 DEF ScanOK
  <2>7. QED
    BY <1>1, <1>4, <2>2, <2>3, <2>4, <2>6
       DEF IInv, NoOverlap, NoStrandedWaiter, AllBlocked, Disjoint, InState, Occupied
<1>7. CASE candidate' = e /\ UNCHANGED work /\ ~Occupied(work, work.entries[e])
  <2>1. TypeOK'
    BY <1>3, <1>4, <1>7 DEF IInv, TypeOK
  <2>2. ScanOK'
    <3>1. ASSUME NEW f \in InState(work, EntryIds, {"waiting"}), f # e
          PROVE  f \in Unscanned(work, Place(work, e)) \/ Occupied(work, work.entries[f])
      BY <1>1, <3>1, ScanAdvances DEF Unscanned
    <3>2. QED
      BY <1>1, <1>2, <1>7, <3>1 DEF ScanOK
  <2>3. QED
    BY <1>1, <1>4, <1>7, <2>1, <2>2
       DEF IInv, NoOverlap, NoStrandedWaiter, AllBlocked, Disjoint, InState, Occupied
<1>8. QED
  BY <1>5, <1>6, <1>7 DEF Examine

(* The nominated waiter gets its hold, where its window is free. *)
LEMMA OfferStep ==
    ASSUME IInv, NEW b \in BookingIds, Offer(b)
    PROVE  IInv'
<1> DEFINE e == candidate
           row == work.entries[e]
           hold == [status |-> "offered", user |-> row.user, lo |-> row.lo, hi |-> row.hi,
                    expires |-> OfferExpiry(now, row.lo), version |-> 1]
           link == [row EXCEPT !.status = "offered", !.booking = b, !.version = row.version + 1]
           i == InsertBooking(work, b, hold)
           j == InsertEntry(i, e, link)
           m == AppendEvents(j, "waitlist_offered", {b})
<1>1. /\ work \in Rows /\ Disjoint(work) /\ locked /\ ScanOK /\ candidate # NoEntry
      /\ e \in EntryIds /\ now \in Nat
  BY DEF IInv, TypeOK, Offer
<1>2. row \in EntryRow /\ ~Occupied(work, row) /\ work.bookings[b].status = "absent"
  BY <1>1, RowsParts DEF ScanOK, Offer
<1>3. /\ work' = m /\ candidate' = NoEntry
      /\ UNCHANGED <<now, enabled, active, db, locked, actor, cursor, crashes>>
  BY DEF Offer
<1>4. OfferExpiry(now, row.lo) \in Times
  BY <1>1, <1>2, OfferExpiryBound DEF EntryRow
<1>5. hold \in BookingRow /\ hold.lo = row.lo /\ hold.hi = row.hi
  BY <1>2, <1>4 DEF BookingRow, BookingStatus, EntryRow
<1>6. link \in EntryRow /\ link.status = "offered"
  <2>1. [row EXCEPT !.status = "offered"] \in EntryRow
    BY <1>2 DEF EntryRow, EntryStatus
  <2>2. [[row EXCEPT !.status = "offered"] EXCEPT !.booking = b] \in EntryRow
    BY <2>1 DEF EntryRow
  <2>3. row.version + 1 \in Nat
    BY <1>2 DEF EntryRow
  <2>4. link \in EntryRow
    BY <2>2, <2>3 DEF EntryRow
  <2>5. QED
    BY <1>2, <2>4 DEF EntryRow
<1> HIDE DEF e, row, hold, link
<1>7. ~Occupied(work, hold)
  BY <1>2, <1>5, OccupiedByBounds
<1>8. /\ i \in Rows /\ i.entries = work.entries /\ Disjoint(i)
      /\ \A w : Occupied(work, w) => Occupied(i, w)
  BY <1>1, <1>2, <1>5, <1>7, InsertRows, InsertStaysDisjoint
<1> HIDE DEF i
<1>9. /\ j \in Rows /\ j.bookings = i.bookings /\ j.entries[e] = link
      /\ \A f \in EntryIds \ {e} : j.entries[f] = i.entries[f]
  BY <1>1, <1>6, <1>8, InsertRows
<1> HIDE DEF j
<1>10. m \in Rows /\ m.bookings = j.bookings /\ m.entries = j.entries
  BY <1>9, AppendEventsRows DEF EventTypes
<1> HIDE DEF m
<1>11. Disjoint(m) /\ \A w : Occupied(work, w) => Occupied(m, w)
  BY <1>8, <1>9, <1>10 DEF Disjoint, Occupied
<1>12. TypeOK'
  BY <1>3, <1>10 DEF IInv, TypeOK
<1>13. ASSUME NEW f \in InState(m, EntryIds, {"waiting"})
       PROVE  f \in Unscanned(m, cursor) \/ Occupied(m, m.entries[f])
  <2>1. f # e /\ f \in EntryIds
    BY <1>6, <1>9, <1>10 DEF InState
  <2>2. m.entries[f] = work.entries[f]
    BY <1>8, <1>9, <1>10, <2>1
  <2>3. f \in InState(work, EntryIds, {"waiting"})
    BY <2>1, <2>2 DEF InState
  <2>4. f \in Unscanned(work, cursor) \/ Occupied(work, work.entries[f])
    BY <1>1, <2>1, <2>3 DEF ScanOK, e
  <2>5. Place(m, f) = Place(work, f)
    BY <2>2 DEF Place
  <2>6. QED
    BY <1>11, <2>2, <2>4, <2>5 DEF Unscanned
<1>14. ScanOK'
  BY <1>3, <1>13 DEF ScanOK
<1>15. QED
  BY <1>1, <1>3, <1>11, <1>12, <1>14
     DEF IInv, NoOverlap, NoStrandedWaiter, AllBlocked, Disjoint, InState, Occupied

(* The scan is over: nobody is left who is neither ahead of the cursor nor blocked. *)
LEMMA CommitStep ==
    ASSUME IInv, Commit
    PROVE  IInv'
<1>1. /\ work \in Rows /\ Disjoint(work) /\ locked /\ ScanOK
      /\ candidate = NoEntry /\ Unscanned(work, cursor) = {}
  BY DEF IInv, TypeOK, Commit, Finished
<1>2. /\ db' = work /\ work' = work /\ ~locked' /\ actor' = Nobody /\ cursor' = NoCursor
      /\ candidate' = NoEntry /\ UNCHANGED <<now, enabled, active, crashes>>
  BY <1>1 DEF Commit
<1>3. NoEntry \notin EntryIds
  BY ConstantsAssumption DEF NoEntry
<1>4. AllBlocked(work)
  BY <1>1, <1>3 DEF AllBlocked, ScanOK, InState
<1>5. NoCursor \in Int \X Nat
  BY DEF NoCursor, NoEntry
<1>6. TypeOK'
  BY <1>1, <1>2, <1>5 DEF IInv, TypeOK, Commit
<1>7. QED
  BY <1>1, <1>2, <1>4, <1>6
     DEF IInv, NoOverlap, NoStrandedWaiter, AllBlocked, Disjoint, InState, Occupied

(* A rollback: the committed rows were disjoint and their waiters blocked all along. *)
LEMMA CrashStep ==
    ASSUME IInv, Crash
    PROVE  IInv'
<1>1. NoCursor \in Int \X Nat
  BY DEF NoCursor, NoEntry
<1>2. crashes' \in 0..MaxCrashes
  BY ConstantsAssumption DEF IInv, TypeOK, Crash
<1>3. TypeOK'
  BY <1>1, <1>2 DEF IInv, TypeOK, Crash
<1>4. QED
  BY <1>3 DEF IInv, Crash, NoOverlap, NoStrandedWaiter, AllBlocked, Disjoint, InState, Occupied

(* What changes no row and no transaction: the clock, accounts, the active flag. *)
LEMMA QuietStep ==
    ASSUME IInv, TypeOK', UNCHANGED <<db, locked, work, cursor, candidate>>
    PROVE  IInv'
  BY DEF IInv, NoOverlap, NoStrandedWaiter, AllBlocked, Disjoint, InState, Occupied, ScanOK,
         Unscanned, Earlier, Place
-----------------------------------------------------------------------------
(* The theorems. *)

(* Every initial state has empty tables and no transaction. *)
LEMMA InitIInv == Init => IInv
<1>1. SUFFICES ASSUME Init PROVE IInv
  OBVIOUS
<1>2. AbsentBooking \in BookingRow
  BY ConstantsAssumption DEF AbsentBooking, BookingRow, BookingStatus, Times, NoTime
<1>3. AbsentEntry \in EntryRow
  BY ConstantsAssumption DEF AbsentEntry, EntryRow, EntryStatus, Times
<1>4. NoRows \in Rows
  BY <1>2, <1>3 DEF NoRows, Rows
<1>5. /\ 0 \in 0..LastTick /\ 0 \in 0..MaxCrashes /\ [u \in Users |-> TRUE] \in [Users -> BOOLEAN]
      /\ NoCursor \in Int \X Nat /\ Nobody \in Users \cup {Nobody}
  BY ConstantsAssumption DEF NoCursor, NoEntry
<1>6. TypeOK
  BY <1>1, <1>4, <1>5 DEF Init, TypeOK
<1>7. Disjoint(NoRows)
  BY DEF Disjoint, NoRows, AbsentBooking, Occupying
<1>8. AllBlocked(NoRows)
  BY DEF AllBlocked, InState, NoRows, AbsentEntry
<1>9. QED
  BY <1>1, <1>6, <1>7, <1>8 DEF Init, IInv, NoOverlap, NoStrandedWaiter

(* No step breaks the inductive invariant. *)
LEMMA NextIInv == IInv /\ [Next]_vars => IInv'
<1>1. SUFFICES ASSUME IInv, [Next]_vars PROVE IInv'
  OBVIOUS
<1>2. CASE Members
  <2>1. ASSUME NEW b \in BookingIds, CancelBooking(b) PROVE IInv'
    BY <1>1, <2>1, ReleaseBookingStep DEF CancelBooking
  <2>2. ASSUME NEW e \in EntryIds, AcceptTooLate(e) PROVE IInv'
    <3>1. db.entries[e].booking \in BookingIds /\ db.entries[e].user \in Users \cup {Nobody}
      BY <1>1, <2>2, RowsParts DEF IInv, TypeOK, AcceptTooLate, EntryRow
    <3>2. QED
      BY <1>1, <2>2, <3>1, ExpireHoldsStep DEF AcceptTooLate
  <2>3. QED
    BY <1>1, <1>2, <2>1, <2>2, CreateBookingStep, JoinWaitlistStep, AcceptOfferStep,
       WithdrawStep, DeclineStep DEF Members
<1>3. CASE Administrators
  <2>1. ASSUME NEW b \in BookingIds, AdminCancelBooking(b) PROVE IInv'
    BY <1>1, <2>1, ReleaseBookingStep DEF AdminCancelBooking
  <2>2. CASE Deactivate
    BY <1>1, <2>2, QuietStep DEF Deactivate, IInv, TypeOK
  <2>3. CASE Activate
    BY <1>1, <2>3, QuietStep DEF Activate, IInv, TypeOK
  <2>4. ASSUME NEW u \in Managed, SetEnabled(u) PROVE IInv'
    BY <1>1, <2>4, QuietStep DEF SetEnabled, IInv, TypeOK
  <2>5. QED
    BY <1>1, <1>3, <2>1, <2>2, <2>3, <2>4, CancelBlackoutStep, CreateBlackoutStep
       DEF Administrators
<1>4. CASE ExpireAndPromote
  <2>1. Overdue \subseteq BookingIds
    BY DEF Overdue
  <2>2. QED
    BY <1>1, <1>4, <2>1, ExpireHoldsStep DEF ExpireAndPromote
<1>5. CASE PromoteWaiters
  BY <1>1, <1>5, ExamineStep, OfferStep, CommitStep DEF PromoteWaiters
<1>6. CASE Crash
  BY <1>1, <1>6, CrashStep
<1>7. CASE Tick
  <2>1. now' \in 0..LastTick
    BY <1>1, <1>7, ConstantsAssumption DEF IInv, TypeOK, Tick
  <2>2. QED
    BY <1>1, <1>7, <2>1, QuietStep DEF Tick, IInv, TypeOK
<1>8. CASE UNCHANGED vars
  BY <1>1, <1>8, QuietStep DEF vars, IInv, TypeOK
<1>9. QED
  BY <1>1, <1>2, <1>3, <1>4, <1>5, <1>6, <1>7, <1>8 DEF Next

(* IInv is an invariant: between transactions the working rows are the committed *)
(* ones, and inside one every waiter the scan has passed is blocked.             *)
THEOREM Inductive == Spec => []IInv
  BY InitIInv, NextIInv, PTL DEF Spec

(* Every row stays a row: statuses, windows, links and versions within their *)
(* columns, whatever the interleaving of the transactions.                    *)
THEOREM TypeCorrect == Spec => []TypeOK
<1>1. IInv => TypeOK
  BY DEF IInv
<1>2. QED
  BY <1>1, Inductive, PTL

(* No two active bookings or blackouts of a resource ever overlap: the creates   *)
(* check, and promotions insert only into a window they found free under the lock. *)
THEOREM NeverDoubleBooked == Spec => []NoOverlap
<1>1. IInv => NoOverlap
  BY DEF IInv
<1>2. QED
  BY <1>1, Inductive, PTL

(* No committed state leaves a waiter in front of a free window: every release *)
(* promotes before it commits.                                                  *)
THEOREM NobodyStranded == Spec => []NoStrandedWaiter
<1>1. IInv => NoStrandedWaiter
  BY DEF IInv
<1>2. QED
  BY <1>1, Inductive, PTL
-----------------------------------------------------------------------------
HoldsEnd(d, t) ==
    \A b \in BookingIds : d.bookings[b].status = "offered" =>
        d.bookings[b].expires <= d.bookings[b].lo /\ d.bookings[b].expires <= t + Hold

GoodRows(d, t) == LinksOK(d) /\ HoldsEnd(d, t)

HoldsOK == GoodRows(db, now) /\ GoodRows(work, now)

(* The states a linked booking may be in, spelled out. *)
LEMMA PartnerOf ==
    ASSUME NEW s \in EntryStatus, NEW x
    PROVE  x \in Partner[s] <=> \/ s = "offered" /\ x = "offered"
                                \/ s = "accepted" /\ x \in {"confirmed", "cancelled"}
                                \/ s = "cancelled" /\ x = "cancelled"
                                \/ s = "expired" /\ x = "expired"
  BY DEF Partner, EntryStatus

(* What LinksOK says of an entry, whatever its state. *)
LEMMA LinkFacts ==
    ASSUME NEW d, d \in Rows, LinksOK(d), NEW e \in EntryIds
    PROVE  LET row == d.entries[e]
               hold == d.bookings[row.booking]
           IN  /\ row.status \in EntryStatus /\ row.booking \in BookingIds \cup {NoBooking}
               /\ row.status \in {"waiting", "absent"} => row.booking = NoBooking
               /\ row.status \in {"offered", "accepted"} => row.booking \in BookingIds
               /\ row.booking \in BookingIds =>
                    /\ hold.user = row.user /\ hold.lo = row.lo /\ hold.hi = row.hi
                    /\ hold.status # "absent"
                    /\ hold.status = "offered" => row.status = "offered"
                    /\ hold.status = "confirmed" => row.status = "accepted"
                    /\ row.status = "offered" => hold.status = "offered"
<1>1. d.entries[e].status \in EntryStatus /\ d.entries[e].booking \in BookingIds \cup {NoBooking}
  BY RowsParts DEF EntryRow
<1>2. LinkOK(d, e)
  BY DEF LinksOK
<1>3. NoBooking \notin BookingIds
  BY ConstantsAssumption
<1>4. QED
  BY <1>1, <1>2, <1>3, PartnerOf DEF LinkOK

(* Rows whose links and windows stay while their statuses move. *)
LEMMA MovedStayLinked ==
    ASSUME NEW d, NEW m, d \in Rows, m \in Rows, LinksOK(d),
           \A e \in EntryIds :
             /\ m.entries[e].booking = d.entries[e].booking /\ m.entries[e].user = d.entries[e].user
             /\ m.entries[e].lo = d.entries[e].lo /\ m.entries[e].hi = d.entries[e].hi,
           \A b \in BookingIds :
             /\ m.bookings[b].user = d.bookings[b].user
             /\ m.bookings[b].lo = d.bookings[b].lo /\ m.bookings[b].hi = d.bookings[b].hi
             /\ m.bookings[b].status = "offered" => d.bookings[b].status = "offered",
           \A e \in EntryIds : d.entries[e].booking = NoBooking =>
             m.entries[e].status \notin {"offered", "accepted"},
           \A e \in EntryIds : d.entries[e].booking \in BookingIds =>
             m.bookings[d.entries[e].booking].status \in Partner[m.entries[e].status]
    PROVE  LinksOK(m)
<1>1. ASSUME NEW e \in EntryIds PROVE LinkOK(m, e)
  <2>1. CASE d.entries[e].booking = NoBooking
    BY <2>1 DEF LinkOK
  <2>2. CASE d.entries[e].booking # NoBooking
    BY <2>2, LinkFacts DEF LinkOK
  <2>3. QED
    BY <2>1, <2>2
<1>2. \A e, f \in EntryIds : m.entries[e].booking = m.entries[f].booking
                              => e = f \/ m.entries[e].booking = NoBooking
  BY DEF LinksOK
<1>3. \A b \in BookingIds : m.bookings[b].status = "offered" => Linked(m, {b}) # {}
  BY DEF LinksOK, Linked
<1>4. QED
  BY <1>1, <1>2, <1>3 DEF LinksOK

(* A hold that is still one keeps its deadline. *)
LEMMA KeepsExpiry ==
    ASSUME NEW d, d \in Rows, NEW B, NEW s \in BookingStatus \ {"offered"}, NEW b \in BookingIds,
           MoveBookings(d, B, s).bookings[b].status = "offered"
    PROVE  MoveBookings(d, B, s).bookings[b] = d.bookings[b] /\ d.bookings[b].status = "offered"
<1>1. b \notin B
  BY MoveBookingsRows
<1>2. MoveBookings(d, B, s).bookings[b] = d.bookings[b]
  BY <1>1, RowsParts DEF MoveBookings
<1>3. QED
  BY <1>2

LEMMA MovedStayEnding ==
    ASSUME NEW d, d \in Rows, NEW t, HoldsEnd(d, t), NEW B, NEW s \in BookingStatus \ {"offered"}, NEW m,
           m.bookings = MoveBookings(d, B, s).bookings
    PROVE  HoldsEnd(m, t)
  BY KeepsExpiry DEF HoldsEnd

(* The outbox has no part in it. *)
LEMMA SameTables ==
    ASSUME NEW d, NEW m, NEW t, GoodRows(d, t), m.bookings = d.bookings, m.entries = d.entries
    PROVE  GoodRows(m, t)
  BY DEF GoodRows, LinksOK, LinkOK, Linked, HoldsEnd

LEMMA EventsKeepRows ==
    ASSUME NEW d, d \in Rows, NEW t, GoodRows(d, t), NEW B, B \subseteq BookingIds,
           NEW type \in EventTypes
    PROVE  AppendEvents(d, type, B) \in Rows /\ GoodRows(AppendEvents(d, type, B), t)
  BY AppendEventsRows, SameTables

-----------------------------------------------------------------------------
(* What each transaction does to good rows. *)

(* A booking or a blackout: no entry is linked to an id not in use. *)
LEMMA BookedRows ==
    ASSUME NEW d, d \in Rows, NEW t, GoodRows(d, t), NEW b \in BookingIds, NEW row \in BookingRow,
           d.bookings[b].status = "absent", row.status = "confirmed"
    PROVE  InsertBooking(d, b, row) \in Rows /\ GoodRows(InsertBooking(d, b, row), t)
<1> DEFINE m == InsertBooking(d, b, row)
<1>1. /\ m \in Rows /\ m.entries = d.entries /\ m.bookings[b] = row
      /\ \A c \in BookingIds \ {b} : m.bookings[c] = d.bookings[c]
  BY InsertRows
<1> HIDE DEF m
<1>2. \A e \in EntryIds : d.entries[e].booking # b
  BY LinkFacts DEF GoodRows
<1>3. \A e \in EntryIds : d.entries[e].booking # NoBooking =>
        m.bookings[d.entries[e].booking] = d.bookings[d.entries[e].booking]
  BY <1>1, <1>2, LinkFacts DEF GoodRows
<1>4. LinksOK(m)
  BY <1>1, <1>3 DEF GoodRows, LinksOK, LinkOK, Linked
<1>5. HoldsEnd(m, t)
  BY <1>1 DEF GoodRows, HoldsEnd
<1>6. QED
  BY <1>1, <1>4, <1>5 DEF GoodRows, m

(* A new waiter has no link. *)
LEMMA JoinedRows ==
    ASSUME NEW d, d \in Rows, NEW t, GoodRows(d, t), NEW e \in EntryIds, NEW row \in EntryRow,
           d.entries[e].status = "absent", row.status = "waiting", row.booking = NoBooking
    PROVE  InsertEntry(d, e, row) \in Rows /\ GoodRows(InsertEntry(d, e, row), t)
<1> DEFINE m == InsertEntry(d, e, row)
<1>1. /\ m \in Rows /\ m.bookings = d.bookings /\ m.entries[e] = row
      /\ \A f \in EntryIds \ {e} : m.entries[f] = d.entries[f]
  BY InsertRows
<1> HIDE DEF m
<1>2. d.entries[e].booking = NoBooking
  BY LinkFacts DEF GoodRows
<1>3. \A f \in EntryIds : m.entries[f].booking = d.entries[f].booking
  BY <1>1, <1>2
<1>4. LinkOK(m, e)
  BY <1>1 DEF LinkOK
<1>5. \A f \in EntryIds \ {e} : LinkOK(m, f)
  BY <1>1 DEF GoodRows, LinksOK, LinkOK
<1>6. LinksOK(m)
  BY <1>1, <1>3, <1>4, <1>5 DEF GoodRows, LinksOK, Linked
<1>7. HoldsEnd(m, t)
  BY <1>1 DEF GoodRows, HoldsEnd
<1>8. QED
  BY <1>1, <1>6, <1>7 DEF GoodRows, m

(* A waiter that leaves or is dropped had no link. *)
LEMMA LeftRows ==
    ASSUME NEW d, d \in Rows, NEW t, GoodRows(d, t), NEW e \in EntryIds, NEW s \in {"cancelled", "expired"},
           d.entries[e].status = "waiting"
    PROVE  MoveEntries(d, {e}, s) \in Rows /\ GoodRows(MoveEntries(d, {e}, s), t)
<1> DEFINE m == MoveEntries(d, {e}, s)
<1>1. /\ m \in Rows /\ m.bookings = d.bookings
      /\ \A f \in EntryIds :
           /\ m.entries[f].lo = d.entries[f].lo /\ m.entries[f].hi = d.entries[f].hi
           /\ m.entries[f].user = d.entries[f].user /\ m.entries[f].booking = d.entries[f].booking
           /\ m.entries[f].status = IF f = e THEN s ELSE d.entries[f].status
  BY MoveEntriesRows DEF EntryStatus
<1> HIDE DEF m
<1>2. d.entries[e].booking = NoBooking /\ NoBooking \notin BookingIds
  BY LinkFacts, ConstantsAssumption DEF GoodRows
<1>3. \A f \in EntryIds : d.entries[f].booking = NoBooking => m.entries[f].status \notin {"offered", "accepted"}
  <2>1. \A f \in EntryIds : d.entries[f].booking = NoBooking => d.entries[f].status \notin {"offered", "accepted"}
    BY <1>2, LinkFacts DEF GoodRows
  <2>2. QED
    BY <1>1, <2>1
<1>4. \A f \in EntryIds : d.entries[f].booking \in BookingIds =>
        m.bookings[d.entries[f].booking].status \in Partner[m.entries[f].status]
  BY <1>1, <1>2 DEF GoodRows, LinksOK, LinkOK
<1>5. LinksOK(m)
  BY <1>1, <1>3, <1>4, MovedStayLinked DEF GoodRows
<1>6. HoldsEnd(m, t)
  BY <1>1 DEF GoodRows, HoldsEnd
<1>7. QED
  BY <1>1, <1>5, <1>6 DEF GoodRows, m

(* Bookings that move together with the entries they were offered to: the two
   halves of a cancel, a decline, an expiry and an acceptance. *)
MovedPair(d, B, s, E, q) ==
    [bookings |-> MoveBookings(d, B, s).bookings, entries |-> MoveEntries(d, E, q).entries,
     events |-> d.events]

Together(d, B, s, E, q) ==
    /\ B \subseteq BookingIds /\ s \in BookingStatus \ {"offered", "absent"}
    /\ E = {e \in EntryIds : d.entries[e].booking \in B /\ d.entries[e].status = "offered"}
    /\ q \in EntryStatus \ {"offered", "absent"} /\ s \in Partner[q]
    /\ \A b \in B : \/ d.bookings[b].status = "offered"
                    \/ d.bookings[b].status = "confirmed" /\ s = "cancelled"

LEMMA MovedTogether ==
    ASSUME NEW d, d \in Rows, NEW t, GoodRows(d, t), NEW B, NEW E, NEW s, NEW q,
           Together(d, B, s, E, q)
    PROVE  GoodRows(MovedPair(d, B, s, E, q), t)
<1> DEFINE m == MovedPair(d, B, s, E, q)
<1> USE DEF Together
<1>0. /\ m \in Rows /\ m.bookings = MoveBookings(d, B, s).bookings
      /\ m.entries = MoveEntries(d, E, q).entries
  BY MoveBookingsRows, MoveEntriesRows, RowsParts DEF MovedPair, Rows
<1> HIDE DEF m
<1>1. \A b \in BookingIds :
        /\ m.bookings[b].user = d.bookings[b].user
        /\ m.bookings[b].lo = d.bookings[b].lo /\ m.bookings[b].hi = d.bookings[b].hi
        /\ m.bookings[b].status = IF b \in B THEN s ELSE d.bookings[b].status
  BY <1>0, MoveBookingsRows
<1>2. \A e \in EntryIds :
        /\ m.entries[e].booking = d.entries[e].booking /\ m.entries[e].user = d.entries[e].user
        /\ m.entries[e].lo = d.entries[e].lo /\ m.entries[e].hi = d.entries[e].hi
        /\ m.entries[e].status = IF e \in E THEN q ELSE d.entries[e].status
  BY <1>0, MoveEntriesRows
<1>3. LinksOK(d) /\ NoBooking \notin BookingIds
  BY ConstantsAssumption DEF GoodRows
<1>4. ASSUME NEW e \in EntryIds, d.entries[e].booking = NoBooking
      PROVE  m.entries[e].status \notin {"offered", "accepted"}
  BY <1>2, <1>3, <1>4, LinkFacts
<1>5. ASSUME NEW e \in EntryIds, d.entries[e].booking \in BookingIds
      PROVE  m.bookings[d.entries[e].booking].status \in Partner[m.entries[e].status]
  <2>1. d.bookings[d.entries[e].booking].status \in Partner[d.entries[e].status]
    BY <1>3, <1>5 DEF LinksOK, LinkOK
  <2>2. CASE e \in E
    BY <1>1, <1>2, <1>5, <2>2
  <2>3. CASE e \notin E /\ d.entries[e].booking \notin B
    BY <1>1, <1>2, <1>5, <2>1, <2>3
  <2>4. CASE e \notin E /\ d.entries[e].booking \in B
    <3>1. d.bookings[d.entries[e].booking].status # "offered"
      BY <1>3, <1>5, <2>4, LinkFacts
    <3>2. d.bookings[d.entries[e].booking].status = "confirmed" /\ s = "cancelled"
      BY <2>4, <3>1
    <3>3. d.entries[e].status = "accepted"
      BY <1>3, <1>5, <3>2, LinkFacts
    <3>4. s \in Partner[m.entries[e].status]
      BY <1>2, <2>4, <3>2, <3>3, PartnerOf DEF EntryStatus
    <3>5. QED
      BY <1>1, <1>5, <2>4, <3>4
  <2>5. QED
    BY <2>2, <2>3, <2>4
<1>6. LinksOK(m)
  BY <1>0, <1>1, <1>2, <1>3, <1>4, <1>5, MovedStayLinked
<1>7. HoldsEnd(m, t)
  BY <1>0, MovedStayEnding DEF GoodRows
<1>8. QED
  BY <1>6, <1>7 DEF GoodRows, m

(* cancel_booking takes along the entry the booking was offered to. *)
LEMMA CancelledRows ==
    ASSUME NEW d, d \in Rows, NEW t, GoodRows(d, t), NEW b \in BookingIds, d.bookings[b].status \in Occupying
    PROVE  LET i == MoveBookings(d, {b}, "cancelled")
               m == MoveEntries(i, Linked(d, {b}) \cap InState(d, EntryIds, {"offered"}), "cancelled")
           IN  m \in Rows /\ GoodRows(m, t)
<1> DEFINE E == Linked(d, {b}) \cap InState(d, EntryIds, {"offered"})
           i == MoveBookings(d, {b}, "cancelled")
           m == MoveEntries(i, E, "cancelled")
<1>1. i \in Rows /\ i.entries = d.entries
  BY MoveBookingsRows DEF BookingStatus
<1>2. m \in Rows /\ m.bookings = i.bookings
  BY <1>1, MoveEntriesRows DEF EntryStatus
<1>3. m.entries = MoveEntries(d, E, "cancelled").entries
  BY <1>1, RowsParts DEF MoveEntries
<1>4. "cancelled" \in Partner["cancelled"]
  BY DEF Partner
<1>5. \A e \in EntryIds : e \in E <=> d.entries[e].booking \in {b} /\ d.entries[e].status = "offered"
  BY DEF Linked, InState
<1>6. E \subseteq EntryIds
  BY DEF Linked
<1> HIDE DEF E, m
<1>7. GoodRows(m, t)
  <2>1. GoodRows(MovedPair(d, {b}, "cancelled", E, "cancelled"), t)
    <3>1. Together(d, {b}, "cancelled", E, "cancelled")
      BY <1>4, <1>5, <1>6 DEF Together, Occupying, BookingStatus, EntryStatus
    <3>2. QED
      BY <3>1, MovedTogether
  <2>2. QED
    BY <1>2, <1>3, <2>1, SameTables DEF MovedPair
<1>8. QED
  BY <1>2, <1>7 DEF E, m

(* An offer accepted or declined: nobody else is linked to its hold. *)
LEMMA AnsweredRows ==
    ASSUME NEW d, d \in Rows, NEW t, GoodRows(d, t), NEW e \in EntryIds, d.entries[e].status = "offered",
           NEW s \in {"confirmed", "cancelled"}, NEW q \in {"accepted", "cancelled"}, s \in Partner[q]
    PROVE  LET m == MoveEntries(MoveBookings(d, {d.entries[e].booking}, s), {e}, q)
           IN  /\ m \in Rows /\ GoodRows(m, t)
               /\ d.entries[e].booking \in BookingIds
               /\ d.bookings[d.entries[e].booking].status = "offered"
<1> DEFINE b == d.entries[e].booking
           i == MoveBookings(d, {b}, s)
           m == MoveEntries(i, {e}, q)
<1>1. b \in BookingIds /\ d.bookings[b].status = "offered" /\ NoBooking \notin BookingIds
  BY LinkFacts, ConstantsAssumption DEF GoodRows
<1>2. i \in Rows /\ i.entries = d.entries
  BY MoveBookingsRows DEF BookingStatus
<1>3. m \in Rows /\ m.bookings = i.bookings
  BY <1>2, MoveEntriesRows DEF EntryStatus
<1>4. m.entries = MoveEntries(d, {e}, q).entries
  BY <1>2, RowsParts DEF MoveEntries
<1>5. \A f \in EntryIds : d.entries[f].booking \in {b} => f = e
  BY <1>1 DEF GoodRows, LinksOK
<1>6. s \in BookingStatus \ {"offered", "absent"} /\ q \in EntryStatus \ {"offered", "absent"}
  BY DEF BookingStatus, EntryStatus
<1>7. m.bookings = MoveBookings(d, {b}, s).bookings
  BY <1>3
<1> DEFINE B == {b}
           E == {e}
<1>8. /\ B \subseteq BookingIds /\ E \subseteq EntryIds
      /\ \A f \in EntryIds : f \in E <=> d.entries[f].booking \in B /\ d.entries[f].status = "offered"
      /\ \A c \in B : d.bookings[c].status = "offered"
  BY <1>1, <1>5
<1>9. m.bookings = MoveBookings(d, B, s).bookings /\ m.entries = MoveEntries(d, E, q).entries
  BY <1>4, <1>7
<1> HIDE DEF m, i, b, B, E
<1>10. GoodRows(m, t)
  <2>1. GoodRows(MovedPair(d, B, s, E, q), t)
    <3>1. Together(d, B, s, E, q)
      BY <1>6, <1>8 DEF Together
    <3>2. QED
      BY <3>1, MovedTogether
  <2>2. QED
    BY <1>9, <2>1, SameTables DEF MovedPair
<1>11. QED
  BY <1>1, <1>3, <1>10 DEF m, i, b

(* Holds that expire, with the entries they were offered to. *)
LEMMA ExpiredRows ==
    ASSUME NEW d, d \in Rows, NEW t, GoodRows(d, t), NEW B, B \subseteq BookingIds,
           \A b \in B : d.bookings[b].status = "offered"
    PROVE  ExpireHolds(d, B) \in Rows /\ GoodRows(ExpireHolds(d, B), t)
<1> DEFINE E == Linked(d, B)
           i == MoveEntries(d, E, "expired")
           m == MoveBookings(i, B, "expired")
<1>1. i \in Rows /\ i.bookings = d.bookings
  BY MoveEntriesRows DEF EntryStatus
<1>2. m \in Rows /\ m.entries = i.entries
  BY <1>1, MoveBookingsRows DEF BookingStatus
<1>3. m.bookings = MoveBookings(d, B, "expired").bookings
  BY <1>1, RowsParts DEF MoveBookings
<1>4. "expired" \in Partner["expired"]
  BY DEF Partner
<1>5. E \subseteq EntryIds /\ \A e \in EntryIds : e \in E <=> d.entries[e].booking \in B
  BY DEF Linked
<1>6. \A e \in EntryIds : d.entries[e].booking \in B => d.entries[e].status = "offered"
  BY LinkFacts DEF GoodRows
<1>7. /\ "expired" \in BookingStatus \ {"offered", "absent"}
      /\ "expired" \in EntryStatus \ {"offered", "absent"}
  BY DEF BookingStatus, EntryStatus
<1>8. m.entries = MoveEntries(d, E, "expired").entries
  BY <1>2
<1> HIDE DEF E, i, m
<1>9. GoodRows(m, t)
  <2>1. GoodRows(MovedPair(d, B, "expired", E, "expired"), t)
    <3>1. Together(d, B, "expired", E, "expired")
      BY <1>4, <1>5, <1>6, <1>7 DEF Together
    <3>2. QED
      BY <3>1, MovedTogether
  <2>2. QED
    BY <1>3, <1>8, <2>1, SameTables DEF MovedPair
<1>10. QED
  BY <1>2, <1>9, EventsKeepRows DEF ExpireHolds, E, i, m, EventTypes

(* The hold of an offer: its deadline is cut at the start of its window. *)
LEMMA OfferedRows ==
    ASSUME NEW d, d \in Rows, NEW t \in Nat, GoodRows(d, t), NEW b \in BookingIds, NEW e \in EntryIds,
           d.bookings[b].status = "absent", d.entries[e].status = "waiting",
           NEW hold \in BookingRow, NEW link \in EntryRow,
           hold.status = "offered", hold.user = d.entries[e].user, hold.lo = d.entries[e].lo,
           hold.hi = d.entries[e].hi, hold.expires <= hold.lo, hold.expires <= t + Hold,
           link.status = "offered", link.booking = b, link.user = d.entries[e].user,
           link.lo = d.entries[e].lo, link.hi = d.entries[e].hi
    PROVE  GoodRows(InsertEntry(InsertBooking(d, b, hold), e, link), t)
<1> DEFINE i == InsertBooking(d, b, hold)
           m == InsertEntry(i, e, link)
<1>1. /\ i \in Rows /\ i.entries = d.entries /\ i.bookings[b] = hold
      /\ \A c \in BookingIds \ {b} : i.bookings[c] = d.bookings[c]
  BY InsertRows
<1> HIDE DEF i
<1>2. /\ m \in Rows /\ m.bookings = i.bookings /\ m.entries[e] = link
      /\ \A f \in EntryIds \ {e} : m.entries[f] = i.entries[f]
  BY <1>1, InsertRows
<1> HIDE DEF m
<1>3. d.entries[e].booking = NoBooking /\ NoBooking \notin BookingIds
  BY LinkFacts, ConstantsAssumption DEF GoodRows
<1>4. \A f \in EntryIds : d.entries[f].booking # b
  BY LinkFacts DEF GoodRows
<1>5. LinkOK(m, e)
  BY <1>1, <1>2, <1>3, PartnerOf DEF LinkOK, EntryStatus
<1>6. ASSUME NEW f \in EntryIds \ {e} PROVE LinkOK(m, f)
  <2>1. LinkOK(d, f) /\ d.entries[f].booking \in BookingIds \cup {NoBooking}
    BY LinkFacts DEF GoodRows, LinksOK
  <2>2. m.entries[f] = d.entries[f]
    BY <1>1, <1>2
  <2>3. d.entries[f].booking \in BookingIds => m.bookings[d.entries[f].booking] = d.bookings[d.entries[f].booking]
    BY <1>1, <1>2, <1>4
  <2>4. QED
    BY <2>1, <2>2, <2>3 DEF LinkOK
<1>7. \A f, g \in EntryIds : m.entries[f].booking = m.entries[g].booking
                              => f = g \/ m.entries[f].booking = NoBooking
  BY <1>1, <1>2, <1>4 DEF GoodRows, LinksOK
<1>8. \A c \in BookingIds : m.bookings[c].status = "offered" => Linked(m, {c}) # {}
  <2>1. TAKE c \in BookingIds
  <2>2. CASE c = b
    BY <1>2, <2>2 DEF Linked
  <2>3. CASE c # b /\ d.bookings[c].status = "offered"
    <3>1. PICK f \in EntryIds : d.entries[f].booking = c
      BY <2>3 DEF GoodRows, LinksOK, Linked
    <3>2. f # e
      BY <1>3, <3>1
    <3>3. QED
      BY <1>1, <1>2, <3>1, <3>2 DEF Linked
  <2>4. QED
    BY <1>1, <1>2, <2>2, <2>3
<1>9. LinksOK(m)
  BY <1>5, <1>6, <1>7, <1>8 DEF LinksOK
<1>10. HoldsEnd(m, t)
  BY <1>1, <1>2 DEF GoodRows, HoldsEnd
<1>11. QED
  BY <1>9, <1>10 DEF GoodRows, m, i

-----------------------------------------------------------------------------
(* The steps of the specification. *)

(* A commit or a release of good rows. *)
LEMMA WrittenRows ==
    ASSUME IInv, HoldsOK, NEW d, GoodRows(d, now), now' = now,
           CommitRows(d) \/ \E u : Release(d, u)
    PROVE  HoldsOK'
  BY DEF HoldsOK, CommitRows, Release

LEMMA MemberSteps ==
    ASSUME IInv, HoldsOK, Members
    PROVE  HoldsOK'
<1>1. db \in Rows /\ GoodRows(db, now)
  BY DEF IInv, TypeOK, HoldsOK
<1>2. ASSUME NEW u \in Users, NEW b \in BookingIds, NEW lo \in Times, NEW hi \in Times,
             CreateBooking(u, b, lo, hi)
      PROVE  HoldsOK'
  <2> DEFINE row == [status |-> "confirmed", user |-> u, lo |-> lo, hi |-> hi,
                     expires |-> NoTime, version |-> 1]
             i == InsertBooking(db, b, row)
             m == AppendEvents(i, "booking_confirmed", {b})
  <2>1. row \in BookingRow /\ row.status = "confirmed"
    BY DEF BookingRow, BookingStatus
  <2>2. CommitRows(m) /\ now' = now /\ db.bookings[b].status = "absent"
    BY <1>2 DEF CreateBooking
  <2> HIDE DEF row, m
  <2>3. i \in Rows /\ GoodRows(i, now)
    BY <1>1, <2>1, <2>2, BookedRows
  <2> HIDE DEF i
  <2>4. GoodRows(m, now)
    BY <2>3, EventsKeepRows DEF EventTypes, m
  <2>5. QED
    BY <2>2, <2>4, WrittenRows
<1>3. ASSUME NEW u \in Users, NEW e \in EntryIds, NEW lo \in Times, NEW hi \in Times,
             JoinWaitlist(u, e, lo, hi)
      PROVE  HoldsOK'
  <2>1. PICK begun \in Samples :
          CommitRows(InsertEntry(db, e,
            [status |-> "waiting", user |-> u, lo |-> lo, hi |-> hi,
             created |-> begun, booking |-> NoBooking, version |-> 1]))
    BY <1>3 DEF JoinWaitlist
  <2> DEFINE row == [status |-> "waiting", user |-> u, lo |-> lo, hi |-> hi,
                     created |-> begun, booking |-> NoBooking, version |-> 1]
  <2>2. now \in Nat /\ db.entries[e].status = "absent" /\ now' = now
    BY <1>3 DEF IInv, TypeOK, JoinWaitlist
  <2>3. row \in EntryRow /\ row.status = "waiting" /\ row.booking = NoBooking
    BY <2>2 DEF EntryRow, EntryStatus, Samples
  <2>4. CommitRows(InsertEntry(db, e, row))
    BY <2>1
  <2> HIDE DEF row
  <2>5. GoodRows(InsertEntry(db, e, row), now)
    BY <1>1, <2>2, <2>3, JoinedRows
  <2>6. QED
    BY <2>2, <2>4, <2>5, WrittenRows
<1>4. ASSUME NEW b \in BookingIds, CancelBooking(b) PROVE HoldsOK'
  <2>1. db.bookings[b].status \in Occupying /\ now' = now
    BY <1>4 DEF CancelBooking
  <2> DEFINE i == MoveBookings(db, {b}, "cancelled")
             m == MoveEntries(i, Linked(db, {b}) \cap InState(db, EntryIds, {"offered"}), "cancelled")
             r == AppendEvents(m, "booking_cancelled", {b})
  <2>2. m \in Rows /\ GoodRows(m, now)
    BY <1>1, <2>1, CancelledRows
  <2>3. \E u : Release(r, u)
    BY <1>4 DEF CancelBooking, ReleaseBooking
  <2> HIDE DEF m
  <2>4. GoodRows(r, now)
    BY <2>2, EventsKeepRows DEF EventTypes
  <2>5. QED
    BY <2>1, <2>3, <2>4, WrittenRows
<1>5. ASSUME NEW e \in EntryIds, AcceptOffer(e) PROVE HoldsOK'
  <2> DEFINE b == db.entries[e].booking
             m == MoveEntries(MoveBookings(db, {b}, "confirmed"), {e}, "accepted")
             r == AppendEvents(m, "booking_confirmed", {b})
  <2>1. db.entries[e].status = "offered" /\ now' = now /\ CommitRows(r)
    BY <1>5 DEF AcceptOffer
  <2>2. "confirmed" \in Partner["accepted"]
    BY DEF Partner
  <2>3. m \in Rows /\ GoodRows(m, now) /\ b \in BookingIds
    BY <1>1, <2>1, <2>2, AnsweredRows
  <2> HIDE DEF m
  <2>4. GoodRows(r, now)
    BY <2>3, EventsKeepRows DEF EventTypes
  <2>5. QED
    BY <2>1, <2>4, WrittenRows
<1>6. ASSUME NEW e \in EntryIds, AcceptTooLate(e) PROVE HoldsOK'
  <2> DEFINE B == {db.entries[e].booking}
  <2>1. /\ db.entries[e].booking # NoBooking /\ \A b \in B : db.bookings[b].status = "offered"
        /\ now' = now /\ \E u : Release(ExpireHolds(db, B), u)
    BY <1>6 DEF AcceptTooLate
  <2>2. B \subseteq BookingIds
    BY <1>1, <2>1, LinkFacts DEF GoodRows
  <2> HIDE DEF B
  <2>3. QED
    BY <1>1, <2>1, <2>2, ExpiredRows, WrittenRows
<1>7. ASSUME NEW e \in EntryIds, Withdraw(e) PROVE HoldsOK'
  <2>1. /\ db.entries[e].status = "waiting" /\ now' = now
        /\ CommitRows(MoveEntries(db, {e}, "cancelled"))
    BY <1>7 DEF Withdraw
  <2>2. GoodRows(MoveEntries(db, {e}, "cancelled"), now)
    BY <1>1, <2>1, LeftRows
  <2>3. QED
    BY <2>1, <2>2, WrittenRows
<1>8. ASSUME NEW e \in EntryIds, Decline(e) PROVE HoldsOK'
  <2> DEFINE B == {b \in BookingIds : b = db.entries[e].booking /\ db.bookings[b].status = "offered"}
             m == MoveEntries(MoveBookings(db, {db.entries[e].booking}, "cancelled"), {e}, "cancelled")
  <2>1. /\ db.entries[e].status = "offered" /\ now' = now
        /\ \E u : Release(MoveEntries(MoveBookings(db, B, "cancelled"), {e}, "cancelled"), u)
    BY <1>8 DEF Decline
  <2>2. "cancelled" \in Partner["cancelled"]
    BY DEF Partner
  <2>3. /\ GoodRows(m, now) /\ db.entries[e].booking \in BookingIds
        /\ db.bookings[db.entries[e].booking].status = "offered"
    BY <1>1, <2>1, <2>2, AnsweredRows
  <2>4. B = {db.entries[e].booking}
    BY <2>3
  <2>5. \E u : Release(m, u)
    BY <2>1, <2>4
  <2> HIDE DEF m
  <2>6. QED
    BY <2>1, <2>3, <2>5, WrittenRows
<1>9. QED
  BY <1>2, <1>3, <1>4, <1>5, <1>6, <1>7, <1>8 DEF Members

LEMMA AdministratorSteps ==
    ASSUME IInv, HoldsOK, Administrators
    PROVE  HoldsOK'
<1>1. db \in Rows /\ GoodRows(db, now)
  BY DEF IInv, TypeOK, HoldsOK
<1>2. ASSUME NEW b \in BookingIds, AdminCancelBooking(b) PROVE HoldsOK'
  <2>1. db.bookings[b].status \in Occupying /\ now' = now
    BY <1>2 DEF AdminCancelBooking
  <2> DEFINE i == MoveBookings(db, {b}, "cancelled")
             m == MoveEntries(i, Linked(db, {b}) \cap InState(db, EntryIds, {"offered"}), "cancelled")
             r == AppendEvents(m, "booking_cancelled", {b})
  <2>2. m \in Rows /\ GoodRows(m, now)
    BY <1>1, <2>1, CancelledRows
  <2>3. \E u : Release(r, u)
    BY <1>2 DEF AdminCancelBooking, ReleaseBooking
  <2> HIDE DEF m
  <2>4. GoodRows(r, now)
    BY <2>2, EventsKeepRows DEF EventTypes
  <2>5. QED
    BY <2>1, <2>3, <2>4, WrittenRows
<1>3. ASSUME NEW b \in BookingIds, CancelBlackout(b) PROVE HoldsOK'
  <2>1. /\ db.bookings[b].status = "confirmed" /\ now' = now
        /\ \E u : Release(MoveBookings(db, {b}, "cancelled"), u)
    BY <1>3 DEF CancelBlackout
  <2>2. Together(db, {b}, "cancelled", {}, "cancelled")
    <3>1. \A e \in EntryIds : db.entries[e].booking \in {b} => db.entries[e].status # "offered"
      BY <1>1, <2>1, LinkFacts DEF GoodRows
    <3>2. "cancelled" \in Partner["cancelled"]
      BY DEF Partner
    <3>3. QED
      BY <2>1, <3>1, <3>2 DEF Together, BookingStatus, EntryStatus
  <2>3. GoodRows(MovedPair(db, {b}, "cancelled", {}, "cancelled"), now)
    BY <1>1, <2>2, MovedTogether
  <2>4. /\ MoveEntries(db, {}, "cancelled").entries = db.entries
        /\ MoveBookings(db, {b}, "cancelled").entries = db.entries
    BY <1>1, RowsParts DEF MoveEntries, MoveBookings
  <2>5. GoodRows(MoveBookings(db, {b}, "cancelled"), now)
    BY <2>3, <2>4, SameTables DEF MovedPair
  <2>6. QED
    BY <2>1, <2>5, WrittenRows
<1>4. ASSUME NEW b \in BookingIds, NEW lo \in Times, NEW hi \in Times, CreateBlackout(b, lo, hi)
      PROVE  HoldsOK'
  <2> DEFINE row == [status |-> "confirmed", user |-> Nobody, lo |-> lo, hi |-> hi,
                     expires |-> NoTime, version |-> 1]
  <2>1. row \in BookingRow /\ row.status = "confirmed"
    BY DEF BookingRow, BookingStatus
  <2>2. CommitRows(InsertBooking(db, b, row)) /\ now' = now /\ db.bookings[b].status = "absent"
    BY <1>4 DEF CreateBlackout
  <2> HIDE DEF row
  <2>3. GoodRows(InsertBooking(db, b, row), now)
    BY <1>1, <2>1, <2>2, BookedRows
  <2>4. QED
    BY <2>2, <2>3, WrittenRows
<1>5. ASSUME \/ Deactivate \/ Activate \/ \E u \in Managed : SetEnabled(u)
      PROVE  HoldsOK'
  BY <1>5 DEF Deactivate, Activate, SetEnabled, HoldsOK
<1>6. QED
  BY <1>2, <1>3, <1>4, <1>5 DEF Administrators

LEMMA PromotionSteps ==
    ASSUME IInv, HoldsOK, PromoteWaiters
    PROVE  HoldsOK'
<1>1. work \in Rows /\ GoodRows(work, now) /\ GoodRows(db, now) /\ now \in Nat
  BY DEF IInv, TypeOK, HoldsOK
<1>2. ASSUME NEW e \in EntryIds, Examine(e) PROVE HoldsOK'
  <2>1. /\ db' = db /\ now' = now
        /\ \/ work' = work
           \/ work' = MoveEntries(work, {e}, "expired") /\ work.entries[e].status = "waiting"
    BY <1>2 DEF Examine, IsNext, Unscanned, InState
  <2>2. work.entries[e].status = "waiting" => GoodRows(MoveEntries(work, {e}, "expired"), now)
    BY <1>1, LeftRows
  <2>3. QED
    BY <1>1, <2>1, <2>2 DEF HoldsOK
<1>3. ASSUME NEW b \in BookingIds, Offer(b) PROVE HoldsOK'
  <2>1. PICK e \in EntryIds : e = candidate /\ work.entries[e].status = "waiting"
    BY <1>3 DEF IInv, TypeOK, ScanOK, Offer
  <2> DEFINE row == work.entries[e]
             hold == [status |-> "offered", user |-> row.user, lo |-> row.lo, hi |-> row.hi,
                      expires |-> OfferExpiry(now, row.lo), version |-> 1]
             link == [row EXCEPT !.status = "offered", !.booking = b, !.version = row.version + 1]
             m == InsertEntry(InsertBooking(work, b, hold), e, link)
  <2>2. /\ db' = db /\ now' = now /\ work.bookings[b].status = "absent"
        /\ work' = AppendEvents(m, "waitlist_offered", {b})
    BY <1>3, <2>1 DEF Offer
  <2>3. row \in EntryRow
    BY <1>1, RowsParts
  <2>4. /\ OfferExpiry(now, row.lo) \in Times /\ OfferExpiry(now, row.lo) <= row.lo
        /\ OfferExpiry(now, row.lo) <= now + Hold
    BY <1>1, <2>3, OfferExpiryBound DEF EntryRow
  <2>5. hold \in BookingRow
    BY <2>3, <2>4 DEF BookingRow, BookingStatus, EntryRow
  <2>6. link \in EntryRow
    <3>1. [row EXCEPT !.status = "offered"] \in EntryRow
      BY <2>3 DEF EntryRow, EntryStatus
    <3>2. [[row EXCEPT !.status = "offered"] EXCEPT !.booking = b] \in EntryRow
      BY <3>1 DEF EntryRow
    <3>3. row.version + 1 \in Nat
      BY <2>3 DEF EntryRow
    <3>4. QED
      BY <3>2, <3>3 DEF EntryRow
  <2>7. /\ link.status = "offered" /\ link.booking = b /\ link.user = row.user
        /\ link.lo = row.lo /\ link.hi = row.hi
    BY <2>3, <2>6 DEF EntryRow
  <2>8. /\ hold.status = "offered" /\ hold.user = row.user /\ hold.lo = row.lo /\ hold.hi = row.hi
        /\ hold.expires <= hold.lo /\ hold.expires <= now + Hold
    BY <2>4
  <2>9. GoodRows(m, now)
    <3> HIDE DEF link, hold
    <3>1. QED
      BY <1>1, <2>1, <2>2, <2>5, <2>6, <2>7, <2>8, OfferedRows
  <2>10. m \in Rows
    BY <1>1, <2>5, <2>6, InsertRows
  <2> HIDE DEF m
  <2>11. GoodRows(AppendEvents(m, "waitlist_offered", {b}), now)
    BY <2>9, <2>10, EventsKeepRows DEF EventTypes
  <2>12. QED
    BY <1>1, <2>2, <2>11 DEF HoldsOK
<1>4. ASSUME Commit PROVE HoldsOK'
  BY <1>1, <1>4 DEF Commit, HoldsOK
<1>5. QED
  BY <1>2, <1>3, <1>4 DEF PromoteWaiters

LEMMA InitHoldsOK == Init => HoldsOK
<1>1. SUFFICES ASSUME Init PROVE HoldsOK
  OBVIOUS
<1>2. \A b \in BookingIds : NoRows.bookings[b].status = "absent"
  BY DEF NoRows, AbsentBooking
<1>3. \A e \in EntryIds : NoRows.entries[e].status = "absent" /\ NoRows.entries[e].booking = NoBooking
  BY DEF NoRows, AbsentEntry
<1>4. LinksOK(NoRows)
  BY <1>2, <1>3 DEF LinksOK, LinkOK
<1>5. HoldsEnd(NoRows, now)
  BY <1>2 DEF HoldsEnd
<1>6. QED
  BY <1>1, <1>4, <1>5 DEF Init, HoldsOK, GoodRows

LEMMA NextHoldsOK == IInv /\ HoldsOK /\ [Next]_vars => HoldsOK'
<1>1. SUFFICES ASSUME IInv, HoldsOK, [Next]_vars PROVE HoldsOK'
  OBVIOUS
<1>2. CASE ExpireAndPromote
  <2>1. /\ db \in Rows /\ GoodRows(db, now) /\ now' = now
        /\ \E u : Release(ExpireHolds(db, Overdue), u)
    BY <1>1, <1>2 DEF IInv, TypeOK, HoldsOK, ExpireAndPromote
  <2>2. Overdue \subseteq BookingIds /\ \A b \in Overdue : db.bookings[b].status = "offered"
    BY DEF Overdue
  <2>3. QED
    BY <1>1, <2>1, <2>2, ExpiredRows, WrittenRows
<1>3. CASE Crash
  BY <1>1, <1>3 DEF Crash, HoldsOK
<1>4. CASE Tick
  <2>1. ASSUME NEW d, d \in Rows, GoodRows(d, now) PROVE GoodRows(d, now + 1)
    <3>1. ASSUME NEW b \in BookingIds, d.bookings[b].status = "offered"
          PROVE  d.bookings[b].expires <= now + 1 + Hold
      <4>1. d.bookings[b].expires \in Int /\ now \in Int /\ Hold \in Int
        BY <1>1, <2>1, RowsParts, ConstantsAssumption DEF BookingRow, Times, NoTime, IInv, TypeOK
      <4>2. d.bookings[b].expires <= now + Hold
        BY <2>1, <3>1 DEF GoodRows, HoldsEnd
      <4>3. QED
        BY <4>1, <4>2
    <3>2. QED
      BY <2>1, <3>1 DEF GoodRows, HoldsEnd
  <2>2. QED
    BY <1>1, <1>4, <2>1 DEF Tick, HoldsOK, IInv, TypeOK
<1>5. CASE UNCHANGED vars
  BY <1>1, <1>5 DEF vars, HoldsOK
<1>6. QED
  BY <1>1, <1>2, <1>3, <1>4, <1>5, MemberSteps, AdministratorSteps, PromotionSteps DEF Next

LEMMA AlwaysHoldsOK == Spec => []HoldsOK
  BY InitHoldsOK, NextHoldsOK, Inductive, PTL DEF Spec

-----------------------------------------------------------------------------
(* A hold and the entry it was offered to always move together, through accept,
   decline, cancel, expiry and the administrators' cancel. *)
THEOREM HoldsMoveWithEntries == Spec => []OfferLinked
<1>1. HoldsOK => OfferLinked
  BY DEF HoldsOK, GoodRows, OfferLinked
<1>2. QED
  BY <1>1, AlwaysHoldsOK, PTL

(* No committed hold reaches past the start of its window, nor more than Hold
   past the clock: it is dated when its savepoint runs, not when the release began. *)
THEOREM HoldsEndInTime == Spec => []HoldDeadline
<1>1. HoldsOK => HoldDeadline
  BY DEF HoldsOK, GoodRows, HoldsEnd, HoldDeadline
<1>2. QED
  BY <1>1, AlwaysHoldsOK, PTL

-----------------------------------------------------------------------------
(* The promise of a release.  While its transaction is open, what it has done to
   the committed rows d is told apart from its own rows w. *)

Proper(d) ==
    /\ \A b \in BookingIds : d.bookings[b].status \in Occupying => d.bookings[b].lo < d.bookings[b].hi
    /\ \A e \in EntryIds : d.entries[e].status = "waiting" => d.entries[e].lo < d.entries[e].hi

(* The waiters that were offered their window and are not told yet. *)
Served(d, w) == {e \in EntryIds : d.entries[e].status = "waiting" /\ w.entries[e].status = "offered"}

Inside(x, y) == y.lo <= x.lo /\ x.hi <= y.hi

SameRequest(x, y) == x.lo = y.lo /\ x.hi = y.hi /\ x.created = y.created

Serving(d, w) ==
    /\ \A b \in BookingIds : w.bookings[b].status = "absent" => d.bookings[b].status = "absent"
    /\ \A b \in BookingIds : w.bookings[b].status \in Occupying =>
         \/ /\ d.bookings[b].status \in Occupying
            /\ w.bookings[b].lo = d.bookings[b].lo /\ w.bookings[b].hi = d.bookings[b].hi
         \/ \E e \in Served(d, w) : w.entries[e].booking = b
    /\ \A e \in EntryIds : w.entries[e].status = "waiting" => d.entries[e].status = "waiting"
    /\ \A e \in EntryIds : d.entries[e].status = "waiting" => SameRequest(w.entries[e], d.entries[e])
    /\ \A e \in Served(d, w) : d.bookings[w.entries[e].booking].status = "absent"
    /\ \A e \in Served(d, w), f \in InState(w, EntryIds, {"waiting"}) :
         Inside(w.entries[f], w.entries[e]) => Earlier(Place(w, e), Place(w, f))

Nominated == candidate # NoEntry => cursor = Place(work, candidate)

Progress == Proper(db) /\ Proper(work) /\ Serving(db, work) /\ Nominated

(* What a release does before it promotes: bookings and entries end. *)
GivenUp(d, m) ==
    /\ \A b \in BookingIds :
         /\ m.bookings[b].lo = d.bookings[b].lo /\ m.bookings[b].hi = d.bookings[b].hi
         /\ m.bookings[b].status \in {d.bookings[b].status, "cancelled", "expired"}
    /\ \A e \in EntryIds :
         /\ SameRequest(m.entries[e], d.entries[e])
         /\ m.entries[e].status \in {d.entries[e].status, "cancelled", "expired"}

LEMMA GivenUpServes ==
    ASSUME NEW d, NEW m, GivenUp(d, m), Proper(d)
    PROVE  Serving(d, m) /\ Proper(m)
<1>1. Served(d, m) = {}
  BY DEF Served, GivenUp
<1>2. Serving(d, m)
  BY <1>1 DEF Serving, GivenUp, Occupying, SameRequest
<1>3. Proper(m)
  BY DEF GivenUp, Proper, Occupying, SameRequest
<1>4. QED
  BY <1>2, <1>3

LEMMA GivenUpMoves ==
    ASSUME NEW d, NEW m, m \in Rows, GivenUp(d, m), NEW q \in {"cancelled", "expired"}, NEW S
    PROVE  /\ MoveBookings(m, S, q) \in Rows /\ GivenUp(d, MoveBookings(m, S, q))
           /\ MoveEntries(m, S, q) \in Rows /\ GivenUp(d, MoveEntries(m, S, q))
<1>1. q \in BookingStatus /\ q \in EntryStatus
  BY DEF BookingStatus, EntryStatus
<1>2. MoveBookings(m, S, q) \in Rows /\ GivenUp(d, MoveBookings(m, S, q))
  BY <1>1, MoveBookingsRows DEF GivenUp
<1>3. MoveEntries(m, S, q) \in Rows /\ GivenUp(d, MoveEntries(m, S, q))
  BY <1>1, MoveEntriesRows DEF GivenUp, SameRequest
<1>4. QED
  BY <1>2, <1>3

LEMMA GivenUpNothing ==
    ASSUME NEW d, d \in Rows
    PROVE  GivenUp(d, d)
  BY DEF GivenUp, SameRequest

LEMMA GivenUpEvents ==
    ASSUME NEW d, NEW m, m \in Rows, GivenUp(d, m), NEW B, B \subseteq BookingIds, NEW type \in EventTypes
    PROVE  GivenUp(d, AppendEvents(m, type, B))
  BY AppendEventsRows DEF GivenUp

(* The rows of every release, as they are before the first waiter is examined. *)
LEMMA ReleasesGiveUp ==
    ASSUME IInv, NEW B, B \subseteq BookingIds, NEW E
    PROVE  /\ GivenUp(db, ExpireHolds(db, B))
           /\ GivenUp(db, AppendEvents(MoveEntries(MoveBookings(db, B, "cancelled"), E, "cancelled"),
                                       "booking_cancelled", B))
           /\ GivenUp(db, MoveEntries(MoveBookings(db, B, "cancelled"), E, "cancelled"))
           /\ GivenUp(db, MoveBookings(db, B, "cancelled"))
<1>1. db \in Rows /\ GivenUp(db, db)
  BY GivenUpNothing DEF IInv, TypeOK
<1>2. "hold_expired" \in EventTypes /\ "booking_cancelled" \in EventTypes
  BY DEF EventTypes
<1> DEFINE i == MoveEntries(db, Linked(db, B), "expired")
           j == MoveBookings(db, B, "cancelled")
<1>3. i \in Rows /\ GivenUp(db, i) /\ j \in Rows /\ GivenUp(db, j)
  BY <1>1, GivenUpMoves
<1> HIDE DEF i, j
<1> DEFINE k == MoveBookings(i, B, "expired")
           l == MoveEntries(j, E, "cancelled")
<1>4. k \in Rows /\ GivenUp(db, k) /\ l \in Rows /\ GivenUp(db, l)
  BY <1>3, GivenUpMoves
<1> HIDE DEF k, l
<1>5. GivenUp(db, AppendEvents(k, "hold_expired", B)) /\ GivenUp(db, AppendEvents(l, "booking_cancelled", B))
  BY <1>2, <1>4, GivenUpEvents
<1>6. QED
  BY <1>3, <1>4, <1>5 DEF ExpireHolds, i, j, k, l

LEMMA ReleaseProgresses ==
    ASSUME IInv, Progress, ~locked, NEW m, GivenUp(db, m), NEW u, Release(m, u)
    PROVE  Progress'
<1>1. work' = m /\ db' = db /\ candidate' = NoEntry
  BY DEF IInv, Release
<1>2. Serving(db, m) /\ Proper(m)
  BY GivenUpServes DEF Progress
<1>3. QED
  BY <1>1, <1>2 DEF Progress, Nominated

(* Rows that were just committed serve nobody. *)
LEMMA CommittedRowsServe ==
    ASSUME NEW d
    PROVE  Serving(d, d)
<1>1. Served(d, d) = {}
  BY DEF Served
<1>2. QED
  BY <1>1 DEF Serving, SameRequest

LEMMA CommitProgresses ==
    ASSUME IInv, ~locked, NEW m, Proper(m), CommitRows(m)
    PROVE  Progress'
<1>1. work' = m /\ db' = m /\ candidate' = NoEntry
  BY DEF IInv, CommitRows
<1>2. QED
  BY <1>1, CommittedRowsServe DEF Progress, Nominated

(* A proper booking, a proper request. *)
LEMMA InsertsStayProper ==
    ASSUME NEW d, d \in Rows, Proper(d)
    PROVE  /\ \A b \in BookingIds, row \in BookingRow : row.lo < row.hi => Proper(InsertBooking(d, b, row))
           /\ \A e \in EntryIds, row \in EntryRow : row.lo < row.hi => Proper(InsertEntry(d, e, row))
<1>1. ASSUME NEW b \in BookingIds, NEW row \in BookingRow, row.lo < row.hi
      PROVE  Proper(InsertBooking(d, b, row))
  <2> DEFINE m == InsertBooking(d, b, row)
  <2>1. m.entries = d.entries /\ m.bookings[b] = row /\ \A c \in BookingIds \ {b} : m.bookings[c] = d.bookings[c]
    BY InsertRows
  <2> HIDE DEF m
  <2>2. Proper(m)
    BY <1>1, <2>1 DEF Proper
  <2>3. QED
    BY <2>2 DEF m
<1>2. ASSUME NEW e \in EntryIds, NEW row \in EntryRow, row.lo < row.hi
      PROVE  Proper(InsertEntry(d, e, row))
  <2> DEFINE m == InsertEntry(d, e, row)
  <2>1. m.bookings = d.bookings /\ m.entries[e] = row /\ \A f \in EntryIds \ {e} : m.entries[f] = d.entries[f]
    BY InsertRows
  <2> HIDE DEF m
  <2>2. Proper(m)
    BY <1>2, <2>1 DEF Proper
  <2>3. QED
    BY <2>2 DEF m
<1>3. QED
  BY <1>1, <1>2

LEMMA EventsStayProper ==
    ASSUME NEW d, d \in Rows, Proper(d), NEW B, B \subseteq BookingIds, NEW type \in EventTypes
    PROVE  Proper(AppendEvents(d, type, B))
  BY AppendEventsRows DEF Proper

(* An answered request moves no window. *)
LEMMA MovesStayProper ==
    ASSUME NEW d, d \in Rows, Proper(d), NEW b \in BookingIds, d.bookings[b].status = "offered",
           NEW E
    PROVE  /\ Proper(MoveEntries(MoveBookings(d, {b}, "confirmed"), E, "accepted"))
           /\ MoveEntries(MoveBookings(d, {b}, "confirmed"), E, "accepted") \in Rows
<1> DEFINE i == MoveBookings(d, {b}, "confirmed")
<1>1. /\ i \in Rows /\ i.entries = d.entries
      /\ \A c \in BookingIds : /\ i.bookings[c].lo = d.bookings[c].lo /\ i.bookings[c].hi = d.bookings[c].hi
                               /\ i.bookings[c].status \in Occupying => d.bookings[c].status \in Occupying
  BY MoveBookingsRows DEF BookingStatus, Occupying
<1> HIDE DEF i
<1>2. Proper(i)
  BY <1>1 DEF Proper
<1>3. MoveEntries(i, E, "accepted") \in Rows /\ Proper(MoveEntries(i, E, "accepted"))
  BY <1>1, <1>2, MoveEntriesRows DEF Proper, EntryStatus
<1>4. QED
  BY <1>3 DEF i

LEMMA WithdrawStaysProper ==
    ASSUME NEW d, d \in Rows, Proper(d), NEW E
    PROVE  Proper(MoveEntries(d, E, "cancelled"))
  BY MoveEntriesRows DEF Proper, EntryStatus

LEMMA MembersProgress ==
    ASSUME IInv, HoldsOK, Progress, Members
    PROVE  Progress'
<1>1. db \in Rows /\ Proper(db) /\ GoodRows(db, now) /\ now \in Nat
  BY DEF IInv, TypeOK, HoldsOK, Progress
<1>2. ASSUME NEW u \in Users, NEW b \in BookingIds, NEW lo \in Times, NEW hi \in Times,
             CreateBooking(u, b, lo, hi)
      PROVE  Progress'
  <2> DEFINE row == [status |-> "confirmed", user |-> u, lo |-> lo, hi |-> hi,
                     expires |-> NoTime, version |-> 1]
             i == InsertBooking(db, b, row)
             m == AppendEvents(i, "booking_confirmed", {b})
  <2>1. row \in BookingRow /\ row.lo = lo /\ row.hi = hi
    BY DEF BookingRow, BookingStatus
  <2>2. CommitRows(m) /\ ~locked /\ lo < hi
    BY <1>2 DEF CreateBooking, BookingWindow, Aligned
  <2> HIDE DEF row, m
  <2>3. i \in Rows /\ Proper(i)
    BY <1>1, <2>1, <2>2, InsertRows, InsertsStayProper
  <2> HIDE DEF i
  <2>4. Proper(m)
    BY <2>3, EventsStayProper DEF EventTypes, m
  <2>5. QED
    BY <2>2, <2>4, CommitProgresses
<1>3. ASSUME NEW u \in Users, NEW e \in EntryIds, NEW lo \in Times, NEW hi \in Times,
             JoinWaitlist(u, e, lo, hi)
      PROVE  Progress'
  <2>1. PICK begun \in Samples :
          /\ CommitRows(InsertEntry(db, e,
                [status |-> "waiting", user |-> u, lo |-> lo, hi |-> hi,
                 created |-> begun, booking |-> NoBooking, version |-> 1]))
          /\ \E t \in Samples : BookingWindow(lo, hi, t)
    BY <1>3 DEF JoinWaitlist
  <2> DEFINE row == [status |-> "waiting", user |-> u, lo |-> lo, hi |-> hi,
                     created |-> begun, booking |-> NoBooking, version |-> 1]
  <2>2. row \in EntryRow /\ row.lo = lo /\ row.hi = hi
    BY <1>1 DEF EntryRow, EntryStatus, Samples
  <2>3. CommitRows(InsertEntry(db, e, row)) /\ ~locked /\ lo < hi
    BY <1>3, <2>1 DEF JoinWaitlist, BookingWindow, Aligned
  <2> HIDE DEF row
  <2>4. Proper(InsertEntry(db, e, row))
    BY <1>1, <2>2, <2>3, InsertsStayProper
  <2>5. QED
    BY <2>3, <2>4, CommitProgresses
<1>4. ASSUME NEW b \in BookingIds, CancelBooking(b) PROVE Progress'
  BY <1>4, ReleasesGiveUp, ReleaseProgresses DEF CancelBooking, ReleaseBooking
<1>5. ASSUME NEW e \in EntryIds, AcceptOffer(e) PROVE Progress'
  <2> DEFINE b == db.entries[e].booking
             m == MoveEntries(MoveBookings(db, {b}, "confirmed"), {e}, "accepted")
             r == AppendEvents(m, "booking_confirmed", {b})
  <2>1. db.bookings[b].status = "offered" /\ ~locked /\ CommitRows(r) /\ b \in BookingIds
    BY <1>1, <1>5, LinkFacts DEF AcceptOffer, GoodRows
  <2>2. m \in Rows /\ Proper(m)
    BY <1>1, <2>1, MovesStayProper
  <2> HIDE DEF m
  <2>3. Proper(r)
    BY <2>1, <2>2, EventsStayProper DEF EventTypes
  <2>4. QED
    BY <2>1, <2>3, CommitProgresses
<1>6. ASSUME NEW e \in EntryIds, AcceptTooLate(e) PROVE Progress'
  <2>1. db.entries[e].booking \in BookingIds
    BY <1>1, <1>6, LinkFacts DEF AcceptTooLate, GoodRows
  <2>2. QED
    BY <1>6, <2>1, ReleasesGiveUp, ReleaseProgresses DEF AcceptTooLate
<1>7. ASSUME NEW e \in EntryIds, Withdraw(e) PROVE Progress'
  BY <1>1, <1>7, WithdrawStaysProper, CommitProgresses DEF Withdraw
<1>8. ASSUME NEW e \in EntryIds, Decline(e) PROVE Progress'
  BY <1>8, ReleasesGiveUp, ReleaseProgresses DEF Decline
<1>9. QED
  BY <1>2, <1>3, <1>4, <1>5, <1>6, <1>7, <1>8 DEF Members

LEMMA AdministratorsProgress ==
    ASSUME IInv, HoldsOK, Progress, Administrators
    PROVE  Progress'
<1>1. db \in Rows /\ Proper(db)
  BY DEF IInv, TypeOK, Progress
<1>2. ASSUME NEW b \in BookingIds, AdminCancelBooking(b) PROVE Progress'
  BY <1>2, ReleasesGiveUp, ReleaseProgresses DEF AdminCancelBooking, ReleaseBooking
<1>3. ASSUME NEW b \in BookingIds, CancelBlackout(b) PROVE Progress'
  BY <1>3, ReleasesGiveUp, ReleaseProgresses DEF CancelBlackout
<1>4. ASSUME NEW b \in BookingIds, NEW lo \in Times, NEW hi \in Times, CreateBlackout(b, lo, hi)
      PROVE  Progress'
  <2> DEFINE row == [status |-> "confirmed", user |-> Nobody, lo |-> lo, hi |-> hi,
                     expires |-> NoTime, version |-> 1]
  <2>1. row \in BookingRow /\ row.lo = lo /\ row.hi = hi
    BY DEF BookingRow, BookingStatus
  <2>2. CommitRows(InsertBooking(db, b, row)) /\ ~locked /\ lo < hi
    BY <1>4 DEF CreateBlackout, BlackoutWindow, Aligned
  <2> HIDE DEF row
  <2>3. Proper(InsertBooking(db, b, row))
    BY <1>1, <2>1, <2>2, InsertsStayProper
  <2>4. QED
    BY <2>2, <2>3, CommitProgresses
<1>5. ASSUME \/ Deactivate \/ Activate \/ \E u \in Managed : SetEnabled(u)
      PROVE  Progress'
  BY <1>5 DEF Deactivate, Activate, SetEnabled, Progress, Nominated
<1>6. QED
  BY <1>2, <1>3, <1>4, <1>5 DEF Administrators

(* Examine: nobody is served, at most one waiter is dropped. *)
LEMMA ExamineProgresses ==
    ASSUME IInv, Progress, NEW e \in EntryIds, Examine(e)
    PROVE  Progress'
<1>1. /\ work \in Rows /\ candidate = NoEntry /\ cursor' = Place(work, e) /\ db' = db
      /\ work.entries[e].status = "waiting"
  BY DEF IInv, TypeOK, Examine, IsNext, Unscanned, InState
<1>2. CASE work' = work /\ candidate' \in {e, NoEntry}
  <2>1. Nominated'
    BY <1>1, <1>2 DEF Nominated, Place
  <2>2. QED
    BY <1>1, <1>2, <2>1 DEF Progress
<1>3. CASE work' = MoveEntries(work, {e}, "expired") /\ candidate' = NoEntry
  <2> DEFINE m == MoveEntries(work, {e}, "expired")
  <2>1. /\ m.bookings = work.bookings
        /\ \A f \in EntryIds :
             /\ m.entries[f].lo = work.entries[f].lo /\ m.entries[f].hi = work.entries[f].hi
             /\ m.entries[f].created = work.entries[f].created
             /\ m.entries[f].booking = work.entries[f].booking
             /\ m.entries[f].status = IF f = e THEN "expired" ELSE work.entries[f].status
    BY <1>1, MoveEntriesRows DEF EntryStatus
  <2>2. work' = m
    BY <1>3
  <2> HIDE DEF m
  <2>3. Proper(m)
    BY <2>1 DEF Progress, Proper
  <2>4. Serving(db, work)
    BY DEF Progress
  <2>5. Served(db, m) = Served(db, work)
    BY <1>1, <2>1 DEF Served
  <2>6. \A f \in EntryIds : Place(m, f) = Place(work, f) /\ SameRequest(m.entries[f], work.entries[f])
    BY <2>1 DEF Place, SameRequest
  <2>7. InState(m, EntryIds, {"waiting"}) \subseteq InState(work, EntryIds, {"waiting"})
    BY <2>1 DEF InState
  <2>8. \A f \in Served(db, m) : f \in EntryIds
    BY DEF Served
  <2>9. /\ \A b \in BookingIds : m.bookings[b].status \in Occupying =>
            \/ /\ db.bookings[b].status \in Occupying
               /\ m.bookings[b].lo = db.bookings[b].lo /\ m.bookings[b].hi = db.bookings[b].hi
            \/ \E f \in Served(db, m) : m.entries[f].booking = b
        /\ \A f \in Served(db, m) : db.bookings[m.entries[f].booking].status = "absent"
    BY <2>1, <2>4, <2>5, <2>8 DEF Serving
  <2>10. ASSUME NEW f \in Served(db, m), NEW g \in InState(m, EntryIds, {"waiting"}),
                Inside(m.entries[g], m.entries[f])
         PROVE  Earlier(Place(m, f), Place(m, g))
    <3>1. /\ f \in Served(db, work) /\ f \in EntryIds
          /\ g \in InState(work, EntryIds, {"waiting"}) /\ g \in EntryIds
      BY <2>5, <2>7, <2>8 DEF InState
    <3>2. Inside(work.entries[g], work.entries[f])
      BY <2>1, <2>10, <3>1 DEF Inside
    <3>3. Earlier(Place(work, f), Place(work, g))
      BY <2>4, <3>1, <3>2 DEF Serving
    <3>4. QED
      BY <2>6, <3>1, <3>3
  <2>11. \A f \in EntryIds :
            /\ m.entries[f].status = "waiting" => db.entries[f].status = "waiting"
            /\ db.entries[f].status = "waiting" => SameRequest(m.entries[f], db.entries[f])
    BY <2>1, <2>4 DEF Serving, SameRequest
  <2>12. \A b \in BookingIds : m.bookings[b].status = "absent" => db.bookings[b].status = "absent"
    BY <2>1, <2>4 DEF Serving
  <2>13. Serving(db, m)
    BY <2>9, <2>10, <2>11, <2>12 DEF Serving
  <2>14. QED
    BY <1>1, <1>3, <2>2, <2>3, <2>13 DEF Progress, Nominated
<1>4. QED
  BY <1>1, <1>2, <1>3 DEF Examine

(* Whoever still waits, for the candidate's window or a part of it, came later:
   those who came before were found blocked, and then the candidate is blocked too. *)
LEMMA CandidateIsOldest ==
    ASSUME IInv, Progress, locked, candidate # NoEntry,
           NEW f \in InState(work, EntryIds, {"waiting"}), f # candidate,
           Inside(work.entries[f], work.entries[candidate])
    PROVE  Earlier(Place(work, candidate), Place(work, f))
<1>1. ScanOK /\ cursor = Place(work, candidate) /\ f \in EntryIds /\ candidate \in EntryIds /\ work \in Rows
  BY DEF IInv, TypeOK, Progress, Nominated, InState
<1>2. ~Occupied(work, work.entries[f])
  <2>1. SUFFICES ASSUME NEW b \in BookingIds, work.bookings[b].status \in Occupying,
                        Overlap(work.bookings[b], work.entries[f])
                 PROVE  FALSE
    BY DEF Occupied
  <2>2. /\ work.bookings[b].lo \in Int /\ work.bookings[b].hi \in Int
        /\ work.entries[f].lo \in Int /\ work.entries[f].hi \in Int
        /\ work.entries[candidate].lo \in Int /\ work.entries[candidate].hi \in Int
    BY <1>1, RowsParts DEF BookingRow, EntryRow, Times
  <2>3. Overlap(work.bookings[b], work.entries[candidate])
    BY <2>1, <2>2 DEF Overlap, Inside
  <2>4. QED
    BY <1>1, <2>1, <2>3 DEF ScanOK, Occupied
<1>3. f \in Unscanned(work, cursor)
  BY <1>1, <1>2 DEF ScanOK
<1>4. QED
  BY <1>1, <1>3 DEF Unscanned

LEMMA OfferProgresses ==
    ASSUME IInv, HoldsOK, Progress, NEW b \in BookingIds, Offer(b)
    PROVE  Progress'
<1>1. PICK e \in EntryIds : e = candidate /\ work.entries[e].status = "waiting"
  BY DEF IInv, TypeOK, ScanOK, Offer
<1> DEFINE row == work.entries[e]
           hold == [status |-> "offered", user |-> row.user, lo |-> row.lo, hi |-> row.hi,
                    expires |-> OfferExpiry(now, row.lo), version |-> 1]
           link == [row EXCEPT !.status = "offered", !.booking = b, !.version = row.version + 1]
           i == InsertBooking(work, b, hold)
           j == InsertEntry(i, e, link)
<1>2. /\ work \in Rows /\ now \in Nat /\ locked /\ candidate # NoEntry /\ LinksOK(work)
      /\ db' = db /\ candidate' = NoEntry /\ work.bookings[b].status = "absent"
      /\ work' = AppendEvents(j, "waitlist_offered", {b})
  BY <1>1 DEF Offer, IInv, TypeOK, HoldsOK, GoodRows
<1>3. row \in EntryRow
  BY <1>2, RowsParts
<1>4. hold \in BookingRow /\ hold.lo = row.lo /\ hold.hi = row.hi
  BY <1>2, <1>3, OfferExpiryBound DEF BookingRow, BookingStatus, EntryRow
<1>5. /\ link \in EntryRow /\ link.status = "offered" /\ link.booking = b /\ SameRequest(link, row)
  <2>1. [row EXCEPT !.status = "offered"] \in EntryRow
    BY <1>3 DEF EntryRow, EntryStatus
  <2>2. [[row EXCEPT !.status = "offered"] EXCEPT !.booking = b] \in EntryRow
    BY <2>1 DEF EntryRow
  <2>3. row.version + 1 \in Nat
    BY <1>3 DEF EntryRow
  <2>4. link \in EntryRow
    BY <2>2, <2>3 DEF EntryRow
  <2>5. QED
    BY <1>3, <2>4 DEF EntryRow, SameRequest
<1> HIDE DEF row, hold, link
<1>6. /\ i \in Rows /\ i.entries = work.entries /\ i.bookings[b] = hold
      /\ \A c \in BookingIds \ {b} : i.bookings[c] = work.bookings[c]
  BY <1>2, <1>4, InsertRows
<1> HIDE DEF i
<1>7. /\ j \in Rows /\ j.bookings = i.bookings /\ j.entries[e] = link
      /\ \A f \in EntryIds \ {e} : j.entries[f] = work.entries[f]
  BY <1>5, <1>6, InsertRows
<1> HIDE DEF j
<1>8. work'.bookings = i.bookings /\ work'.entries = j.entries
  BY <1>2, <1>7, AppendEventsRows DEF EventTypes
<1> DEFINE m == work'
<1>9. /\ m.bookings[b] = hold /\ \A c \in BookingIds \ {b} : m.bookings[c] = work.bookings[c]
      /\ m.entries[e] = link /\ \A f \in EntryIds \ {e} : m.entries[f] = work.entries[f]
  BY <1>6, <1>7, <1>8
<1> HIDE DEF m
<1>10. Serving(db, work) /\ db.entries[e].status = "waiting" /\ SameRequest(row, db.entries[e])
  BY <1>1 DEF Progress, Serving, row
<1>11. Served(db, m) = Served(db, work) \cup {e}
  BY <1>1, <1>5, <1>9, <1>10 DEF Served
<1>12. e \notin Served(db, work) /\ Served(db, work) \subseteq EntryIds
  BY <1>1 DEF Served
<1>13. \A f \in Served(db, work) : f \in EntryIds \ {e} /\ m.entries[f] = work.entries[f]
  BY <1>9, <1>12
<1>14. \A c \in BookingIds : m.bookings[c].status = "absent" => db.bookings[c].status = "absent"
  BY <1>2, <1>9, <1>10 DEF Serving
<1>15. ASSUME NEW c \in BookingIds, m.bookings[c].status \in Occupying
       PROVE  \/ /\ db.bookings[c].status \in Occupying
                 /\ m.bookings[c].lo = db.bookings[c].lo /\ m.bookings[c].hi = db.bookings[c].hi
              \/ \E f \in Served(db, m) : m.entries[f].booking = c
  <2>1. CASE c = b
    BY <1>5, <1>9, <1>11, <2>1
  <2>2. CASE c # b
    BY <1>9, <1>10, <1>11, <1>13, <1>15, <2>2 DEF Serving
  <2>3. QED
    BY <2>1, <2>2
<1>16. \A f \in EntryIds : /\ m.entries[f].status = "waiting" => db.entries[f].status = "waiting"
                           /\ db.entries[f].status = "waiting" => SameRequest(m.entries[f], db.entries[f])
  BY <1>5, <1>9, <1>10 DEF Serving, SameRequest
<1>17. \A f \in Served(db, m) : db.bookings[m.entries[f].booking].status = "absent"
  BY <1>2, <1>5, <1>9, <1>10, <1>11, <1>13 DEF Serving
<1>18. ASSUME NEW f \in Served(db, m), NEW g \in InState(m, EntryIds, {"waiting"}),
              Inside(m.entries[g], m.entries[f])
       PROVE  Earlier(Place(m, f), Place(m, g))
  <2>1. g \in EntryIds \ {e} /\ g \in InState(work, EntryIds, {"waiting"}) /\ m.entries[g] = work.entries[g]
    BY <1>5, <1>9 DEF InState
  <2>2. CASE f = e
    <3>1. Inside(work.entries[g], work.entries[e])
      BY <1>5, <1>9, <1>18, <2>1, <2>2 DEF Inside, SameRequest, row
    <3>2. Earlier(Place(work, e), Place(work, g))
      BY <1>1, <1>2, <2>1, <3>1, CandidateIsOldest
    <3>3. Place(m, e) = Place(work, e) /\ Place(m, g) = Place(work, g)
      BY <1>5, <1>9, <2>1 DEF Place, SameRequest, row
    <3>4. QED
      BY <2>2, <3>2, <3>3
  <2>3. CASE f # e
    <3>1. f \in Served(db, work) /\ m.entries[f] = work.entries[f]
      BY <1>11, <1>13, <2>3
    <3>2. Earlier(Place(work, f), Place(work, g))
      BY <1>10, <1>18, <2>1, <3>1 DEF Serving
    <3>3. QED
      BY <2>1, <3>1, <3>2 DEF Place
  <2>4. QED
    BY <2>2, <2>3
<1>19. Serving(db, m)
  BY <1>14, <1>15, <1>16, <1>17, <1>18 DEF Serving
<1>20. Proper(m)
  <2>1. row.lo < row.hi
    BY <1>1 DEF Progress, Proper, row
  <2>2. QED
    BY <1>4, <1>5, <1>9, <2>1 DEF Progress, Proper
<1>21. QED
  BY <1>2, <1>19, <1>20 DEF Progress, Nominated, m

LEMMA InitProgress == Init => Progress
<1>1. SUFFICES ASSUME Init PROVE Progress
  OBVIOUS
<1>2. Proper(NoRows)
  BY DEF Proper, NoRows, AbsentBooking, AbsentEntry, Occupying
<1>3. QED
  BY <1>1, <1>2, CommittedRowsServe DEF Init, Progress, Nominated

LEMMA NextProgress == IInv /\ HoldsOK /\ Progress /\ [Next]_vars => Progress'
<1>1. SUFFICES ASSUME IInv, HoldsOK, Progress, [Next]_vars PROVE Progress'
  OBVIOUS
<1>2. CASE ExpireAndPromote
  <2>1. Overdue \subseteq BookingIds /\ ~locked /\ Release(ExpireHolds(db, Overdue), Nobody)
    BY <1>2 DEF Overdue, ExpireAndPromote
  <2>2. QED
    BY <1>1, <2>1, ReleasesGiveUp, ReleaseProgresses
<1>3. CASE PromoteWaiters
  <2>1. CASE Commit
    BY <1>1, <2>1, CommittedRowsServe DEF Commit, Finished, Progress, Nominated
  <2>2. QED
    BY <1>1, <1>3, <2>1, ExamineProgresses, OfferProgresses DEF PromoteWaiters
<1>4. CASE Crash
  BY <1>1, <1>4, CommittedRowsServe DEF Crash, Progress, Nominated
<1>5. CASE Tick \/ UNCHANGED vars
  BY <1>1, <1>5 DEF Tick, vars, Progress, Nominated
<1>6. QED
  BY <1>1, <1>2, <1>3, <1>4, <1>5, MembersProgress, AdministratorsProgress DEF Next

LEMMA AlwaysProgress == Spec => []Progress
<1>1. Spec => [](IInv /\ HoldsOK)
  BY Inductive, AlwaysHoldsOK, PTL
<1>2. QED
  BY <1>1, InitProgress, NextProgress, PTL DEF Spec

-----------------------------------------------------------------------------
(* What readers of committed rows see. *)

HeldIn(d) == {[lo |-> d.bookings[b].lo, hi |-> d.bookings[b].hi] :
                b \in {c \in BookingIds : d.bookings[c].status \in Occupying}}

RequestOf(d, e) == [id |-> e, lo |-> d.entries[e].lo, hi |-> d.entries[e].hi, created |-> d.entries[e].created]

QueueIn(d) == {RequestOf(d, e) : e \in InState(d, EntryIds, {"waiting"})}

LEMMA HeldIsHeld ==
    /\ Held = HeldIn(db) /\ Queue = QueueIn(db)
    /\ Held' = HeldIn(db)' /\ Queue' = QueueIn(db)'
  BY DEF Held, HeldIn, Queue, QueueIn, RequestOf

(* A window is free in the promise where it is free in the rows. *)
LEMMA FreeWindows ==
    ASSUME NEW d, NEW w
    PROVE  Promise!Free(HeldIn(d), w) <=> ~Occupied(d, w)
<1>1. ASSUME NEW b \in BookingIds, d.bookings[b].status \in Occupying, Overlap(d.bookings[b], w)
      PROVE  ~Promise!Free(HeldIn(d), w)
  <2> DEFINE h == [lo |-> d.bookings[b].lo, hi |-> d.bookings[b].hi]
  <2>1. h \in HeldIn(d)
    BY <1>1 DEF HeldIn
  <2>2. Promise!Collide(h, w)
    BY <1>1 DEF Promise!Collide, Overlap
  <2>3. QED
    BY <2>1, <2>2 DEF Promise!Free
<1>2. ASSUME NEW h \in HeldIn(d), Promise!Collide(h, w)
      PROVE  Occupied(d, w)
  <2>1. PICK b \in BookingIds : d.bookings[b].status \in Occupying
                                /\ h = [lo |-> d.bookings[b].lo, hi |-> d.bookings[b].hi]
    BY DEF HeldIn
  <2>2. Overlap(d.bookings[b], w)
    BY <1>2, <2>1 DEF Promise!Collide, Overlap
  <2>3. QED
    BY <2>1, <2>2 DEF Occupied
<1>3. QED
  BY <1>1, <1>2 DEF Promise!Free, Occupied

(* Two active bookings of disjoint rows have different windows. *)
LEMMA WindowsDiffer ==
    ASSUME NEW d, d \in Rows, Disjoint(d), Proper(d), NEW b \in BookingIds, NEW c \in BookingIds,
           d.bookings[b].status \in Occupying, d.bookings[c].status \in Occupying,
           d.bookings[b].lo = d.bookings[c].lo, d.bookings[b].hi = d.bookings[c].hi
    PROVE  b = c
<1>1. d.bookings[b].lo \in Int /\ d.bookings[b].hi \in Int /\ d.bookings[b].lo < d.bookings[b].hi
  BY RowsParts DEF BookingRow, Times, Proper
<1>2. Overlap(d.bookings[b], d.bookings[c])
  BY <1>1 DEF Overlap
<1>3. QED
  BY <1>2 DEF Disjoint

(* Settle, said of two sets of rows. *)
Settled(H, Q, H1, Q1, gone, served) ==
    /\ H1 = (H \ gone) \cup {Promise!WindowOf(r) : r \in served}
    /\ Q1 \subseteq Q \ served
    /\ \A r \in served : Promise!Free(H \ gone, r)
    /\ \A r, s \in served : r = s \/ ~Promise!Collide(r, s)
    /\ \A r \in Q1 : ~Promise!Free(H1, r)
    /\ \A r \in served, s \in Q1 : Promise!Within(s, r) => Promise!Older(r, s)

LEMMA ReleaseSettles ==
    ASSUME NEW d, NEW w, d \in Rows, w \in Rows, LinksOK(w), Disjoint(d), Disjoint(w), AllBlocked(w),
           Proper(d), Proper(w), Serving(d, w)
    PROVE  \E gone \in SUBSET HeldIn(d), served \in SUBSET QueueIn(d) :
             Settled(HeldIn(d), QueueIn(d), HeldIn(w), QueueIn(w), gone, served)
<1> DEFINE Window(b) == [lo |-> d.bookings[b].lo, hi |-> d.bookings[b].hi]
           Gone == {b \in BookingIds : d.bookings[b].status \in Occupying
                                       /\ w.bookings[b].status \notin Occupying}
           gone == {Window(b) : b \in Gone}
           served == {RequestOf(d, e) : e \in Served(d, w)}
<1>1. gone \in SUBSET HeldIn(d)
  BY DEF HeldIn
<1>2. served \in SUBSET QueueIn(d)
  BY DEF QueueIn, Served, InState
(* What is held on is what was held and is active still. *)
<1>3. \A h : h \in HeldIn(d) \ gone <=>
            \E b \in BookingIds : /\ d.bookings[b].status \in Occupying /\ w.bookings[b].status \in Occupying
                                  /\ h = Window(b)
  <2>1. ASSUME NEW h \in HeldIn(d), h \notin gone
        PROVE  \E b \in BookingIds : /\ d.bookings[b].status \in Occupying /\ w.bookings[b].status \in Occupying
                                     /\ h = Window(b)
    BY <2>1 DEF HeldIn
  <2>2. ASSUME NEW b \in BookingIds, d.bookings[b].status \in Occupying, w.bookings[b].status \in Occupying
        PROVE  Window(b) \in HeldIn(d) /\ Window(b) \notin gone
    <3>1. Window(b) \in HeldIn(d)
      BY <2>2 DEF HeldIn
    <3>2. ASSUME NEW c \in Gone, Window(b) = Window(c)
          PROVE  FALSE
      <4>1. d.bookings[b].lo = d.bookings[c].lo /\ d.bookings[b].hi = d.bookings[c].hi
        BY <3>2
      <4>2. b = c
        BY <2>2, <3>2, <4>1, WindowsDiffer
      <4>3. QED
        BY <2>2, <3>2, <4>2
    <3>3. QED
      BY <3>1, <3>2
  <2>3. QED
    BY <2>1, <2>2
(* The hold of a served request. *)
<1>4. ASSUME NEW e \in Served(d, w)
      PROVE  LET c == w.entries[e].booking IN
             /\ e \in EntryIds /\ c \in BookingIds
             /\ w.bookings[c].status = "offered" /\ d.bookings[c].status = "absent"
             /\ w.bookings[c].lo = d.entries[e].lo /\ w.bookings[c].hi = d.entries[e].hi
             /\ SameRequest(w.entries[e], d.entries[e])
  BY <1>4, LinkFacts DEF Served, Serving, SameRequest
<1>5. HeldIn(w) = (HeldIn(d) \ gone) \cup {Promise!WindowOf(r) : r \in served}
  <2>1. ASSUME NEW b \in BookingIds, w.bookings[b].status \in Occupying
        PROVE  [lo |-> w.bookings[b].lo, hi |-> w.bookings[b].hi]
                 \in (HeldIn(d) \ gone) \cup {Promise!WindowOf(r) : r \in served}
    <3>1. CASE /\ d.bookings[b].status \in Occupying
               /\ w.bookings[b].lo = d.bookings[b].lo /\ w.bookings[b].hi = d.bookings[b].hi
      BY <1>3, <2>1, <3>1
    <3>2. CASE \E e \in Served(d, w) : w.entries[e].booking = b
      <4>1. PICK e \in Served(d, w) : w.entries[e].booking = b
        BY <3>2
      <4>2. RequestOf(d, e) \in served
        OBVIOUS
      <4>3. Promise!WindowOf(RequestOf(d, e)) = [lo |-> w.bookings[b].lo, hi |-> w.bookings[b].hi]
        BY <1>4, <4>1 DEF Promise!WindowOf, RequestOf
      <4>4. QED
        BY <4>2, <4>3
    <3>3. QED
      BY <2>1, <3>1, <3>2 DEF Serving
  <2>2. ASSUME NEW h \in HeldIn(d) \ gone PROVE h \in HeldIn(w)
    <3>1. PICK b \in BookingIds : /\ d.bookings[b].status \in Occupying /\ w.bookings[b].status \in Occupying
                                  /\ h = Window(b)
      BY <1>3
    <3>2. ~\E e \in Served(d, w) : w.entries[e].booking = b
      BY <1>4, <3>1 DEF Occupying
    <3>3. w.bookings[b].lo = d.bookings[b].lo /\ w.bookings[b].hi = d.bookings[b].hi
      BY <3>1, <3>2 DEF Serving
    <3>4. QED
      BY <3>1, <3>3 DEF HeldIn
  <2>3. ASSUME NEW r \in served PROVE Promise!WindowOf(r) \in HeldIn(w)
    <3>1. PICK e \in Served(d, w) : r = RequestOf(d, e)
      OBVIOUS
    <3>2. Promise!WindowOf(r) = [lo |-> w.bookings[w.entries[e].booking].lo,
                                 hi |-> w.bookings[w.entries[e].booking].hi]
      BY <1>4, <3>1 DEF Promise!WindowOf, RequestOf
    <3>3. QED
      BY <1>4, <3>2 DEF HeldIn, Occupying
  <2>4. \A h \in HeldIn(w) : h \in (HeldIn(d) \ gone) \cup {Promise!WindowOf(r) : r \in served}
    BY <2>1 DEF HeldIn
  <2> HIDE DEF gone, served
  <2>5. QED
    BY <2>2, <2>3, <2>4
<1>6. QueueIn(w) \subseteq QueueIn(d) \ served
  <2>1. ASSUME NEW e \in InState(w, EntryIds, {"waiting"})
        PROVE  RequestOf(w, e) \in QueueIn(d) /\ RequestOf(w, e) \notin served
    <3>1. e \in EntryIds /\ w.entries[e].status = "waiting" /\ d.entries[e].status = "waiting"
      BY DEF InState, Serving
    <3>2. RequestOf(w, e) = RequestOf(d, e)
      BY <3>1 DEF Serving, SameRequest, RequestOf
    <3>3. \A f \in Served(d, w) : f # e
      BY <3>1 DEF Served
    <3>4. \A f : RequestOf(d, f).id = f /\ RequestOf(w, f).id = f
      BY DEF RequestOf
    <3>5. RequestOf(w, e) \notin served
      BY <3>3, <3>4
    <3>6. QED
      BY <3>1, <3>2, <3>5 DEF QueueIn, InState
  <2> HIDE DEF served
  <2>2. QED
    BY <2>1 DEF QueueIn
<1>7. ASSUME NEW r \in served PROVE Promise!Free(HeldIn(d) \ gone, r)
  <2>1. PICK e \in Served(d, w) : r = RequestOf(d, e)
    OBVIOUS
  <2>2. ASSUME NEW h \in HeldIn(d) \ gone, Promise!Collide(h, r) PROVE FALSE
    <3>1. PICK b \in BookingIds : /\ d.bookings[b].status \in Occupying /\ w.bookings[b].status \in Occupying
                                  /\ h = Window(b)
      BY <1>3, <2>2
    <3>2. ~\E f \in Served(d, w) : w.entries[f].booking = b
      BY <1>4, <3>1 DEF Occupying
    <3>3. w.bookings[b].lo = d.bookings[b].lo /\ w.bookings[b].hi = d.bookings[b].hi
      BY <3>1, <3>2 DEF Serving
    <3>4. Overlap(w.bookings[b], w.bookings[w.entries[e].booking])
      BY <1>4, <2>1, <2>2, <3>1, <3>3 DEF Promise!Collide, Overlap, RequestOf
    <3>5. b # w.entries[e].booking
      BY <3>2
    <3>6. QED
      BY <1>4, <3>1, <3>4, <3>5 DEF Disjoint, Occupying
  <2>3. QED
    BY <2>2 DEF Promise!Free
<1>8. ASSUME NEW r \in served, NEW s \in served, Promise!Collide(r, s) PROVE r = s
  <2>1. PICK e \in Served(d, w), f \in Served(d, w) : r = RequestOf(d, e) /\ s = RequestOf(d, f)
    OBVIOUS
  <2>2. Overlap(w.bookings[w.entries[e].booking], w.bookings[w.entries[f].booking])
    BY <1>4, <1>8, <2>1 DEF Promise!Collide, Overlap, RequestOf
  <2>3. w.entries[e].booking = w.entries[f].booking
    BY <1>4, <2>2 DEF Disjoint, Occupying
  <2>4. e = f
    BY <1>4, <2>3, ConstantsAssumption DEF LinksOK
  <2>5. QED
    BY <2>1, <2>4
<1>9. ASSUME NEW r \in QueueIn(w) PROVE ~Promise!Free(HeldIn(w), r)
  <2>1. PICK e \in InState(w, EntryIds, {"waiting"}) : r = RequestOf(w, e)
    BY DEF QueueIn
  <2>2. Occupied(w, r)
    BY <2>1, OccupiedByBounds DEF AllBlocked, RequestOf
  <2>3. QED
    BY <2>2, FreeWindows
<1>10. ASSUME NEW r \in served, NEW s \in QueueIn(w), Promise!Within(s, r) PROVE Promise!Older(r, s)
  <2>1. PICK e \in Served(d, w) : r = RequestOf(d, e)
    OBVIOUS
  <2>2. PICK f \in InState(w, EntryIds, {"waiting"}) : s = RequestOf(w, f)
    BY DEF QueueIn
  <2>3. Inside(w.entries[f], w.entries[e])
    BY <1>4, <1>10, <2>1, <2>2 DEF Promise!Within, RequestOf, Inside, SameRequest
  <2>4. Earlier(Place(w, e), Place(w, f))
    BY <2>3 DEF Serving
  <2>5. QED
    BY <1>4, <2>1, <2>2, <2>4 DEF Earlier, Place, Promise!Older, RequestOf, SameRequest
<1> HIDE DEF gone, served
<1>11. Settled(HeldIn(d), QueueIn(d), HeldIn(w), QueueIn(w), gone, served)
  BY <1>5, <1>6, <1>7, <1>8, <1>9, <1>10 DEF Settled
<1>12. QED
  BY <1>1, <1>2, <1>11

(* Steps that write one row at once. *)
LEMMA ReservesAWindow ==
    ASSUME db \in Rows, NEW b \in BookingIds, NEW row \in BookingRow, db.bookings[b].status = "absent",
           row.status = "confirmed", ~Occupied(db, [lo |-> row.lo, hi |-> row.hi]),
           db'.bookings = InsertBooking(db, b, row).bookings, db'.entries = db.entries
    PROVE  Promise!PromiseNext
<1> DEFINE w == [lo |-> row.lo, hi |-> row.hi]
<1>1. db'.bookings[b] = row /\ \A c \in BookingIds \ {b} : db'.bookings[c] = db.bookings[c]
  BY InsertRows
<1>2. Held' = Held \cup {w}
  <2>1. \A h : h \in Held' <=> \E c \in BookingIds : /\ db'.bookings[c].status \in Occupying
                                                     /\ h = [lo |-> db'.bookings[c].lo, hi |-> db'.bookings[c].hi]
    BY DEF Held
  <2>2. \A h : h \in Held <=> \E c \in BookingIds : /\ db.bookings[c].status \in Occupying
                                                    /\ h = [lo |-> db.bookings[c].lo, hi |-> db.bookings[c].hi]
    BY DEF Held
  <2>3. db'.bookings[b].status \in Occupying /\ db.bookings[b].status \notin Occupying
    BY <1>1 DEF Occupying
  <2>4. ASSUME NEW h, h \in Held' PROVE h \in Held \cup {w}
    BY <1>1, <2>1, <2>2, <2>4
  <2>5. ASSUME NEW h, h \in Held \cup {w} PROVE h \in Held'
    BY <1>1, <2>1, <2>2, <2>3, <2>5
  <2>6. QED
    BY <2>4, <2>5
<1>3. Queue' = Queue
  BY DEF Queue, InState
<1>4. Promise!Free(Held, w)
  BY FreeWindows, HeldIsHeld
<1> HIDE DEF w
<1>5. Promise!Reserve(w) /\ w \in Held'
  BY <1>2, <1>3, <1>4 DEF Promise!Reserve
<1>6. QED
  BY <1>5 DEF Promise!PromiseNext

(* No step but a commit serves anybody. *)
LEMMA PromiseStep ==
    ASSUME IInv, HoldsOK, Progress, IInv', [Next]_vars
    PROVE  [Promise!PromiseNext]_Promise!promiseVars
<1>1. db \in Rows /\ GoodRows(db, now) /\ now \in Nat
  BY DEF IInv, TypeOK, HoldsOK
<1>2. CASE db' = db
  BY <1>2 DEF Held, Queue, InState, Promise!promiseVars
<1>3. ASSUME NEW u \in Users, NEW b \in BookingIds, NEW lo \in Times, NEW hi \in Times,
             CreateBooking(u, b, lo, hi)
      PROVE  Promise!PromiseNext
  <2> DEFINE row == [status |-> "confirmed", user |-> u, lo |-> lo, hi |-> hi,
                     expires |-> NoTime, version |-> 1]
             i == InsertBooking(db, b, row)
  <2>1. row \in BookingRow /\ row.lo = lo /\ row.hi = hi /\ row.status = "confirmed"
    BY DEF BookingRow, BookingStatus
  <2>2. /\ db.bookings[b].status = "absent" /\ ~Occupied(db, [lo |-> lo, hi |-> hi])
        /\ db' = AppendEvents(i, "booking_confirmed", {b})
    BY <1>3 DEF CreateBooking, CommitRows
  <2> HIDE DEF row
  <2>3. i \in Rows /\ i.entries = db.entries
    BY <1>1, <2>1, InsertRows
  <2>4. db'.bookings = i.bookings /\ db'.entries = db.entries
    <3> HIDE DEF i
    <3>1. QED
      BY <2>2, <2>3, AppendEventsRows DEF EventTypes
  <2>5. QED
    BY <1>1, <2>1, <2>2, <2>4, ReservesAWindow
<1>4. ASSUME NEW b \in BookingIds, NEW lo \in Times, NEW hi \in Times, CreateBlackout(b, lo, hi)
      PROVE  Promise!PromiseNext
  <2> DEFINE row == [status |-> "confirmed", user |-> Nobody, lo |-> lo, hi |-> hi,
                     expires |-> NoTime, version |-> 1]
  <2>1. row \in BookingRow /\ row.lo = lo /\ row.hi = hi /\ row.status = "confirmed"
    BY DEF BookingRow, BookingStatus
  <2>2. /\ db.bookings[b].status = "absent" /\ ~Occupied(db, [lo |-> lo, hi |-> hi])
        /\ db' = InsertBooking(db, b, row)
    BY <1>4 DEF CreateBlackout, CommitRows
  <2> HIDE DEF row
  <2>3. db'.entries = db.entries
    BY <1>1, <2>1, <2>2, InsertRows
  <2>4. QED
    BY <1>1, <2>1, <2>2, <2>3, ReservesAWindow
<1>5. ASSUME NEW u \in Users, NEW e \in EntryIds, NEW lo \in Times, NEW hi \in Times,
             JoinWaitlist(u, e, lo, hi)
      PROVE  Promise!PromiseNext
  <2>1. PICK begun \in Samples :
          CommitRows(InsertEntry(db, e,
            [status |-> "waiting", user |-> u, lo |-> lo, hi |-> hi,
             created |-> begun, booking |-> NoBooking, version |-> 1]))
    BY <1>5 DEF JoinWaitlist
  <2> DEFINE row == [status |-> "waiting", user |-> u, lo |-> lo, hi |-> hi,
                     created |-> begun, booking |-> NoBooking, version |-> 1]
             r == [id |-> e, lo |-> lo, hi |-> hi, created |-> begun]
  <2>2. /\ row \in EntryRow /\ row.status = "waiting" /\ row.lo = lo /\ row.hi = hi
        /\ row.created = begun
    BY <1>1 DEF EntryRow, EntryStatus, Samples
  <2>3. db' = InsertEntry(db, e, row) /\ db.entries[e].status = "absent" /\ Occupied(db, [lo |-> lo, hi |-> hi])
    BY <1>5, <2>1 DEF JoinWaitlist, CommitRows
  <2> HIDE DEF row
  <2>4. /\ db'.bookings = db.bookings /\ db'.entries[e] = row
        /\ \A f \in EntryIds \ {e} : db'.entries[f] = db.entries[f]
    BY <1>1, <2>2, <2>3, InsertRows
  <2>5. InState(db, EntryIds, {"waiting"})' = InState(db, EntryIds, {"waiting"}) \cup {e}
    BY <2>2, <2>3, <2>4 DEF InState
  <2>6. Queue' = Queue \cup {r}
    <3>1. \A f \in InState(db, EntryIds, {"waiting"}) : f \in EntryIds \ {e} /\ db'.entries[f] = db.entries[f]
      BY <2>3, <2>4 DEF InState
    <3>2. QED
      BY <2>2, <2>4, <2>5, <3>1 DEF Queue
  <2>7. Held' = Held
    BY <2>4 DEF Held
  <2>8. ~Promise!Free(Held, r)
    BY <2>3, FreeWindows, HeldIsHeld, OccupiedByBounds
  <2> HIDE DEF r
  <2>9. Promise!Join(r) /\ r \in Queue'
    BY <2>6, <2>7, <2>8 DEF Promise!Join
  <2>10. QED
    BY <2>9 DEF Promise!PromiseNext
<1>6. ASSUME NEW e \in EntryIds, Withdraw(e) PROVE Promise!PromiseNext
  <2> DEFINE r == RequestOf(db, e)
  <2>1. db' = MoveEntries(db, {e}, "cancelled") /\ db.entries[e].status = "waiting"
    BY <1>6 DEF Withdraw, CommitRows
  <2>2. /\ db'.bookings = db.bookings
        /\ \A f \in EntryIds :
             /\ db'.entries[f].lo = db.entries[f].lo /\ db'.entries[f].hi = db.entries[f].hi
             /\ db'.entries[f].created = db.entries[f].created
             /\ db'.entries[f].status = IF f = e THEN "cancelled" ELSE db.entries[f].status
    BY <1>1, <2>1, MoveEntriesRows DEF EntryStatus
  <2>3. Held' = Held
    BY <2>2 DEF Held
  <2>4. \A f \in EntryIds : RequestOf(db, f)' = RequestOf(db, f)
    BY <2>2 DEF RequestOf
  <2>5. \A f \in EntryIds : RequestOf(db, f) = r <=> f = e
    BY DEF RequestOf
  <2>6. \A x : x \in Queue <=> \E f \in EntryIds : db.entries[f].status = "waiting" /\ x = RequestOf(db, f)
    BY HeldIsHeld DEF QueueIn, InState
  <2>7. \A x : x \in Queue' <=> \E f \in EntryIds : db'.entries[f].status = "waiting" /\ x = RequestOf(db, f)'
    BY HeldIsHeld DEF QueueIn, InState
  <2> HIDE DEF r
  <2>8. Queue' = Queue \ {r} /\ r \in Queue
    <3>1. r \in Queue
      BY <2>1, <2>6 DEF r
    <3>2. ASSUME NEW x, x \in Queue' PROVE x \in Queue /\ x # r
      <4>1. PICK f \in EntryIds : db'.entries[f].status = "waiting" /\ x = RequestOf(db, f)'
        BY <2>7, <3>2
      <4>2. f # e /\ db.entries[f].status = "waiting"
        BY <2>2, <4>1
      <4>3. x = RequestOf(db, f)
        BY <2>4, <4>1
      <4>4. QED
        BY <2>5, <2>6, <4>2, <4>3
    <3>3. ASSUME NEW x, x \in Queue, x # r PROVE x \in Queue'
      <4>1. PICK f \in EntryIds : db.entries[f].status = "waiting" /\ x = RequestOf(db, f)
        BY <2>6, <3>3
      <4>2. f # e
        BY <2>5, <3>3, <4>1
      <4>3. db'.entries[f].status = "waiting"
        BY <2>2, <4>1, <4>2
      <4>4. x = RequestOf(db, f)'
        BY <2>4, <4>1
      <4>5. QED
        BY <2>7, <4>3, <4>4
    <3>4. QED
      BY <3>1, <3>2, <3>3
  <2>9. QED
    BY <2>3, <2>8 DEF Promise!Leave, Promise!PromiseNext
<1>7. ASSUME NEW e \in EntryIds, AcceptOffer(e) PROVE Held' = Held /\ Queue' = Queue
  <2> DEFINE b == db.entries[e].booking
             i == MoveBookings(db, {b}, "confirmed")
             m == MoveEntries(i, {e}, "accepted")
  <2>1. /\ db.entries[e].status = "offered" /\ db.bookings[b].status = "offered" /\ b \in BookingIds
        /\ db' = AppendEvents(m, "booking_confirmed", {b})
    BY <1>1, <1>7, LinkFacts DEF AcceptOffer, CommitRows, GoodRows
  <2>2. /\ i \in Rows /\ i.entries = db.entries
        /\ \A c \in BookingIds :
             /\ i.bookings[c].lo = db.bookings[c].lo /\ i.bookings[c].hi = db.bookings[c].hi
             /\ i.bookings[c].status = IF c = b THEN "confirmed" ELSE db.bookings[c].status
    BY <1>1, MoveBookingsRows DEF BookingStatus
  <2> HIDE DEF i
  <2>3. /\ m \in Rows /\ m.bookings = i.bookings
        /\ \A f \in EntryIds :
             /\ m.entries[f].lo = db.entries[f].lo /\ m.entries[f].hi = db.entries[f].hi
             /\ m.entries[f].created = db.entries[f].created
             /\ m.entries[f].status = IF f = e THEN "accepted" ELSE db.entries[f].status
    BY <2>2, MoveEntriesRows DEF EntryStatus
  <2> HIDE DEF m
  <2>4. db'.bookings = i.bookings /\ db'.entries = m.entries
    BY <2>1, <2>3, AppendEventsRows DEF EventTypes
  <2> HIDE DEF b
  <2>5. \A c \in BookingIds :
          /\ db'.bookings[c].lo = db.bookings[c].lo /\ db'.bookings[c].hi = db.bookings[c].hi
          /\ db'.bookings[c].status \in Occupying <=> db.bookings[c].status \in Occupying
    BY <2>1, <2>2, <2>4 DEF Occupying
  <2>6. Held' = Held
    <3>1. {c \in BookingIds : db'.bookings[c].status \in Occupying}
            = {c \in BookingIds : db.bookings[c].status \in Occupying}
      BY <2>5
    <3>2. QED
      BY <2>5, <3>1 DEF Held
  <2>7. InState(db, EntryIds, {"waiting"})' = InState(db, EntryIds, {"waiting"})
    BY <2>1, <2>3, <2>4 DEF InState
  <2>8. \A f \in InState(db, EntryIds, {"waiting"}) : /\ db'.entries[f].lo = db.entries[f].lo
          /\ db'.entries[f].hi = db.entries[f].hi /\ db'.entries[f].created = db.entries[f].created
    BY <2>3, <2>4 DEF InState
  <2>9. Queue' = Queue
    BY <2>7, <2>8 DEF Queue
  <2>10. QED
    BY <2>6, <2>9
<1>8. CASE Commit
  <2>1. db' = work /\ work \in Rows /\ LinksOK(work) /\ Disjoint(work) /\ Disjoint(db)
    BY <1>8 DEF Commit, IInv, TypeOK, HoldsOK, GoodRows, NoOverlap
  <2>2. AllBlocked(work)
    BY <2>1 DEF IInv, NoStrandedWaiter, AllBlocked, InState, Occupied
  <2>3. PICK gone \in SUBSET HeldIn(db), served \in SUBSET QueueIn(db) :
          Settled(HeldIn(db), QueueIn(db), HeldIn(work), QueueIn(work), gone, served)
    BY <1>1, <2>1, <2>2, ReleaseSettles DEF Progress
  <2>4. HeldIn(work) = Held' /\ QueueIn(work) = Queue'
    BY <2>1 DEF HeldIn, QueueIn, RequestOf, Held, Queue, InState
  <2>5. Settled(Held, Queue, Held', Queue', gone, served)
    BY <2>3, <2>4, HeldIsHeld
  <2>6. Promise!Settle(gone, served)
    BY <2>5 DEF Settled, Promise!Settle
  <2>7. QED
    BY <2>3, <2>6, HeldIsHeld DEF Promise!PromiseNext
<1>9. CASE Members
  <2>1. \/ db' = db
        \/ \E u \in Users, b \in BookingIds, lo, hi \in Times : CreateBooking(u, b, lo, hi)
        \/ \E u \in Users, e \in EntryIds, lo, hi \in Times : JoinWaitlist(u, e, lo, hi)
        \/ \E e \in EntryIds : AcceptOffer(e) \/ Withdraw(e)
    BY <1>9 DEF Members, CancelBooking, ReleaseBooking, AcceptTooLate, Decline, Release
  <2>2. QED
    BY <1>2, <1>3, <1>5, <1>6, <1>7, <2>1 DEF Promise!promiseVars
<1>10. CASE Administrators
  <2>1. db' = db \/ \E b \in BookingIds, lo, hi \in Times : CreateBlackout(b, lo, hi)
    BY <1>10 DEF Administrators, AdminCancelBooking, CancelBlackout, ReleaseBooking, Release,
                 Deactivate, Activate, SetEnabled
  <2>2. QED
    BY <1>2, <1>4, <2>1
<1>11. CASE ExpireAndPromote \/ Crash \/ Tick \/ UNCHANGED vars
  BY <1>2, <1>11 DEF ExpireAndPromote, Release, Crash, Tick, vars
<1>12. CASE PromoteWaiters
  BY <1>2, <1>8, <1>12 DEF PromoteWaiters, Examine, Offer
<1>13. QED
  BY <1>9, <1>10, <1>11, <1>12 DEF Next

LEMMA PromiseStart == Init => Promise!PromiseInit
<1>1. SUFFICES ASSUME Init PROVE Held = {} /\ Queue = {}
  BY DEF Promise!PromiseInit
<1>2. QED
  BY <1>1 DEF Init, NoRows, AbsentBooking, AbsentEntry, Occupying, InState, Held, Queue

-----------------------------------------------------------------------------
(* The inventory implements its promise: to whoever reads committed rows, a release
   with all its promotions is one step in which the queue is served in order
   (waitlist/service.py, promote_waiters and its six callers). *)
THEOREM InventoryKeepsPromise == Spec => KeepsPromise
<1>1. Spec => [](IInv /\ HoldsOK /\ Progress)
  BY Inductive, AlwaysHoldsOK, AlwaysProgress, PTL
<1>2. IInv /\ HoldsOK /\ Progress /\ IInv' /\ [Next]_vars => [Promise!PromiseNext]_Promise!promiseVars
  BY PromiseStep
<1>3. QED
  BY <1>1, <1>2, PromiseStart, PTL DEF Spec, KeepsPromise, Promise!Spec

-----------------------------------------------------------------------------
(* Legal moves.  What a transaction has done to a row is one legal step or nothing,
   and a release confirms no booking and queues nobody. *)

Lawful(d, m) ==
    /\ \A b \in BookingIds : Moved(d.bookings[b], m.bookings[b], BookingMoves)
    /\ \A e \in EntryIds : Moved(d.entries[e], m.entries[e], EntryMoves)

Blank(d) ==
    /\ \A b \in BookingIds : d.bookings[b].status = "absent" => d.bookings[b] = AbsentBooking
    /\ \A e \in EntryIds : d.entries[e].status = "absent" => d.entries[e] = AbsentEntry

Kept(d, w) ==
    /\ Lawful(d, w)
    /\ \A b \in BookingIds : w.bookings[b].status = "confirmed" => w.bookings[b] = d.bookings[b]
    /\ \A e \in EntryIds : w.entries[e].status = "waiting" => w.entries[e] = d.entries[e]

Steady == Blank(db) /\ Kept(db, work)

LEMMA LawfulStaysBlank ==
    ASSUME NEW d, NEW m, Blank(d), Lawful(d, m)
    PROVE  Blank(m)
<1>1. \A x : <<x, "absent">> \notin BookingMoves /\ <<x, "absent">> \notin EntryMoves
  BY DEF BookingMoves, EntryMoves
<1>2. QED
  BY <1>1 DEF Blank, Lawful, Moved

LEMMA NothingIsKept ==
    ASSUME NEW d
    PROVE  Kept(d, d)
  BY DEF Kept, Lawful, Moved

(* A release moves bookings B and entries E, each one legal step. *)
LEMMA PairMovesLawfully ==
    ASSUME NEW d, d \in Rows, NEW B, NEW E, NEW s \in BookingStatus, NEW q \in EntryStatus,
           \A b \in BookingIds : b \in B => d.bookings[b].status # "absent"
                                            /\ <<d.bookings[b].status, s>> \in BookingMoves,
           \A e \in EntryIds : e \in E => d.entries[e].status # "absent"
                                          /\ <<d.entries[e].status, q>> \in EntryMoves,
           NEW m, m.bookings = MoveBookings(d, B, s).bookings, m.entries = MoveEntries(d, E, q).entries
    PROVE  Lawful(d, m) /\ (s # "confirmed" => Kept(d, m))
<1>1. \A b \in BookingIds : m.bookings[b] = IF b \in B THEN BookingInState(d.bookings[b], s) ELSE d.bookings[b]
  BY RowsParts DEF MoveBookings
<1>2. \A e \in EntryIds : m.entries[e] = IF e \in E THEN EntryInState(d.entries[e], q) ELSE d.entries[e]
  BY RowsParts DEF MoveEntries
<1>3. ASSUME NEW b \in BookingIds, b \in B
      PROVE  Moved(d.bookings[b], m.bookings[b], BookingMoves) /\ m.bookings[b].status = s
  <2>1. d.bookings[b] \in BookingRow /\ m.bookings[b] = BookingInState(d.bookings[b], s)
    BY <1>1, <1>3, RowsParts
  <2>2. m.bookings[b].version = d.bookings[b].version + 1
    BY <2>1 DEF BookingInState, BookingRow
  <2>3. QED
    BY <1>3, <2>1, <2>2, RowsInState DEF Moved
<1>4. ASSUME NEW e \in EntryIds, e \in E
      PROVE  Moved(d.entries[e], m.entries[e], EntryMoves) /\ m.entries[e].status = q
  <2>1. d.entries[e] \in EntryRow /\ m.entries[e] = EntryInState(d.entries[e], q)
    BY <1>2, <1>4, RowsParts
  <2>2. m.entries[e].version = d.entries[e].version + 1
    BY <2>1 DEF EntryInState, EntryRow
  <2>3. QED
    BY <1>4, <2>1, <2>2, RowsInState DEF Moved
<1>5. Lawful(d, m)
  <2>1. \A b \in BookingIds : Moved(d.bookings[b], m.bookings[b], BookingMoves)
    BY <1>1, <1>3 DEF Moved
  <2>2. \A e \in EntryIds : Moved(d.entries[e], m.entries[e], EntryMoves)
    BY <1>2, <1>4 DEF Moved
  <2>3. QED
    BY <2>1, <2>2 DEF Lawful
<1>6. ASSUME NEW e \in EntryIds, m.entries[e].status = "waiting" PROVE m.entries[e] = d.entries[e]
  <2>1. CASE e \in E
    <3>1. d.entries[e].status # "absent" /\ <<d.entries[e].status, "waiting">> \in EntryMoves
      BY <1>4, <1>6, <2>1
    <3>2. QED
      BY <3>1 DEF EntryMoves
  <2>2. QED
    BY <1>2, <2>1
<1>7. QED
  BY <1>1, <1>3, <1>5, <1>6 DEF Kept

(* In whichever order the two tables are written. *)
LEMMA PairWrites ==
    ASSUME NEW d, d \in Rows, NEW B, NEW E, NEW s \in BookingStatus, NEW q \in EntryStatus
    PROVE  LET m == MoveEntries(MoveBookings(d, B, s), E, q)
               n == MoveBookings(MoveEntries(d, E, q), B, s)
           IN  /\ m \in Rows /\ m.bookings = MoveBookings(d, B, s).bookings
               /\ m.entries = MoveEntries(d, E, q).entries
               /\ n \in Rows /\ n.bookings = MoveBookings(d, B, s).bookings
               /\ n.entries = MoveEntries(d, E, q).entries
<1> DEFINE i == MoveBookings(d, B, s)
           j == MoveEntries(d, E, q)
<1>1. i \in Rows /\ i.entries = d.entries /\ j \in Rows /\ j.bookings = d.bookings
  BY MoveBookingsRows, MoveEntriesRows
<1>2. MoveEntries(i, E, q).entries = j.entries
  <2> HIDE DEF i
  <2>1. QED
    BY <1>1, RowsParts DEF MoveEntries
<1>3. MoveBookings(j, B, s).bookings = i.bookings
  <2> HIDE DEF j
  <2>1. QED
    BY <1>1, RowsParts DEF MoveBookings
<1> HIDE DEF i, j
<1>4. MoveEntries(i, E, q) \in Rows /\ MoveEntries(i, E, q).bookings = i.bookings
  BY <1>1, MoveEntriesRows
<1>5. MoveBookings(j, B, s) \in Rows /\ MoveBookings(j, B, s).entries = j.entries
  BY <1>1, MoveBookingsRows
<1>6. QED
  BY <1>2, <1>3, <1>4, <1>5 DEF i, j

(* What each transaction of one write does to the committed rows. *)
Books(b, row) ==
    /\ db.bookings[b].status = "absent" /\ row \in BookingRow
    /\ row.status = "confirmed" /\ row.version = 1
    /\ db'.bookings[b] = row /\ \A c \in BookingIds \ {b} : db'.bookings[c] = db.bookings[c]
    /\ db'.entries = db.entries /\ work' = db'
    /\ active /\ active'

Joins(e, row) ==
    /\ db.entries[e].status = "absent" /\ row \in EntryRow
    /\ row.status = "waiting" /\ row.version = 1 /\ row.user # Nobody
    /\ db'.entries[e] = row /\ \A f \in EntryIds \ {e} : db'.entries[f] = db.entries[f]
    /\ db'.bookings = db.bookings /\ work' = db'
    /\ active /\ active'
    /\ Queuing(row.user, row.lo, row.hi) = {} /\ HasRoom

Accepts(e, b) ==
    /\ db.entries[e].status = "offered" /\ b \in BookingIds /\ db.bookings[b].status = "offered"
    /\ db'.bookings = MoveBookings(db, {b}, "confirmed").bookings
    /\ db'.entries = MoveEntries(db, {e}, "accepted").entries
    /\ work' = db' /\ InTime(b) /\ active' = active /\ now' = now

Withdraws(e) ==
    /\ db.entries[e].status = "waiting"
    /\ db'.bookings = db.bookings
    /\ db'.entries = MoveEntries(db, {e}, "cancelled").entries
    /\ work' = db' /\ active' = active /\ now' = now

LEMMA CreateBooks ==
    ASSUME IInv, NEW u \in Users, NEW b \in BookingIds, NEW lo \in Times, NEW hi \in Times,
           CreateBooking(u, b, lo, hi)
    PROVE  \E row : Books(b, row) /\ now < row.lo
<1> DEFINE row == [status |-> "confirmed", user |-> u, lo |-> lo, hi |-> hi,
                   expires |-> NoTime, version |-> 1]
           i == InsertBooking(db, b, row)
<1>1. row \in BookingRow /\ row.status = "confirmed" /\ row.version = 1 /\ row.lo = lo
  BY DEF BookingRow, BookingStatus
<1>2. /\ db.bookings[b].status = "absent" /\ active /\ active' /\ work' = db' /\ db \in Rows
      /\ db' = AppendEvents(i, "booking_confirmed", {b})
  BY DEF CreateBooking, CommitRows, IInv, TypeOK
<1>3. now < lo
  BY ConstantsAssumption DEF CreateBooking, Samples, BookingWindow, Times, IInv, TypeOK
<1> HIDE DEF row
<1>4. /\ i \in Rows /\ i.entries = db.entries /\ i.bookings[b] = row
      /\ \A c \in BookingIds \ {b} : i.bookings[c] = db.bookings[c]
  BY <1>1, <1>2, InsertRows
<1> HIDE DEF i
<1>5. db'.bookings = i.bookings /\ db'.entries = db.entries
  BY <1>2, <1>4, AppendEventsRows DEF EventTypes
<1>6. QED
  BY <1>1, <1>2, <1>3, <1>4, <1>5 DEF Books

LEMMA BlackoutBooks ==
    ASSUME IInv, NEW b \in BookingIds, NEW lo \in Times, NEW hi \in Times, CreateBlackout(b, lo, hi)
    PROVE  \E row : Books(b, row) /\ row.user = Nobody
<1> DEFINE row == [status |-> "confirmed", user |-> Nobody, lo |-> lo, hi |-> hi,
                   expires |-> NoTime, version |-> 1]
<1>1. row \in BookingRow /\ row.status = "confirmed" /\ row.version = 1 /\ row.user = Nobody
  BY DEF BookingRow, BookingStatus
<1>2. /\ db.bookings[b].status = "absent" /\ active /\ active' /\ work' = db' /\ db \in Rows
      /\ db' = InsertBooking(db, b, row)
  BY DEF CreateBlackout, CommitRows, IInv, TypeOK
<1> HIDE DEF row
<1>3. /\ db'.entries = db.entries /\ db'.bookings[b] = row
      /\ \A c \in BookingIds \ {b} : db'.bookings[c] = db.bookings[c]
  BY <1>1, <1>2, InsertRows
<1>4. QED
  BY <1>1, <1>2, <1>3 DEF Books

LEMMA WaitlistJoins ==
    ASSUME IInv, NEW u \in Users, NEW e \in EntryIds, NEW lo \in Times, NEW hi \in Times,
           JoinWaitlist(u, e, lo, hi)
    PROVE  \E row : Joins(e, row)
<1>1. PICK begun \in Samples :
        CommitRows(InsertEntry(db, e,
          [status |-> "waiting", user |-> u, lo |-> lo, hi |-> hi,
           created |-> begun, booking |-> NoBooking, version |-> 1]))
  BY DEF JoinWaitlist
<1> DEFINE row == [status |-> "waiting", user |-> u, lo |-> lo, hi |-> hi,
                   created |-> begun, booking |-> NoBooking, version |-> 1]
<1>2. /\ row \in EntryRow /\ row.status = "waiting" /\ row.version = 1
      /\ row.user = u /\ u # Nobody /\ row.lo = lo /\ row.hi = hi
  BY ConstantsAssumption DEF EntryRow, EntryStatus, Samples, IInv, TypeOK
<1>3. /\ db.entries[e].status = "absent" /\ active /\ active' /\ work' = db' /\ db \in Rows
      /\ Queuing(u, lo, hi) = {} /\ HasRoom
      /\ db' = InsertEntry(db, e, row)
  BY <1>1 DEF JoinWaitlist, CommitRows, IInv, TypeOK
<1> HIDE DEF row
<1>4. /\ db'.bookings = db.bookings /\ db'.entries[e] = row
      /\ \A f \in EntryIds \ {e} : db'.entries[f] = db.entries[f]
  BY <1>2, <1>3, InsertRows
<1>5. QED
  BY <1>2, <1>3, <1>4 DEF Joins

LEMMA OfferAccepts ==
    ASSUME IInv, HoldsOK, NEW e \in EntryIds, AcceptOffer(e)
    PROVE  \E b \in BookingIds : Accepts(e, b)
<1> DEFINE b == db.entries[e].booking
           m == MoveEntries(MoveBookings(db, {b}, "confirmed"), {e}, "accepted")
<1>1. /\ db.entries[e].status = "offered" /\ db.bookings[b].status = "offered" /\ b \in BookingIds
      /\ db' = AppendEvents(m, "booking_confirmed", {b}) /\ work' = db'
      /\ InTime(b) /\ active' = active /\ now' = now /\ db \in Rows
  BY LinkFacts DEF AcceptOffer, CommitRows, GoodRows, HoldsOK, IInv, TypeOK
<1>2. /\ m \in Rows /\ m.bookings = MoveBookings(db, {b}, "confirmed").bookings
      /\ m.entries = MoveEntries(db, {e}, "accepted").entries
  BY <1>1, PairWrites DEF BookingStatus, EntryStatus
<1> HIDE DEF m
<1>3. db'.bookings = m.bookings /\ db'.entries = m.entries
  BY <1>1, <1>2, AppendEventsRows DEF EventTypes
<1>4. QED
  BY <1>1, <1>2, <1>3 DEF Accepts

LEMMA WaiterWithdraws ==
    ASSUME IInv, NEW e \in EntryIds, Withdraw(e)
    PROVE  Withdraws(e)
  BY MoveEntriesRows DEF Withdraw, Withdraws, CommitRows, IInv, TypeOK, EntryStatus

(* Every step that changes what others read. *)
LEMMA WaysToCommit ==
    ASSUME IInv, HoldsOK, [Next]_vars
    PROVE  \/ db' = db
           \/ \E b \in BookingIds : \E row : Books(b, row) /\ (row.user = Nobody \/ now < row.lo)
           \/ \E e \in EntryIds : \E row : Joins(e, row)
           \/ \E e \in EntryIds, b \in BookingIds : Accepts(e, b)
           \/ \E e \in EntryIds : Withdraws(e)
           \/ Commit
<1>1. CASE Members
  <2>1. \/ db' = db
        \/ \E u \in Users, b \in BookingIds, lo, hi \in Times : CreateBooking(u, b, lo, hi)
        \/ \E u \in Users, e \in EntryIds, lo, hi \in Times : JoinWaitlist(u, e, lo, hi)
        \/ \E e \in EntryIds : AcceptOffer(e) \/ Withdraw(e)
    BY <1>1 DEF Members, CancelBooking, ReleaseBooking, AcceptTooLate, Decline, Release
  <2>2. QED
    BY <2>1, CreateBooks, WaitlistJoins, OfferAccepts, WaiterWithdraws
<1>2. CASE Administrators
  <2>1. db' = db \/ \E b \in BookingIds, lo, hi \in Times : CreateBlackout(b, lo, hi)
    BY <1>2 DEF Administrators, AdminCancelBooking, CancelBlackout, ReleaseBooking, Release,
                Deactivate, Activate, SetEnabled
  <2>2. QED
    BY <2>1, BlackoutBooks
<1>3. CASE ExpireAndPromote \/ Crash \/ Tick \/ UNCHANGED vars
  BY <1>3 DEF ExpireAndPromote, Release, Crash, Tick, vars
<1>4. CASE PromoteWaiters
  BY <1>4 DEF PromoteWaiters, Examine, Offer
<1>5. QED
  BY <1>1, <1>2, <1>3, <1>4 DEF Next

(* Each of them, but the commit of a release, is lawful in itself. *)
LEMMA WritesAreLawful ==
    ASSUME IInv, Blank(db), db' # db,
           \/ \E b \in BookingIds : \E row : Books(b, row)
           \/ \E e \in EntryIds : \E row : Joins(e, row)
           \/ \E e \in EntryIds, b \in BookingIds : Accepts(e, b)
           \/ \E e \in EntryIds : Withdraws(e)
    PROVE  Lawful(db, db') /\ work' = db'
<1>1. db \in Rows
  BY DEF IInv, TypeOK
<1>2. ASSUME NEW b \in BookingIds, NEW row, Books(b, row) PROVE Lawful(db, db')
  <2>1. db.bookings[b].version = 0
    BY <1>2 DEF Books, Blank, AbsentBooking
  <2>2. Moved(db.bookings[b], db'.bookings[b], BookingMoves)
    BY <1>2, <2>1 DEF Books, Moved, BookingMoves
  <2>3. QED
    BY <1>2, <2>2 DEF Books, Moved, Lawful
<1>3. ASSUME NEW e \in EntryIds, NEW row, Joins(e, row) PROVE Lawful(db, db')
  <2>1. db.entries[e].version = 0
    BY <1>3 DEF Joins, Blank, AbsentEntry
  <2>2. Moved(db.entries[e], db'.entries[e], EntryMoves)
    BY <1>3, <2>1 DEF Joins, Moved, EntryMoves
  <2>3. QED
    BY <1>3, <2>2 DEF Joins, Moved, Lawful
<1>4. ASSUME NEW e \in EntryIds, NEW b \in BookingIds, Accepts(e, b) PROVE Lawful(db, db')
  <2>1. \A c \in BookingIds : c \in {b} => db.bookings[c].status # "absent"
                                          /\ <<db.bookings[c].status, "confirmed">> \in BookingMoves
    BY <1>4 DEF Accepts, BookingMoves
  <2>2. \A f \in EntryIds : f \in {e} => db.entries[f].status # "absent"
                                        /\ <<db.entries[f].status, "accepted">> \in EntryMoves
    BY <1>4 DEF Accepts, EntryMoves
  <2>3. "confirmed" \in BookingStatus /\ "accepted" \in EntryStatus
    BY DEF BookingStatus, EntryStatus
  <2>4. QED
    BY <1>1, <1>4, <2>1, <2>2, <2>3, PairMovesLawfully DEF Accepts
<1>5. ASSUME NEW e \in EntryIds, Withdraws(e) PROVE Lawful(db, db')
  <2>1. \A f \in EntryIds : f \in {e} => db.entries[f].status # "absent"
                                        /\ <<db.entries[f].status, "cancelled">> \in EntryMoves
    BY <1>5 DEF Withdraws, EntryMoves
  <2>2. db.bookings = MoveBookings(db, {}, "confirmed").bookings
    BY <1>1, RowsParts DEF MoveBookings
  <2>3. "confirmed" \in BookingStatus /\ "cancelled" \in EntryStatus
    BY DEF BookingStatus, EntryStatus
  <2>4. QED
    BY <1>1, <1>5, <2>1, <2>2, <2>3, PairMovesLawfully DEF Withdraws
<1>6. QED
  BY <1>2, <1>3, <1>4, <1>5 DEF Books, Joins, Accepts, Withdraws

LEMMA WritesStaySteady ==
    ASSUME Blank(db), Lawful(db, db'), work' = db'
    PROVE  Steady'
  BY LawfulStaysBlank, NothingIsKept DEF Steady

LEMMA ReleaseStaysSteady ==
    ASSUME Steady, NEW m, Kept(db, m), NEW u, Release(m, u)
    PROVE  Steady'
  BY DEF Release, Steady

(* The rows of every release. *)
LEMMA ReleasesKeep ==
    ASSUME IInv, HoldsOK
    PROVE  /\ \A B : B \subseteq BookingIds /\ (\A b \in B : db.bookings[b].status = "offered")
                     => Kept(db, ExpireHolds(db, B))
           /\ \A b \in BookingIds : \A u : db.bookings[b].status \in Occupying /\ ReleaseBooking(b, u)
                     => Kept(db, work')
           /\ \A e \in EntryIds : \A B :
                db.entries[e].status = "offered" /\ B \subseteq BookingIds
                /\ (\A b \in B : db.bookings[b].status = "offered")
                     => Kept(db, MoveEntries(MoveBookings(db, B, "cancelled"), {e}, "cancelled"))
           /\ \A b \in BookingIds : db.bookings[b].status = "confirmed"
                     => Kept(db, MoveBookings(db, {b}, "cancelled"))
<1>1. db \in Rows /\ LinksOK(db)
  BY DEF IInv, TypeOK, HoldsOK, GoodRows
<1>2. /\ {"cancelled", "expired"} \subseteq BookingStatus \cap EntryStatus
      /\ {"booking_cancelled", "hold_expired"} \subseteq EventTypes
  BY DEF BookingStatus, EntryStatus, EventTypes
<1>3. ASSUME NEW B, B \subseteq BookingIds, \A b \in B : db.bookings[b].status = "offered"
      PROVE  Kept(db, ExpireHolds(db, B))
  <2> DEFINE m == MoveBookings(MoveEntries(db, Linked(db, B), "expired"), B, "expired")
  <2>1. /\ m \in Rows /\ m.bookings = MoveBookings(db, B, "expired").bookings
        /\ m.entries = MoveEntries(db, Linked(db, B), "expired").entries
    BY <1>1, <1>2, PairWrites
  <2> HIDE DEF m
  <2>2. /\ ExpireHolds(db, B).bookings = MoveBookings(db, B, "expired").bookings
        /\ ExpireHolds(db, B).entries = MoveEntries(db, Linked(db, B), "expired").entries
    BY <1>2, <1>3, <2>1, AppendEventsRows DEF ExpireHolds, m
  <2>3. \A e \in EntryIds : e \in Linked(db, B) => db.entries[e].status = "offered"
    BY <1>1, <1>3, LinkFacts DEF Linked
  <2>4. QED
    BY <1>1, <1>2, <1>3, <2>2, <2>3, PairMovesLawfully DEF BookingMoves, EntryMoves
<1>4. ASSUME NEW b \in BookingIds, NEW u, db.bookings[b].status \in Occupying, ReleaseBooking(b, u)
      PROVE  Kept(db, work')
  <2> DEFINE E == Linked(db, {b}) \cap InState(db, EntryIds, {"offered"})
             m == MoveEntries(MoveBookings(db, {b}, "cancelled"), E, "cancelled")
  <2>1. /\ m \in Rows /\ m.bookings = MoveBookings(db, {b}, "cancelled").bookings
        /\ m.entries = MoveEntries(db, E, "cancelled").entries
    BY <1>1, <1>2, PairWrites
  <2>2. work' = AppendEvents(m, "booking_cancelled", {b})
    BY <1>4 DEF ReleaseBooking, Release
  <2>3. \A e \in EntryIds : e \in E => db.entries[e].status = "offered"
    BY DEF InState
  <2> HIDE DEF m, E
  <2>4. work'.bookings = m.bookings /\ work'.entries = m.entries
    BY <1>2, <2>1, <2>2, AppendEventsRows
  <2>5. \A c \in BookingIds : c \in {b} => db.bookings[c].status # "absent"
                                          /\ <<db.bookings[c].status, "cancelled">> \in BookingMoves
    BY <1>4 DEF Occupying, BookingMoves
  <2>6. \A e \in EntryIds : e \in E => db.entries[e].status # "absent"
                                      /\ <<db.entries[e].status, "cancelled">> \in EntryMoves
    BY <2>3 DEF EntryMoves
  <2>7. QED
    BY <1>1, <1>2, <2>1, <2>4, <2>5, <2>6, PairMovesLawfully
<1>5. ASSUME NEW e \in EntryIds, NEW B, db.entries[e].status = "offered", B \subseteq BookingIds,
             \A b \in B : db.bookings[b].status = "offered"
      PROVE  Kept(db, MoveEntries(MoveBookings(db, B, "cancelled"), {e}, "cancelled"))
  BY <1>1, <1>2, <1>5, PairWrites, PairMovesLawfully DEF BookingMoves, EntryMoves
<1>6. ASSUME NEW b \in BookingIds, db.bookings[b].status = "confirmed"
      PROVE  Kept(db, MoveBookings(db, {b}, "cancelled"))
  <2>1. MoveBookings(db, {b}, "cancelled").entries = MoveEntries(db, {}, "cancelled").entries
    BY <1>1, RowsParts DEF MoveBookings, MoveEntries
  <2>2. \A c \in BookingIds : c \in {b} => db.bookings[c].status # "absent"
                                          /\ <<db.bookings[c].status, "cancelled">> \in BookingMoves
    BY <1>6 DEF BookingMoves
  <2>3. QED
    BY <1>1, <1>2, <2>1, <2>2, PairMovesLawfully
<1>7. QED
  BY <1>3, <1>4, <1>5, <1>6

LEMMA ReleasesStaySteady ==
    ASSUME IInv, HoldsOK, Steady,
           \/ \E b \in BookingIds : CancelBooking(b) \/ AdminCancelBooking(b) \/ CancelBlackout(b)
           \/ \E e \in EntryIds : AcceptTooLate(e) \/ Decline(e)
           \/ ExpireAndPromote
    PROVE  Steady'
<1>1. db \in Rows /\ LinksOK(db)
  BY DEF IInv, TypeOK, HoldsOK, GoodRows
<1>2. ASSUME NEW b \in BookingIds, CancelBooking(b) \/ AdminCancelBooking(b) PROVE Steady'
  <2>1. db' = db /\ db.bookings[b].status \in Occupying /\ \E u : ReleaseBooking(b, u)
    BY <1>2 DEF CancelBooking, AdminCancelBooking, ReleaseBooking, Release
  <2>2. QED
    BY <2>1, ReleasesKeep DEF Steady
<1>3. ASSUME NEW b \in BookingIds, CancelBlackout(b) PROVE Steady'
  BY <1>3, ReleasesKeep, ReleaseStaysSteady DEF CancelBlackout
<1>4. ASSUME NEW e \in EntryIds, AcceptTooLate(e) PROVE Steady'
  <2> DEFINE b == db.entries[e].booking
  <2>1. b \in BookingIds /\ db.bookings[b].status = "offered"
    BY <1>1, <1>4, LinkFacts DEF AcceptTooLate
  <2>2. Kept(db, ExpireHolds(db, {b}))
    BY <2>1, ReleasesKeep
  <2>3. QED
    BY <1>4, <2>2, ReleaseStaysSteady DEF AcceptTooLate
<1>5. ASSUME NEW e \in EntryIds, Decline(e) PROVE Steady'
  <2> DEFINE B == {b \in BookingIds : b = db.entries[e].booking /\ db.bookings[b].status = "offered"}
  <2>1. Kept(db, MoveEntries(MoveBookings(db, B, "cancelled"), {e}, "cancelled"))
    BY <1>5, ReleasesKeep DEF Decline
  <2>2. QED
    BY <1>5, <2>1, ReleaseStaysSteady DEF Decline
<1>6. CASE ExpireAndPromote
  <2>1. Kept(db, ExpireHolds(db, Overdue))
    BY ReleasesKeep DEF Overdue
  <2>2. QED
    BY <1>6, <2>1, ReleaseStaysSteady DEF ExpireAndPromote
<1>7. QED
  BY <1>2, <1>3, <1>4, <1>5, <1>6

(* Examine expires a waiting entry: nobody had touched it before. *)
LEMMA ExamineStaysSteady ==
    ASSUME IInv, Steady, NEW e \in EntryIds, Examine(e)
    PROVE  Steady'
<1>1. work \in Rows /\ db' = db /\ work.entries[e].status = "waiting"
  BY DEF IInv, TypeOK, Examine, IsNext, Unscanned, InState
<1>2. CASE work' = work
  BY <1>1, <1>2 DEF Steady
<1>3. CASE work' = MoveEntries(work, {e}, "expired")
  <2>1. /\ work'.bookings = work.bookings
        /\ \A f \in EntryIds : work'.entries[f] = IF f = e THEN EntryInState(work.entries[e], "expired")
                                                  ELSE work.entries[f]
    BY <1>1, <1>3, RowsParts DEF MoveEntries
  <2>2. db.entries[e] = work.entries[e] /\ work.entries[e] \in EntryRow
    BY <1>1, RowsParts DEF Steady, Kept
  <2>3. work'.entries[e].version = db.entries[e].version + 1
    BY <2>1, <2>2 DEF EntryInState, EntryRow
  <2>4. Moved(db.entries[e], work'.entries[e], EntryMoves) /\ work'.entries[e].status = "expired"
    BY <1>1, <2>1, <2>2, <2>3, RowsInState DEF Moved, EntryMoves, EntryStatus
  <2>5. Kept(db, work')
    BY <2>1, <2>4 DEF Steady, Kept, Lawful
  <2>6. QED
    BY <1>1, <2>5 DEF Steady
<1>4. QED
  BY <1>2, <1>3 DEF Examine

LEMMA OfferStaysSteady ==
    ASSUME IInv, Steady, NEW b \in BookingIds, Offer(b)
    PROVE  Steady'
<1>1. PICK e \in EntryIds : e = candidate /\ work.entries[e].status = "waiting"
  BY DEF IInv, TypeOK, ScanOK, Offer
<1> DEFINE row == work.entries[e]
           hold == [status |-> "offered", user |-> row.user, lo |-> row.lo, hi |-> row.hi,
                    expires |-> OfferExpiry(now, row.lo), version |-> 1]
           link == [row EXCEPT !.status = "offered", !.booking = b, !.version = row.version + 1]
           i == InsertBooking(work, b, hold)
           j == InsertEntry(i, e, link)
<1>2. /\ work \in Rows /\ now \in Nat /\ db' = db /\ work.bookings[b].status = "absent"
      /\ work' = AppendEvents(j, "waitlist_offered", {b})
  BY <1>1 DEF Offer, IInv, TypeOK
<1>3. row \in EntryRow /\ row = db.entries[e] /\ row.status = "waiting"
  BY <1>1, <1>2, RowsParts DEF Steady, Kept
<1>4. hold \in BookingRow /\ hold.status = "offered" /\ hold.version = 1
  BY <1>2, <1>3, OfferExpiryBound DEF BookingRow, BookingStatus, EntryRow
<1>5. /\ link \in EntryRow /\ link.status = "offered" /\ link.version = row.version + 1
      /\ link.user = row.user /\ link.lo = row.lo /\ link.hi = row.hi
  <2>1. [row EXCEPT !.status = "offered"] \in EntryRow
    BY <1>3 DEF EntryRow, EntryStatus
  <2>2. [[row EXCEPT !.status = "offered"] EXCEPT !.booking = b] \in EntryRow
    BY <2>1 DEF EntryRow
  <2>3. row.version + 1 \in Nat
    BY <1>3 DEF EntryRow
  <2>4. link \in EntryRow
    BY <2>2, <2>3 DEF EntryRow
  <2>5. QED
    BY <1>3, <2>4 DEF EntryRow
<1> HIDE DEF row, hold, link
<1>6. /\ i \in Rows /\ i.entries = work.entries /\ i.bookings[b] = hold
      /\ \A c \in BookingIds \ {b} : i.bookings[c] = work.bookings[c]
  BY <1>2, <1>4, InsertRows
<1> HIDE DEF i
<1>7. /\ j \in Rows /\ j.bookings = i.bookings /\ j.entries[e] = link
      /\ \A f \in EntryIds \ {e} : j.entries[f] = work.entries[f]
  BY <1>5, <1>6, InsertRows
<1> HIDE DEF j
<1>8. work'.bookings = i.bookings /\ work'.entries = j.entries
  BY <1>2, <1>7, AppendEventsRows DEF EventTypes
<1>9. Moved(db.bookings[b], work'.bookings[b], BookingMoves)
  <2>1. work.bookings[b] = db.bookings[b]
    BY <1>2 DEF Steady, Kept, Lawful, Moved, BookingMoves
  <2>2. db.bookings[b].status = "absent" /\ db.bookings[b].version = 0
    BY <1>2, <2>1 DEF Steady, Blank, AbsentBooking
  <2>3. QED
    BY <1>4, <1>6, <1>8, <2>2 DEF Moved, BookingMoves
<1>10. Moved(db.entries[e], work'.entries[e], EntryMoves)
  BY <1>3, <1>5, <1>7, <1>8 DEF Moved, EntryMoves
<1>11. Kept(db, work')
  <2>1. Lawful(db, work')
    BY <1>6, <1>7, <1>8, <1>9, <1>10 DEF Lawful, Steady, Kept
  <2>2. \A c \in BookingIds : work'.bookings[c].status = "confirmed" => work'.bookings[c] = db.bookings[c]
    BY <1>4, <1>6, <1>8 DEF Steady, Kept
  <2>3. \A f \in EntryIds : work'.entries[f].status = "waiting" => work'.entries[f] = db.entries[f]
    BY <1>5, <1>7, <1>8 DEF Steady, Kept
  <2>4. QED
    BY <2>1, <2>2, <2>3 DEF Kept
<1>12. QED
  BY <1>2, <1>11 DEF Steady

LEMMA InitSteady == Init => Steady
<1>1. SUFFICES ASSUME Init PROVE Steady
  OBVIOUS
<1>2. Blank(NoRows)
  BY DEF Blank, NoRows
<1>3. QED
  BY <1>1, <1>2, NothingIsKept DEF Init, Steady

LEMMA NextSteady == IInv /\ HoldsOK /\ Steady /\ [Next]_vars => Lawful(db, db') /\ Steady'
<1>1. SUFFICES ASSUME IInv, HoldsOK, Steady, [Next]_vars PROVE Lawful(db, db') /\ Steady'
  OBVIOUS
<1>2. CASE Commit
  <2>1. db' = work /\ work' = work
    BY <1>2 DEF Commit
  <2>2. Lawful(db, work) /\ Blank(work)
    BY <1>1, LawfulStaysBlank DEF Steady, Kept
  <2>3. QED
    BY <2>1, <2>2, NothingIsKept DEF Steady
<1>3. CASE db' # db /\ ~Commit
  <2>1. Lawful(db, db') /\ work' = db'
    BY <1>1, <1>3, WaysToCommit, WritesAreLawful DEF Steady
  <2>2. QED
    BY <1>1, <2>1, WritesStaySteady DEF Steady
<1>4. CASE db' = db /\ ~Commit
  <2>1. Lawful(db, db') /\ db' = db /\ ~Commit /\ Steady /\ IInv /\ HoldsOK
    BY <1>1, <1>4, NothingIsKept DEF Kept
  <2>2. work' = work => Steady'
    BY <2>1 DEF Steady
  <2>3. work' = db' => Steady'
    BY <2>1, WritesStaySteady DEF Steady
  <2>4. CASE Members
    <3>1. \/ work' = db'
          \/ \E b \in BookingIds : CancelBooking(b)
          \/ \E e \in EntryIds : AcceptTooLate(e) \/ Decline(e)
      <4>1. \A u \in Users, b \in BookingIds, lo, hi \in Times :
              CreateBooking(u, b, lo, hi) => work' = db'
        BY DEF CreateBooking, CommitRows
      <4>2. \A u \in Users, e \in EntryIds, lo, hi \in Times :
              JoinWaitlist(u, e, lo, hi) => work' = db'
        BY DEF JoinWaitlist, CommitRows
      <4>3. \A e \in EntryIds : AcceptOffer(e) \/ Withdraw(e) => work' = db'
        BY DEF AcceptOffer, Withdraw, CommitRows
      <4>4. QED
        BY <2>4, <4>1, <4>2, <4>3 DEF Members
    <3>2. QED
      BY <2>1, <2>3, <3>1, ReleasesStaySteady
  <2>5. CASE Administrators
    <3>1. \/ work' = db' \/ work' = work
          \/ \E b \in BookingIds : AdminCancelBooking(b) \/ CancelBlackout(b)
      BY <2>5 DEF Administrators, CreateBlackout, CommitRows, Deactivate, Activate, SetEnabled
    <3>2. QED
      BY <2>1, <2>2, <2>3, <3>1, ReleasesStaySteady
  <2>6. CASE PromoteWaiters
    <3>1. (\E e \in EntryIds : Examine(e)) \/ (\E b \in BookingIds : Offer(b))
      BY <2>1, <2>6 DEF PromoteWaiters
    <3>2. QED
      BY <2>1, <3>1, ExamineStaysSteady, OfferStaysSteady
  <2>7. CASE ExpireAndPromote
    BY <2>1, <2>7, ReleasesStaySteady
  <2>8. CASE Crash \/ Tick \/ UNCHANGED vars
    <3>1. work' = db' \/ work' = work
      BY <2>8 DEF Crash, Tick, vars
    <3>2. QED
      BY <2>1, <2>2, <2>3, <3>1
  <2>9. QED
    BY <1>1, <2>1, <2>4, <2>5, <2>6, <2>7, <2>8 DEF Next
<1>5. QED
  BY <1>2, <1>3, <1>4

LEMMA AlwaysSteady == Spec => []Steady
<1>1. Spec => [](IInv /\ HoldsOK)
  BY Inductive, AlwaysHoldsOK, PTL
<1>2. QED
  BY <1>1, InitSteady, NextSteady, PTL DEF Spec

(* No row takes an illegal step, whatever mix of writes a release makes before it
   commits (database guard_booking_update, waitlist/service.py). *)
THEOREM RowsTakeLegalSteps == Spec => RowsMoveLegally
<1>1. IInv /\ HoldsOK /\ Steady /\ [Next]_vars
      => [/\ \A b \in BookingIds : Moved(db.bookings[b], db'.bookings[b], BookingMoves)
          /\ \A e \in EntryIds : Moved(db.entries[e], db'.entries[e], EntryMoves)]_vars
  BY NextSteady DEF Lawful
<1>2. Spec => [](IInv /\ HoldsOK /\ Steady)
  BY Inductive, AlwaysHoldsOK, AlwaysSteady, PTL
<1>3. QED
  BY <1>1, <1>2, PTL DEF Spec, RowsMoveLegally

(* No reservation begins in the past: a create's clock sample is older than the lock
   it waited for, and a hold is accepted before it and its window are over. *)
THEOREM NobodyConfirmsLate == Spec => ConfirmedInTime
<1>1. ASSUME IInv, HoldsOK, Steady, [Next]_vars, NEW b \in BookingIds,
             BecomesConfirmed(b), db'.bookings[b].user # Nobody
      PROVE  now < db'.bookings[b].lo
  <2>1. db.bookings[b].status # "confirmed" /\ db'.bookings[b].status = "confirmed" /\ db' # db
    BY <1>1 DEF BecomesConfirmed
  <2>2. ASSUME NEW c \in BookingIds, NEW row, Books(c, row), row.user = Nobody \/ now < row.lo
        PROVE  now < db'.bookings[b].lo
    BY <1>1, <2>1, <2>2 DEF Books
  <2>3. ASSUME NEW e \in EntryIds, NEW c \in BookingIds, Accepts(e, c) PROVE now < db'.bookings[b].lo
    <3>1. db \in Rows /\ now \in Int
      BY <1>1 DEF IInv, TypeOK
    <3>2. b = c /\ db'.bookings[b].lo = db.bookings[b].lo
      BY <2>1, <2>3, <3>1, MoveBookingsRows DEF Accepts, BookingStatus
    <3>3. /\ db.bookings[b].expires <= db.bookings[b].lo /\ now < db.bookings[b].expires
          /\ db.bookings[b].expires \in Int /\ db.bookings[b].lo \in Int
      BY <1>1, <2>3, <3>1, <3>2, RowsParts
      DEF Accepts, InTime, HoldsOK, GoodRows, HoldsEnd, BookingRow, Times, NoTime
    <3>4. QED
      BY <3>1, <3>2, <3>3
  <2>4. ~Commit
    BY <1>1, <2>1 DEF Commit, Steady, Kept
  <2>5. ~\E e \in EntryIds : Withdraws(e) \/ \E row : Joins(e, row)
    BY <2>1 DEF Withdraws, Joins
  <2>6. QED
    BY <1>1, <2>1, <2>2, <2>3, <2>4, <2>5, WaysToCommit
<1>2. IInv /\ HoldsOK /\ Steady /\ [Next]_vars
      => [\A b \in BookingIds :
            BecomesConfirmed(b) /\ db'.bookings[b].user # Nobody => now < db'.bookings[b].lo]_vars
  BY <1>1
<1>3. Spec => [](IInv /\ HoldsOK /\ Steady)
  BY Inductive, AlwaysHoldsOK, AlwaysSteady, PTL
<1>4. QED
  BY <1>2, <1>3, PTL DEF Spec, ConfirmedInTime

-----------------------------------------------------------------------------
(* The cap on a waitlist, and the archive. *)

(* No step but a join adds to those who wait or hold an offer. *)
LEMMA OnlyJoinsAdd ==
    ASSUME IInv, HoldsOK, Steady, [Next]_vars, NEW e \in EntryIds,
           db'.entries[e].status \in Queued, db.entries[e].status \notin Queued
    PROVE  \E row : Joins(e, row)
<1>1. db' # db /\ db.entries[e] # db'.entries[e]
  OBVIOUS
<1>2. db.entries[e].status = "absent" /\ db'.entries[e].status = "waiting"
  BY <1>1, NextSteady DEF Lawful, Moved, EntryMoves, Queued
<1>3. ~Commit
  BY <1>1, <1>2 DEF Commit, Steady, Kept
<1>4. ~\E b \in BookingIds : \E row : Books(b, row)
  BY <1>1 DEF Books
<1>5. ASSUME NEW f \in EntryIds, Withdraws(f) \/ \E b \in BookingIds : Accepts(f, b) PROVE FALSE
  <2>1. db \in Rows /\ "accepted" \in EntryStatus /\ "cancelled" \in EntryStatus
    BY DEF IInv, TypeOK, EntryStatus
  <2>2. PICK q \in {"accepted", "cancelled"} : db'.entries = MoveEntries(db, {f}, q).entries
    BY <1>5 DEF Withdraws, Accepts
  <2>3. db'.entries[e].status \in {db.entries[e].status, q}
    BY <2>1, <2>2, MoveEntriesRows
  <2>4. QED
    BY <1>2, <2>3
<1>6. ASSUME NEW f \in EntryIds, NEW row, Joins(f, row) PROVE f = e
  BY <1>1, <1>6 DEF Joins
<1>7. QED
  BY <1>1, <1>3, <1>4, <1>5, <1>6, WaysToCommit

LEMMA NextMembershipBounded ==
    ASSUME IsFiniteSet(EntryIds), IInv, HoldsOK, Steady, [Next]_vars, MembershipBounded
    PROVE  MembershipBounded'
<1> DEFINE Q == InState(db, EntryIds, Queued)
           N == InState(db, EntryIds, Queued)'
<1>1. IsFiniteSet(Q) /\ IsFiniteSet(N) /\ Cardinality(Q) \in Nat /\ Cardinality(N) \in Nat /\ MaxActive \in Nat
  <2>1. Q \subseteq EntryIds /\ N \subseteq EntryIds
    BY DEF InState
  <2>2. IsFiniteSet(Q) /\ IsFiniteSet(N)
    BY <2>1, FS_Subset
  <2>3. QED
    BY <2>2, FS_CardinalityType, ConstantsAssumption
<1>2. \A e : e \in N <=> e \in EntryIds /\ db'.entries[e].status \in Queued
  BY DEF InState
<1>3. \A e : e \in Q <=> e \in EntryIds /\ db.entries[e].status \in Queued
  BY DEF InState
<1>4. \A e \in Q \cap N : /\ db'.entries[e].user = db.entries[e].user
                          /\ db'.entries[e].lo = db.entries[e].lo /\ db'.entries[e].hi = db.entries[e].hi
  BY <1>3, NextSteady DEF Lawful, Moved, Queued
<1>5. /\ Cardinality(Q) <= MaxActive
      /\ \A e, f \in Q : /\ db.entries[e].user = db.entries[f].user
                         /\ db.entries[e].lo = db.entries[f].lo /\ db.entries[e].hi = db.entries[f].hi
                         => e = f
  BY DEF MembershipBounded
<1> HIDE DEF Q, N
<1>6. CASE N \subseteq Q
  <2>1. Cardinality(N) <= MaxActive
    <3>1. Cardinality(N) <= Cardinality(Q)
      BY <1>1, <1>6, FS_Subset
    <3>2. QED
      BY <1>1, <1>5, <3>1
  <2>2. \A e, f \in N : /\ db'.entries[e].user = db'.entries[f].user
                        /\ db'.entries[e].lo = db'.entries[f].lo /\ db'.entries[e].hi = db'.entries[f].hi
                        => e = f
    BY <1>4, <1>5, <1>6
  <2>3. QED
    BY <2>1, <2>2 DEF MembershipBounded, N
<1>7. ASSUME NEW e \in N, e \notin Q PROVE MembershipBounded'
  <2>1. PICK row : Joins(e, row)
    BY <1>2, <1>3, <1>7, OnlyJoinsAdd
  <2>2. e \in EntryIds /\ \A f \in EntryIds \ {e} : db'.entries[f] = db.entries[f]
    BY <1>2, <1>7, <2>1 DEF Joins
  <2>3. N = Q \cup {e}
    BY <1>2, <1>3, <1>7, <2>2
  <2>4. Cardinality(Q) < MaxActive
    BY <2>1 DEF Joins, HasRoom, Q
  <2>5. Cardinality(N) <= MaxActive
    <3>1. Cardinality(N) = Cardinality(Q) + 1
      BY <1>1, <1>7, <2>3, FS_AddElement
    <3>2. QED
      BY <1>1, <2>4, <3>1
  <2>6. \A f \in Q : ~(db.entries[f].user = row.user /\ db.entries[f].lo = row.lo /\ db.entries[f].hi = row.hi)
    BY <2>1 DEF Joins, Queuing, Q
  <2>7. db'.entries[e] = row
    BY <2>1 DEF Joins
  <2>8. \A f, g \in N : /\ db'.entries[f].user = db'.entries[g].user
                        /\ db'.entries[f].lo = db'.entries[g].lo /\ db'.entries[f].hi = db'.entries[g].hi
                        => f = g
    BY <1>3, <1>5, <2>2, <2>3, <2>6, <2>7
  <2>9. QED
    BY <2>5, <2>8 DEF MembershipBounded, N
<1>8. QED
  BY <1>6, <1>7

(* A resource never has more active entries than the cap, nor two of one user for
   one window: joins are serialised by the row lock, and a promotion only turns
   one kind of active entry into the other (waitlist/service.py, join_waitlist). *)
THEOREM WaitlistStaysBounded ==
    ASSUME IsFiniteSet(EntryIds)
    PROVE  Spec => []MembershipBounded
<1>1. Init => MembershipBounded
  <2>1. ASSUME Init PROVE InState(db, EntryIds, Queued) = {}
    BY <2>1 DEF Init, NoRows, AbsentEntry, Queued, InState
  <2>2. QED
    BY <2>1, FS_EmptySet, ConstantsAssumption DEF MembershipBounded
<1>2. IInv /\ HoldsOK /\ Steady /\ [Next]_vars /\ MembershipBounded => MembershipBounded'
  BY NextMembershipBounded
<1>3. Spec => [](IInv /\ HoldsOK /\ Steady)
  BY Inductive, AlwaysHoldsOK, AlwaysSteady, PTL
<1>4. QED
  BY <1>1, <1>2, <1>3, PTL DEF Spec

LEMMA NextArchivedIsQuiet ==
    ASSUME IInv, HoldsOK, Progress, Steady, [Next]_vars, ArchivedIsQuiet
    PROVE  ArchivedIsQuiet'
<1>1. db \in Rows /\ work \in Rows /\ now \in Int
  BY DEF IInv, TypeOK
<1>2. SUFFICES ASSUME ~active'
               PROVE  /\ \A e \in EntryIds : db'.entries[e].status # "waiting"
                      /\ \A b \in BookingIds : db'.bookings[b].status \in Occupying => db'.bookings[b].hi <= now'
  BY DEF ArchivedIsQuiet, InState
<1>3. CASE Deactivate
  <2>1. db' = db /\ now' = now /\ ~InUse
    BY <1>3 DEF Deactivate
  <2>2. \A b \in BookingIds : db.bookings[b].hi \in Int
    BY <1>1, RowsParts DEF BookingRow, Times
  <2>3. QED
    BY <1>1, <2>1, <2>2 DEF InUse, InState
<1>4. CASE ~Deactivate
  <2>1. ~active
    BY <1>2, <1>4 DEF Next, vars, Members, Administrators, PromoteWaiters, CreateBooking, JoinWaitlist,
          CancelBooking, AcceptOffer, AcceptTooLate, Withdraw, Decline, AdminCancelBooking, CancelBlackout,
          CreateBlackout, Activate, SetEnabled, ExpireAndPromote, Examine, Offer, Commit, Crash, Tick
  <2>2. now' \in Int /\ now <= now'
    <3>1. now' = now \/ now' = now + 1
      <4>1. CASE Members
        BY <4>1 DEF Members, CreateBooking, JoinWaitlist, CancelBooking, AcceptOffer, AcceptTooLate,
                    Withdraw, Decline
      <4>2. CASE Administrators
        BY <4>2 DEF Administrators, AdminCancelBooking, CancelBlackout, CreateBlackout, Deactivate,
                    Activate, SetEnabled
      <4>3. QED
        BY <4>1, <4>2 DEF Next, vars, PromoteWaiters, ExpireAndPromote, Examine, Offer, Commit, Crash, Tick
    <3>2. QED
      BY <1>1, <3>1
  <2>3. /\ \A e \in EntryIds : db.entries[e].status # "waiting"
        /\ \A b \in BookingIds : db.bookings[b].status \in Occupying => db.bookings[b].hi <= now
    BY <2>1 DEF ArchivedIsQuiet, InState
  <2> DEFINE NothingNew ==
               /\ \A e \in EntryIds : db'.entries[e].status # "waiting"
               /\ \A b \in BookingIds : db'.bookings[b].status \in Occupying =>
                    db.bookings[b].status \in Occupying /\ db'.bookings[b].hi = db.bookings[b].hi
  <2>4. NothingNew
    <3>1. CASE db' = db
      BY <2>3, <3>1
    <3>2. CASE Commit
      <4>1. db' = work /\ Serving(db, work)
        BY <3>2 DEF Commit, Progress
      <4>2. Served(db, work) = {}
        BY <2>3 DEF Served
      <4>3. QED
        BY <2>3, <4>1, <4>2 DEF Serving
    <3>3. ASSUME NEW e \in EntryIds, NEW b \in BookingIds, Accepts(e, b)
          PROVE  NothingNew
      BY <1>1, <2>3, <3>3, MoveBookingsRows, MoveEntriesRows
      DEF Accepts, BookingStatus, EntryStatus, Occupying
    <3>4. ASSUME NEW e \in EntryIds, Withdraws(e) PROVE NothingNew
      BY <2>3, <3>4 DEF Withdraws
    <3>5. QED
      BY <2>1, <3>1, <3>2, <3>3, <3>4, WaysToCommit DEF Books, Joins
  <2>5. \A b \in BookingIds : db.bookings[b].hi \in Int
    BY <1>1, RowsParts DEF BookingRow, Times
  <2>6. QED
    BY <1>1, <2>2, <2>3, <2>4, <2>5
<1>5. QED
  BY <1>3, <1>4

(* An archived resource stays empty: the creates, joins and releases that were waiting
   for its row find it archived, and a release brings nobody back
   (admin/service.py, archive_resource). *)
THEOREM ArchiveIsFinal == Spec => []ArchivedIsQuiet
<1>1. Init => ArchivedIsQuiet
  BY DEF Init, ArchivedIsQuiet
<1>2. Spec => [](IInv /\ HoldsOK /\ Progress /\ Steady)
  BY Inductive, AlwaysHoldsOK, AlwaysProgress, AlwaysSteady, PTL
<1>3. QED
  BY <1>1, <1>2, NextArchivedIsQuiet, PTL DEF Spec

-----------------------------------------------------------------------------
(* The outbox tells the story of every reservation. *)

EntriesOwned(d) == \A e \in EntryIds : d.entries[e].status # "absent" => d.entries[e].user # Nobody

Trails(d) == \A b \in BookingIds : TrailOK(d, b)

Told == EntriesOwned(db) /\ Trails(db) /\ Trails(work)

(* The event that goes with a new state. *)
Tells(type, s) == <<type, s>> \in {<<"booking_confirmed", "confirmed">>, <<"waitlist_offered", "offered">>,
                                   <<"hold_expired", "expired">>, <<"booking_cancelled", "cancelled">>}

(* A write that tells of every reservation it moves, and of no other. *)
TellsAll(d, m, B, type) ==
    /\ \A v : v \in m.events <=> \/ v \in d.events
                                 \/ \E b \in B : v = [type |-> type, booking |-> b, version |-> m.bookings[b].version]
    /\ \A b \in BookingIds : b \notin B => m.bookings[b] = d.bookings[b]
    /\ \A b \in BookingIds : b \in B =>
         /\ m.bookings[b].user # Nobody /\ Tells(type, m.bookings[b].status)
         /\ m.bookings[b].version = d.bookings[b].version + 1
         /\ d.bookings[b].status = "absent" \/ d.bookings[b].user = m.bookings[b].user
    /\ \A e \in EntryIds : d.entries[e].status = "cancelled" => m.entries[e] = d.entries[e]

LEMMA UntouchedTrail ==
    ASSUME NEW d, NEW m, NEW b \in BookingIds, TrailOK(d, b), m.bookings[b] = d.bookings[b],
           \A v : v.booking = b => (v \in m.events <=> v \in d.events),
           \A e \in EntryIds : d.entries[e].status = "cancelled" => m.entries[e] = d.entries[e]
    PROVE  TrailOK(m, b)
<1>1. Declined(d, b) => Declined(m, b)
  BY DEF Declined, Linked
<1>2. \A type : LastEvent(d, b, type) <=> LastEvent(m, b, type)
  BY DEF LastEvent
<1>3. CASE m.bookings[b].user = Nobody
  BY <1>3 DEF TrailOK
<1>4. CASE m.bookings[b].user # Nobody
  BY <1>1, <1>2, <1>4 DEF TrailOK
<1>5. QED
  BY <1>3, <1>4

LEMMA ToldTrail ==
    ASSUME NEW d, d \in Rows, Blank(d), NEW m, NEW B, NEW type, TellsAll(d, m, B, type),
           NEW b \in BookingIds, b \in B, TrailOK(d, b)
    PROVE  TrailOK(m, b)
<1> DEFINE n == [type |-> type, booking |-> b, version |-> m.bookings[b].version]
<1>1. /\ m.bookings[b].user # Nobody /\ Tells(type, m.bookings[b].status)
      /\ m.bookings[b].version = d.bookings[b].version + 1 /\ d.bookings[b].version \in Nat
  BY RowsParts DEF TellsAll, BookingRow
<1>2. \A v : v.booking = b => (v \in m.events <=> v \in d.events \/ v = n)
  BY DEF TellsAll
<1>3. /\ \A v \in d.events : v.booking = b => v.version \in 1..d.bookings[b].version
      /\ \A v, w \in d.events : v.booking = b /\ w.booking = b /\ v.version = w.version => v = w
  <2>1. CASE d.bookings[b].user = Nobody
    BY <2>1 DEF TrailOK
  <2>2. CASE d.bookings[b].user # Nobody
    BY <2>2 DEF TrailOK
  <2>3. QED
    BY <2>1, <2>2
<1>4. n.booking = b /\ n.version = d.bookings[b].version + 1 /\ n \in m.events
  BY <1>1, <1>2
<1>5. LastEvent(m, b, type)
  BY <1>4 DEF LastEvent
<1> HIDE DEF n
<1>6. \A v \in m.events : v.booking = b => v.version \in 1..m.bookings[b].version
  BY <1>1, <1>2, <1>3, <1>4
<1>7. \A v, w \in m.events : v.booking = b /\ w.booking = b /\ v.version = w.version => v = w
  <2>1. \A v \in d.events : v.booking = b => v.version # n.version
    BY <1>1, <1>3, <1>4
  <2>2. QED
    BY <1>2, <1>3, <2>1
<1>8. QED
  BY <1>1, <1>5, <1>6, <1>7 DEF TrailOK, Tells

LEMMA TellingKeepsTrails ==
    ASSUME NEW d, d \in Rows, Blank(d), Trails(d), NEW m, NEW B, NEW type, TellsAll(d, m, B, type)
    PROVE  Trails(m)
<1>1. ASSUME NEW b \in BookingIds, b \notin B PROVE TrailOK(m, b)
  <2>1. \A v : v.booking = b => (v \in m.events <=> v \in d.events)
    BY <1>1 DEF TellsAll
  <2>2. QED
    BY <1>1, <2>1, UntouchedTrail DEF TellsAll, Trails
<1>2. ASSUME NEW b \in BookingIds, b \in B PROVE TrailOK(m, b)
  BY <1>2, ToldTrail DEF Trails
<1>3. QED
  BY <1>1, <1>2 DEF Trails

(* The writes that tell of nothing, and the two that silently move a booking. *)
LEMMA SilentWrite ==
    ASSUME NEW d, NEW m, Trails(d), m.events = d.events, m.bookings = d.bookings,
           \A e \in EntryIds : d.entries[e].status = "cancelled" => m.entries[e] = d.entries[e]
    PROVE  Trails(m)
  BY UntouchedTrail DEF Trails

LEMMA BlackoutWrite ==
    ASSUME NEW d, NEW m, Trails(d), m.events = d.events, NEW b \in BookingIds,
           d.bookings[b].user = Nobody, m.bookings[b].user = Nobody,
           \A c \in BookingIds \ {b} : m.bookings[c] = d.bookings[c],
           \A e \in EntryIds : d.entries[e].status = "cancelled" => m.entries[e] = d.entries[e]
    PROVE  Trails(m)
<1>1. TrailOK(m, b)
  BY DEF Trails, TrailOK
<1>2. ASSUME NEW c \in BookingIds, c # b PROVE TrailOK(m, c)
  BY <1>2, UntouchedTrail DEF Trails
<1>3. QED
  BY <1>1, <1>2 DEF Trails

LEMMA DeclineWrite ==
    ASSUME NEW d, d \in Rows, Trails(d), NEW e \in EntryIds, d.entries[e].status = "offered",
           NEW B, \A b \in B : b \in BookingIds /\ b = d.entries[e].booking /\ d.bookings[b].user # Nobody,
           NEW m, m = MoveEntries(MoveBookings(d, B, "cancelled"), {e}, "cancelled")
    PROVE  Trails(m)
<1>1. "cancelled" \in BookingStatus /\ "cancelled" \in EntryStatus
  BY DEF BookingStatus, EntryStatus
<1>2. /\ m.bookings = MoveBookings(d, B, "cancelled").bookings
      /\ m.entries = MoveEntries(d, {e}, "cancelled").entries
  BY <1>1, PairWrites
<1>3. m.events = d.events
  BY <1>1, MoveBookingsRows, MoveEntriesRows
<1>4. /\ \A c \in BookingIds : m.bookings[c] = IF c \in B THEN BookingInState(d.bookings[c], "cancelled")
                                               ELSE d.bookings[c]
      /\ \A f \in EntryIds : m.entries[f] = IF f = e THEN EntryInState(d.entries[e], "cancelled") ELSE d.entries[f]
  BY <1>2, RowsParts DEF MoveBookings, MoveEntries
<1>5. \A f \in EntryIds : d.entries[f].status = "cancelled" => m.entries[f] = d.entries[f]
  BY <1>4
<1>6. ASSUME NEW b \in BookingIds, b \in B PROVE TrailOK(m, b)
  <2>1. d.entries[e] \in EntryRow /\ d.bookings[b] \in BookingRow
    BY RowsParts
  <2>2. /\ m.entries[e].status = "cancelled" /\ m.entries[e].booking = b
    <3>1. m.entries[e] = EntryInState(d.entries[e], "cancelled") /\ d.entries[e].booking = b
      BY <1>4, <1>6
    <3>2. QED
      BY <1>1, <2>1, <3>1, RowsInState
  <2>3. Declined(m, b)
    BY <2>2 DEF Declined, Linked
  <2>4. /\ m.bookings[b].status = "cancelled" /\ m.bookings[b].user = d.bookings[b].user
        /\ m.bookings[b].version = d.bookings[b].version + 1 /\ d.bookings[b].version \in Nat
    <3>1. m.bookings[b] = BookingInState(d.bookings[b], "cancelled")
      BY <1>4, <1>6
    <3>2. QED
      BY <1>1, <2>1, <3>1, RowsInState DEF BookingInState, BookingRow
  <2>5. /\ \A v \in m.events : v.booking = b => v.version \in 1..d.bookings[b].version
        /\ \A v, w \in m.events : v.booking = b /\ w.booking = b /\ v.version = w.version => v = w
        /\ d.bookings[b].user # Nobody
    BY <1>3, <1>6 DEF Trails, TrailOK
  <2>6. ASSUME NEW v \in m.events, v.booking = b PROVE v.version \in 1..m.bookings[b].version
    <3>1. v.version \in 1..d.bookings[b].version
      BY <2>5, <2>6
    <3>2. QED
      BY <2>4, <3>1
  <2>7. QED
    BY <2>3, <2>4, <2>5, <2>6 DEF TrailOK
<1>7. ASSUME NEW b \in BookingIds, b \notin B PROVE TrailOK(m, b)
  <2>1. m.bookings[b] = d.bookings[b]
    BY <1>4, <1>7
  <2>2. TrailOK(d, b)
    BY DEF Trails
  <2>3. \A v : v.booking = b => (v \in m.events <=> v \in d.events)
    BY <1>3
  <2>4. QED
    BY <1>5, <2>1, <2>2, <2>3, UntouchedTrail, Z3
<1>8. QED
  BY <1>6, <1>7 DEF Trails

(* Bookings and entries move together, and every booking's event is appended. *)
LEMMA PairTells ==
    ASSUME NEW d, d \in Rows, NEW B, B \subseteq BookingIds, NEW E, NEW s \in BookingStatus, NEW q \in EntryStatus,
           NEW type \in EventTypes, Tells(type, s),
           \A b \in B : d.bookings[b].user # Nobody,
           \A e \in E : d.entries[e].status # "cancelled",
           NEW m, m \in Rows, m.events = d.events,
           m.bookings = MoveBookings(d, B, s).bookings, m.entries = MoveEntries(d, E, q).entries
    PROVE  TellsAll(d, AppendEvents(m, type, B), B, type)
<1> DEFINE n == AppendEvents(m, type, B)
<1>1. n.bookings = m.bookings /\ n.entries = m.entries
  BY AppendEventsRows
<1>2. n.events = m.events \cup {[type |-> type, booking |-> b, version |-> m.bookings[b].version] : b \in B}
  BY RowsParts DEF AppendEvents
<1>3. /\ \A b \in BookingIds : m.bookings[b] = IF b \in B THEN BookingInState(d.bookings[b], s) ELSE d.bookings[b]
      /\ \A e \in EntryIds : m.entries[e] = IF e \in E THEN EntryInState(d.entries[e], q) ELSE d.entries[e]
  BY RowsParts DEF MoveBookings, MoveEntries
<1> HIDE DEF n
<1>4. ASSUME NEW b \in BookingIds, b \in B
      PROVE  /\ n.bookings[b].user # Nobody /\ n.bookings[b].status = s
             /\ n.bookings[b].version = d.bookings[b].version + 1
             /\ n.bookings[b].user = d.bookings[b].user
  <2>1. d.bookings[b] \in BookingRow /\ n.bookings[b] = BookingInState(d.bookings[b], s)
    BY <1>1, <1>3, <1>4, RowsParts
  <2>2. n.bookings[b].version = d.bookings[b].version + 1
    BY <2>1 DEF BookingInState, BookingRow
  <2>3. QED
    BY <1>4, <2>1, <2>2, RowsInState
<1>5. \A e \in EntryIds : d.entries[e].status = "cancelled" => n.entries[e] = d.entries[e]
  BY <1>1, <1>3
<1>6. \A v : v \in n.events <=> \/ v \in d.events
                                \/ \E b \in B : v = [type |-> type, booking |-> b, version |-> n.bookings[b].version]
  BY <1>1, <1>2
<1>7. \A b \in BookingIds : b \notin B => n.bookings[b] = d.bookings[b]
  BY <1>1, <1>3
<1>8. QED
  BY <1>4, <1>5, <1>6, <1>7 DEF TellsAll, n

(* Whoever holds an offer is somebody. *)
LEMMA HoldsAreOwned ==
    ASSUME NEW d, d \in Rows, LinksOK(d), EntriesOwned(d), NEW b \in BookingIds, d.bookings[b].status = "offered"
    PROVE  d.bookings[b].user # Nobody
<1>1. PICK e \in EntryIds : d.entries[e].booking = b
  BY DEF LinksOK, Linked
<1>2. d.entries[e].user = d.bookings[b].user /\ d.entries[e].status # "absent"
  BY <1>1, LinkFacts, ConstantsAssumption
<1>3. QED
  BY <1>2 DEF EntriesOwned

LEMMA OwnersStay ==
    ASSUME NEW d, NEW m, EntriesOwned(d), Lawful(d, m),
           \A e \in EntryIds : m.entries[e].status = "waiting" /\ d.entries[e].status = "absent"
                               => m.entries[e].user # Nobody
    PROVE  EntriesOwned(m)
  BY DEF EntriesOwned, Lawful, Moved, EntryMoves

LEMMA NextEntriesOwned ==
    ASSUME IInv, HoldsOK, Steady, EntriesOwned(db), [Next]_vars
    PROVE  EntriesOwned(db')
<1>1. ASSUME NEW e \in EntryIds, db'.entries[e].status = "waiting", db.entries[e].status = "absent"
      PROVE  db'.entries[e].user # Nobody
  <2>1. \E row : Joins(e, row)
    BY <1>1, OnlyJoinsAdd DEF Queued
  <2>2. QED
    BY <2>1 DEF Joins
<1>2. QED
  BY <1>1, NextSteady, OwnersStay

LEMMA ReleaseBookingTells ==
    ASSUME IInv, HoldsOK, Steady, Told, NEW b \in BookingIds, NEW u, db.bookings[b].user # Nobody,
           ReleaseBooking(b, u)
    PROVE  Trails(work')
<1>1. db \in Rows /\ Blank(db) /\ Trails(db)
  BY DEF IInv, TypeOK, Steady, Told
<1>2. /\ "booking_cancelled" \in EventTypes /\ "cancelled" \in BookingStatus /\ "cancelled" \in EntryStatus
  BY DEF EventTypes, BookingStatus, EntryStatus
<1> DEFINE E == Linked(db, {b}) \cap InState(db, EntryIds, {"offered"})
           m == MoveEntries(MoveBookings(db, {b}, "cancelled"), E, "cancelled")
<1>3. /\ m \in Rows /\ m.bookings = MoveBookings(db, {b}, "cancelled").bookings
      /\ m.entries = MoveEntries(db, E, "cancelled").entries
  BY <1>1, <1>2, PairWrites
<1>4. m.events = db.events
  BY <1>1, <1>2, MoveBookingsRows, MoveEntriesRows
<1>5. work' = AppendEvents(m, "booking_cancelled", {b})
  BY DEF ReleaseBooking, Release
<1>6. \A e \in E : db.entries[e].status # "cancelled"
  BY DEF InState
<1> HIDE DEF m, E
<1>7. TellsAll(db, AppendEvents(m, "booking_cancelled", {b}), {b}, "booking_cancelled")
  BY <1>1, <1>2, <1>3, <1>4, <1>6, PairTells DEF Tells
<1>8. QED
  BY <1>1, <1>5, <1>7, TellingKeepsTrails

LEMMA ExpireHoldsTells ==
    ASSUME IInv, HoldsOK, Steady, Told, NEW B, B \subseteq BookingIds,
           \A b \in B : db.bookings[b].status = "offered"
    PROVE  Trails(ExpireHolds(db, B))
<1>1. db \in Rows /\ Blank(db) /\ Trails(db) /\ LinksOK(db) /\ EntriesOwned(db)
  BY DEF IInv, TypeOK, Steady, Told, HoldsOK, GoodRows
<1>2. /\ "hold_expired" \in EventTypes /\ "expired" \in BookingStatus /\ "expired" \in EntryStatus
  BY DEF EventTypes, BookingStatus, EntryStatus
<1> DEFINE E == Linked(db, B)
           m == MoveBookings(MoveEntries(db, E, "expired"), B, "expired")
<1>3. /\ m \in Rows /\ m.bookings = MoveBookings(db, B, "expired").bookings
      /\ m.entries = MoveEntries(db, E, "expired").entries
  BY <1>1, <1>2, PairWrites
<1>4. m.events = db.events
  BY <1>1, <1>2, MoveBookingsRows, MoveEntriesRows
<1>5. \A e \in E : db.entries[e].status # "cancelled"
  BY <1>1, LinkFacts DEF Linked
<1>6. \A b \in B : db.bookings[b].user # Nobody
  BY <1>1, HoldsAreOwned
<1>7. ExpireHolds(db, B) = AppendEvents(m, "hold_expired", B)
  BY DEF ExpireHolds
<1> HIDE DEF m, E
<1>8. TellsAll(db, AppendEvents(m, "hold_expired", B), B, "hold_expired")
  BY <1>1, <1>2, <1>3, <1>4, <1>5, <1>6, PairTells DEF Tells
<1>9. QED
  BY <1>1, <1>7, <1>8, TellingKeepsTrails

(* The writes of the members. *)
LEMMA MembersTell ==
    ASSUME IInv, HoldsOK, Steady, Told, Members
    PROVE  Trails(work')
<1>1. db \in Rows /\ LinksOK(db) /\ Blank(db) /\ Trails(db) /\ EntriesOwned(db)
  BY DEF IInv, TypeOK, HoldsOK, GoodRows, Steady, Told
<1>2. /\ {"booking_confirmed", "booking_cancelled", "hold_expired"} \subseteq EventTypes
      /\ {"confirmed", "cancelled", "expired"} \subseteq BookingStatus
      /\ {"accepted", "cancelled", "expired"} \subseteq EntryStatus
  BY DEF EventTypes, BookingStatus, EntryStatus
<1>3. ASSUME NEW u \in Users, NEW b \in BookingIds, NEW lo \in Times, NEW hi \in Times,
             CreateBooking(u, b, lo, hi)
      PROVE  Trails(work')
  <2> DEFINE row == [status |-> "confirmed", user |-> u, lo |-> lo, hi |-> hi,
                     expires |-> NoTime, version |-> 1]
             i == InsertBooking(db, b, row)
             m == AppendEvents(i, "booking_confirmed", {b})
  <2>1. row \in BookingRow /\ row.status = "confirmed" /\ row.user # Nobody /\ row.version = 1
    BY ConstantsAssumption DEF BookingRow, BookingStatus
  <2>2. work' = m /\ db.bookings[b].status = "absent"
    BY <1>3 DEF CreateBooking, CommitRows
  <2>3. db.bookings[b].version = 0
    BY <1>1, <2>2 DEF Blank, AbsentBooking
  <2> HIDE DEF row
  <2>4. /\ i \in Rows /\ i.entries = db.entries /\ i.events = db.events /\ i.bookings[b] = row
        /\ \A c \in BookingIds \ {b} : i.bookings[c] = db.bookings[c]
    BY <1>1, <2>1, InsertRows
  <2> HIDE DEF i
  <2>5. m.bookings = i.bookings /\ m.entries = i.entries
    BY <1>2, <2>4, AppendEventsRows
  <2>6. m.events = i.events
          \cup {[type |-> "booking_confirmed", booking |-> c, version |-> i.bookings[c].version] : c \in {b}}
    BY <2>4, RowsParts DEF AppendEvents
  <2> HIDE DEF m
  <2>7. TellsAll(db, m, {b}, "booking_confirmed")
    BY <2>1, <2>2, <2>3, <2>4, <2>5, <2>6 DEF TellsAll, Tells
  <2>8. QED
    BY <1>1, <2>2, <2>7, TellingKeepsTrails
<1>4. ASSUME NEW u \in Users, NEW e \in EntryIds, NEW lo \in Times, NEW hi \in Times,
             JoinWaitlist(u, e, lo, hi)
      PROVE  Trails(work')
  <2>1. PICK begun \in Samples :
          CommitRows(InsertEntry(db, e,
            [status |-> "waiting", user |-> u, lo |-> lo, hi |-> hi,
             created |-> begun, booking |-> NoBooking, version |-> 1]))
    BY <1>4 DEF JoinWaitlist
  <2> DEFINE row == [status |-> "waiting", user |-> u, lo |-> lo, hi |-> hi,
                     created |-> begun, booking |-> NoBooking, version |-> 1]
             m == InsertEntry(db, e, row)
  <2>2. row \in EntryRow
    BY DEF EntryRow, EntryStatus, Samples, IInv, TypeOK
  <2>3. work' = m /\ db.entries[e].status = "absent"
    BY <1>4, <2>1 DEF JoinWaitlist, CommitRows
  <2> HIDE DEF row
  <2>4. /\ m.bookings = db.bookings /\ m.events = db.events
        /\ \A f \in EntryIds \ {e} : m.entries[f] = db.entries[f]
    BY <1>1, <2>2, InsertRows
  <2> HIDE DEF m
  <2>5. QED
    BY <1>1, <2>3, <2>4, SilentWrite
<1>5. ASSUME NEW b \in BookingIds, CancelBooking(b) PROVE Trails(work')
  <2>1. db.bookings[b].user # Nobody /\ ReleaseBooking(b, db.bookings[b].user)
    BY <1>5, ConstantsAssumption DEF CancelBooking
  <2>2. QED
    BY <2>1, ReleaseBookingTells
<1>6. ASSUME NEW e \in EntryIds, AcceptOffer(e) PROVE Trails(work')
  <2> DEFINE b == db.entries[e].booking
             m == MoveEntries(MoveBookings(db, {b}, "confirmed"), {e}, "accepted")
  <2>1. /\ db.entries[e].status = "offered" /\ db.bookings[b].status = "offered" /\ b \in BookingIds
        /\ work' = AppendEvents(m, "booking_confirmed", {b})
    BY <1>1, <1>6, LinkFacts DEF AcceptOffer, CommitRows
  <2>2. /\ m \in Rows /\ m.bookings = MoveBookings(db, {b}, "confirmed").bookings
        /\ m.entries = MoveEntries(db, {e}, "accepted").entries
    BY <1>1, <1>2, PairWrites
  <2>3. m.events = db.events
    BY <1>1, <1>2, MoveBookingsRows, MoveEntriesRows
  <2>4. db.bookings[b].user # Nobody
    BY <1>1, <2>1, HoldsAreOwned
  <2> HIDE DEF m, b
  <2>5. TellsAll(db, AppendEvents(m, "booking_confirmed", {b}), {b}, "booking_confirmed")
    BY <1>1, <1>2, <2>1, <2>2, <2>3, <2>4, PairTells DEF Tells
  <2>6. QED
    BY <1>1, <2>1, <2>5, TellingKeepsTrails
<1>7. ASSUME NEW e \in EntryIds, AcceptTooLate(e) PROVE Trails(work')
  <2> DEFINE b == db.entries[e].booking
  <2>1. b \in BookingIds /\ db.bookings[b].status = "offered" /\ work' = ExpireHolds(db, {b})
    BY <1>1, <1>7, LinkFacts DEF AcceptTooLate, Release
  <2> HIDE DEF b
  <2>2. QED
    BY <2>1, ExpireHoldsTells
<1>8. ASSUME NEW e \in EntryIds, Withdraw(e) PROVE Trails(work')
  <2>1. work' = MoveEntries(db, {e}, "cancelled") /\ db.entries[e].status = "waiting"
    BY <1>8 DEF Withdraw, CommitRows
  <2>2. /\ work'.bookings = db.bookings /\ work'.events = db.events
        /\ \A f \in EntryIds : f # e => work'.entries[f] = db.entries[f]
    BY <1>1, <1>2, <2>1, MoveEntriesRows, RowsParts DEF MoveEntries
  <2>3. QED
    BY <1>1, <2>1, <2>2, SilentWrite
<1>9. ASSUME NEW e \in EntryIds, Decline(e) PROVE Trails(work')
  <2> DEFINE B == {b \in BookingIds : b = db.entries[e].booking /\ db.bookings[b].status = "offered"}
  <2>1. db.entries[e].status = "offered"
        /\ work' = MoveEntries(MoveBookings(db, B, "cancelled"), {e}, "cancelled")
    BY <1>9 DEF Decline, Release
  <2>2. \A b \in B : b \in BookingIds /\ b = db.entries[e].booking /\ db.bookings[b].user # Nobody
    BY <1>1, HoldsAreOwned
  <2> HIDE DEF B
  <2>3. QED
    BY <1>1, <2>1, <2>2, DeclineWrite
<1>10. QED
  BY <1>3, <1>4, <1>5, <1>6, <1>7, <1>8, <1>9 DEF Members

LEMMA AdministratorsTell ==
    ASSUME IInv, HoldsOK, Steady, Told, Administrators
    PROVE  Trails(work')
<1>1. db \in Rows /\ Blank(db) /\ Trails(db) /\ Trails(work)
  BY DEF IInv, TypeOK, Steady, Told
<1>2. ASSUME NEW b \in BookingIds, AdminCancelBooking(b) PROVE Trails(work')
  BY <1>2, ReleaseBookingTells DEF AdminCancelBooking
<1>3. ASSUME NEW b \in BookingIds, CancelBlackout(b) PROVE Trails(work')
  <2>1. work' = MoveBookings(db, {b}, "cancelled") /\ db.bookings[b].user = Nobody
    BY <1>3 DEF CancelBlackout, Release
  <2>2. /\ work'.entries = db.entries /\ work'.events = db.events /\ work'.bookings[b].user = Nobody
        /\ \A c \in BookingIds \ {b} : work'.bookings[c] = db.bookings[c]
    <3>1. /\ work'.entries = db.entries /\ work'.events = db.events /\ work'.bookings[b].user = Nobody
      BY <1>1, <2>1, MoveBookingsRows DEF BookingStatus
    <3>2. \A c \in BookingIds \ {b} : work'.bookings[c] = db.bookings[c]
      BY <1>1, <2>1, RowsParts DEF MoveBookings
    <3>3. QED
      BY <3>1, <3>2
  <2>3. QED
    BY <1>1, <2>1, <2>2, BlackoutWrite
<1>4. ASSUME NEW b \in BookingIds, NEW lo \in Times, NEW hi \in Times, CreateBlackout(b, lo, hi)
      PROVE  Trails(work')
  <2> DEFINE row == [status |-> "confirmed", user |-> Nobody, lo |-> lo, hi |-> hi,
                     expires |-> NoTime, version |-> 1]
             m == InsertBooking(db, b, row)
  <2>1. row \in BookingRow /\ row.user = Nobody
    BY DEF BookingRow, BookingStatus
  <2>2. work' = m /\ db.bookings[b].user = Nobody
    BY <1>1, <1>4 DEF CreateBlackout, CommitRows, Blank, AbsentBooking
  <2> HIDE DEF row
  <2>3. /\ m.entries = db.entries /\ m.events = db.events /\ m.bookings[b] = row
        /\ \A c \in BookingIds \ {b} : m.bookings[c] = db.bookings[c]
    BY <1>1, <2>1, InsertRows
  <2> HIDE DEF m
  <2>4. QED
    BY <1>1, <2>1, <2>2, <2>3, BlackoutWrite
<1>5. ASSUME Deactivate \/ Activate \/ \E u \in Managed : SetEnabled(u) PROVE Trails(work')
  BY <1>1, <1>5 DEF Deactivate, Activate, SetEnabled
<1>6. QED
  BY <1>2, <1>3, <1>4, <1>5 DEF Administrators

(* The writes of a release that promotes. *)
LEMMA PromotionsTell ==
    ASSUME IInv, Steady, Told, PromoteWaiters
    PROVE  Trails(work')
<1>1. work \in Rows /\ Blank(work) /\ Trails(work) /\ EntriesOwned(work)
  <2>1. Blank(work)
    BY LawfulStaysBlank DEF Steady, Kept
  <2>2. EntriesOwned(work)
    BY OwnersStay DEF Steady, Kept, Told
  <2>3. QED
    BY <2>1, <2>2 DEF IInv, TypeOK, Told
<1>2. ASSUME NEW e \in EntryIds, Examine(e) PROVE Trails(work')
  <2>1. work.entries[e].status = "waiting"
    BY <1>2 DEF Examine, IsNext, Unscanned, InState
  <2>2. CASE work' = work
    BY <1>1, <2>2
  <2>3. CASE work' = MoveEntries(work, {e}, "expired")
    <3>1. /\ work'.bookings = work.bookings /\ work'.events = work.events
          /\ \A f \in EntryIds : f # e => work'.entries[f] = work.entries[f]
      BY <1>1, <2>3, MoveEntriesRows, RowsParts DEF MoveEntries, EntryStatus
    <3>2. QED
      BY <1>1, <2>1, <3>1, SilentWrite
  <2>4. QED
    BY <1>2, <2>2, <2>3 DEF Examine
<1>3. ASSUME NEW b \in BookingIds, Offer(b) PROVE Trails(work')
  <2>1. PICK e \in EntryIds : e = candidate /\ work.entries[e].status = "waiting"
    BY <1>3 DEF IInv, TypeOK, ScanOK, Offer
  <2> DEFINE row == work.entries[e]
             hold == [status |-> "offered", user |-> row.user, lo |-> row.lo, hi |-> row.hi,
                      expires |-> OfferExpiry(now, row.lo), version |-> 1]
             link == [row EXCEPT !.status = "offered", !.booking = b, !.version = row.version + 1]
             i == InsertBooking(work, b, hold)
             j == InsertEntry(i, e, link)
             m == AppendEvents(j, "waitlist_offered", {b})
  <2>2. work' = m /\ now \in Nat /\ work.bookings[b].status = "absent"
    BY <1>3, <2>1 DEF Offer, IInv, TypeOK
  <2>3. row \in EntryRow /\ row.user # Nobody /\ work.bookings[b].version = 0
    BY <1>1, <2>1, <2>2, RowsParts DEF EntriesOwned, Blank, AbsentBooking
  <2>4. hold \in BookingRow /\ hold.status = "offered" /\ hold.version = 1 /\ hold.user # Nobody
    BY <2>2, <2>3, OfferExpiryBound DEF BookingRow, BookingStatus, EntryRow
  <2>5. link \in EntryRow
    <3>1. [row EXCEPT !.status = "offered"] \in EntryRow
      BY <2>3 DEF EntryRow, EntryStatus
    <3>2. [[row EXCEPT !.status = "offered"] EXCEPT !.booking = b] \in EntryRow
      BY <3>1 DEF EntryRow
    <3>3. row.version + 1 \in Nat
      BY <2>3 DEF EntryRow
    <3>4. QED
      BY <3>2, <3>3 DEF EntryRow
  <2> HIDE DEF row, hold, link
  <2>6. /\ i \in Rows /\ i.entries = work.entries /\ i.events = work.events /\ i.bookings[b] = hold
        /\ \A c \in BookingIds \ {b} : i.bookings[c] = work.bookings[c]
    BY <1>1, <2>4, InsertRows
  <2> HIDE DEF i
  <2>7. /\ j \in Rows /\ j.bookings = i.bookings /\ j.events = i.events
        /\ \A f \in EntryIds \ {e} : j.entries[f] = work.entries[f]
    BY <2>5, <2>6, InsertRows
  <2> HIDE DEF j
  <2>8. m.bookings = j.bookings /\ m.entries = j.entries
    BY <2>7, AppendEventsRows DEF EventTypes
  <2>9. m.events = j.events
          \cup {[type |-> "waitlist_offered", booking |-> c, version |-> j.bookings[c].version] : c \in {b}}
    BY <2>7, RowsParts DEF AppendEvents
  <2> HIDE DEF m
  <2>10. TellsAll(work, m, {b}, "waitlist_offered")
    BY <2>1, <2>2, <2>3, <2>4, <2>6, <2>7, <2>8, <2>9 DEF TellsAll, Tells
  <2>11. QED
    BY <1>1, <2>2, <2>10, TellingKeepsTrails
<1>4. CASE Commit
  BY <1>1, <1>4 DEF Commit
<1>5. QED
  BY <1>2, <1>3, <1>4 DEF PromoteWaiters

LEMMA InitTold == Init => Told
<1>1. SUFFICES ASSUME Init PROVE Told
  OBVIOUS
<1>2. EntriesOwned(NoRows) /\ Trails(NoRows)
  BY DEF EntriesOwned, Trails, TrailOK, NoRows, AbsentEntry, AbsentBooking
<1>3. QED
  BY <1>1, <1>2 DEF Init, Told

LEMMA NextTold == IInv /\ HoldsOK /\ Steady /\ Told /\ [Next]_vars => Told'
<1>1. SUFFICES ASSUME IInv, HoldsOK, Steady, Told, [Next]_vars PROVE Told'
  OBVIOUS
<1>2. EntriesOwned(db')
  BY <1>1, NextEntriesOwned DEF Told
<1>3. Trails(work')
  <2>1. CASE ExpireAndPromote
    <3>1. work' = ExpireHolds(db, Overdue)
      BY <2>1 DEF ExpireAndPromote, Release
    <3>2. QED
      BY <1>1, <3>1, ExpireHoldsTells DEF Overdue
  <2>2. CASE Crash \/ Tick \/ UNCHANGED vars
    BY <1>1, <2>2 DEF Crash, Tick, vars, Told
  <2>3. QED
    BY <1>1, <2>1, <2>2, MembersTell, AdministratorsTell, PromotionsTell DEF Next
<1>4. Trails(db')
  <2>1. db' = db \/ db' = work \/ db' = work'
    BY <1>1, WaysToCommit DEF Books, Joins, Accepts, Withdraws, Commit
  <2>2. QED
    BY <1>1, <1>3, <2>1 DEF Told
<1>5. QED
  BY <1>2, <1>3, <1>4 DEF Told

LEMMA AlwaysTold == Spec => []Told
<1>1. Spec => [](IInv /\ HoldsOK /\ Steady)
  BY Inductive, AlwaysHoldsOK, AlwaysSteady, PTL
<1>2. QED
  BY <1>1, InitTold, NextTold, PTL DEF Spec

(* The outbox has one event for each version of a reservation but a declined offer's,
   and none for a blackout, whichever transaction moved it
   (notifications/outbox.py, append_event and its callers). *)
THEOREM TheOutboxTellsAll == Spec => []EventTrail
<1>1. Told => EventTrail
  BY DEF Told, Trails, EventTrail
<1>2. QED
  BY <1>1, AlwaysTold, PTL

-----------------------------------------------------------------------------
(* Only the commit of a release shows an offer to the readers of committed rows. *)
LEMMA OnlyCommitsOffer ==
    ASSUME IInv, HoldsOK, [Next]_vars, NEW e \in EntryIds, BecomesOffered(e)
    PROVE  db' = work
<1>1. /\ db.entries[e].status = "waiting" /\ db'.entries[e].status = "offered" /\ db' # db
      /\ db \in Rows /\ "accepted" \in EntryStatus /\ "cancelled" \in EntryStatus
  BY DEF BecomesOffered, IInv, TypeOK, EntryStatus
<1>2. ASSUME NEW f \in EntryIds, NEW q \in {"accepted", "cancelled"},
             db'.entries = MoveEntries(db, {f}, q).entries
      PROVE  FALSE
  <2>1. db'.entries[e].status \in {db.entries[e].status, q}
    BY <1>1, <1>2, MoveEntriesRows
  <2>2. QED
    BY <1>1, <2>1
<1>3. ~\E f \in EntryIds : Withdraws(f) \/ \E b \in BookingIds : Accepts(f, b)
  BY <1>2 DEF Withdraws, Accepts
<1>4. ~\E f \in EntryIds : \E row : Joins(f, row)
  BY <1>1 DEF Joins
<1>5. ~\E b \in BookingIds : \E row : Books(b, row)
  BY <1>1 DEF Books
<1>6. QED
  BY <1>1, <1>3, <1>4, <1>5, WaysToCommit DEF Commit

(* An offer never overtakes an older waiter for the same window or a part of it
   (waitlist/service.py, the ORDER BY of promote_waiters). *)
THEOREM NobodyIsOvertaken == Spec => FirstComeFirstServed
<1> DEFINE InOrder == \A e, f \in EntryIds :
        /\ BecomesOffered(e)
        /\ db.entries[f].status = "waiting"
        /\ db.entries[e].lo <= db.entries[f].lo /\ db.entries[f].hi <= db.entries[e].hi
        /\ \/ db.entries[f].created < db.entries[e].created
           \/ db.entries[f].created = db.entries[e].created /\ f < e
        => db'.entries[f].status # "waiting"
<1>1. IInv /\ HoldsOK /\ Progress /\ [Next]_vars => [InOrder]_vars
  <2>1. SUFFICES ASSUME IInv, HoldsOK, Progress, [Next]_vars,
                        NEW e \in EntryIds, NEW f \in EntryIds,
                        BecomesOffered(e), db.entries[f].status = "waiting", db'.entries[f].status = "waiting",
                        db.entries[e].lo <= db.entries[f].lo, db.entries[f].hi <= db.entries[e].hi,
                        \/ db.entries[f].created < db.entries[e].created
                        \/ db.entries[f].created = db.entries[e].created /\ f < e
                 PROVE  FALSE
    OBVIOUS
  <2>2. db' = work
    BY <2>1, OnlyCommitsOffer
  <2>3. e \in Served(db, work) /\ f \in InState(work, EntryIds, {"waiting"})
    BY <2>1, <2>2 DEF BecomesOffered, Served, InState
  <2>4. SameRequest(work.entries[e], db.entries[e]) /\ SameRequest(work.entries[f], db.entries[f])
    BY <2>1 DEF Progress, Serving, BecomesOffered
  <2>5. Earlier(Place(work, e), Place(work, f))
    BY <2>1, <2>3, <2>4 DEF Progress, Serving, Inside, SameRequest
  <2>6. db.entries[e].created \in Int /\ db.entries[f].created \in Int /\ e \in Int /\ f \in Int
    BY <2>1, RowsParts, ConstantsAssumption DEF IInv, TypeOK, EntryRow
  <2>7. QED
    BY <2>1, <2>4, <2>5, <2>6 DEF Earlier, Place, SameRequest
<1>2. Spec => [](IInv /\ HoldsOK /\ Progress)
  BY Inductive, AlwaysHoldsOK, AlwaysProgress, PTL
<1>3. QED
  BY <1>1, <1>2, PTL DEF Spec, FirstComeFirstServed
=============================================================================
