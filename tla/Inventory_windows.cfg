SPECIFICATION Spec
CONSTANTS
    u1 = u1  u2 = u2
    b1 = b1  b2 = b2  b3 = b3  b4 = b4
    Users = {u1, u2}
    Nobody = Nobody
    BookingIds = {b1, b2, b3, b4}
    NoBooking = NoBooking
    EntryIds = {1, 2}
    Slot = 2  Lead = 1  Hold = 1
    MaxSlots = 2  MaxBlackoutSlots = 0  MaxAhead = 4
    LockWait = 0
    MaxActive = 2
    Horizon = 6
    LastTick = 1
    MaxCrashes = 0
    Managed = {}
SYMMETRY Interchangeable
INVARIANTS NoOverlap NoStrandedWaiter OfferLinked
PROPERTIES FirstComeFirstServed KeepsPromise
CHECK_DEADLOCK FALSE
