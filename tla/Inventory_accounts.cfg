SPECIFICATION Spec
CONSTANTS
    u1 = u1  u2 = u2
    b1 = b1  b2 = b2  b3 = b3  b4 = b4
    Users = {u1, u2}
    Nobody = Nobody
    BookingIds = {b1, b2, b3}
    NoBooking = NoBooking
    EntryIds = {1, 2}
    Slot = 2  Lead = 1  Hold = 1
    MaxSlots = 2  MaxBlackoutSlots = 1  MaxAhead = 4
    LockWait = 0
    MaxActive = 1
    Horizon = 4
    LastTick = 4
    MaxCrashes = 1
    Managed = {u1, u2}
SYMMETRY Interchangeable
INVARIANTS TypeOK EventTrail ArchivedIsQuiet MembershipBounded
PROPERTY RowsMoveLegally
CHECK_DEADLOCK FALSE
