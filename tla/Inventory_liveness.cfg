SPECIFICATION FairSpec
CONSTANTS
    u1 = u1  u2 = u2
    b1 = b1  b2 = b2  b3 = b3  b4 = b4
    Users = {u1, u2}
    Nobody = Nobody
    BookingIds = {b1, b2, b3}
    NoBooking = NoBooking
    EntryIds = {1, 2}
    Slot = 4  Lead = 2  Hold = 2
    MaxSlots = 2  MaxBlackoutSlots = 0  MaxAhead = 8
    LockWait = 1
    MaxActive = 2
    Horizon = 8
    LastTick = 4
    MaxCrashes = 1
    Managed = {}
PROPERTIES ConfirmedInTime OverdueHoldsEnd WaitingEnds
CHECK_DEADLOCK FALSE
