SPECIFICATION FairSpec
CONSTANTS
    w1 = w1  w2 = w2
    Workers = {w1, w2}  Mailing = {w1, w2}
    Events = {1}  Offers = {}  NoEvent = 0
    MaxAttempts = 2  Lease = 2
    BaseDelay = 1  MaxDelay = 2  Jitter = 1
    Memory = 1
    MaxRetries = 1  MaxCrashes = 1
INVARIANTS DeliveredIsAccounted DuplicatesAreExcused DeadAfterAllAttempts
PROPERTIES OnlyTheHolderFinishes EventsSettle
CHECK_DEADLOCK FALSE
