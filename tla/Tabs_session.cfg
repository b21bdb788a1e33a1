SPECIFICATION FairSpec
CONSTANTS
    t1 = t1  t2 = t2
    Tabs = {t1, t2}
    Nobody = Nobody
    Room = 1
    Drafting = {t1}
    MaxLosses = 1
    MaxSignOuts = 1
    MaxBare = 1
INVARIANTS NoFalseAlarm NotSignedOutForNothing
PROPERTY SignOutSticks
CHECK_DEADLOCK FALSE
