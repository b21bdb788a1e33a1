SPECIFICATION FairSpec
CONSTANTS
    r1 = r1  r2 = r2  r3 = r3
    Requests = {r1, r2, r3}
    Bodies = {"x", "y"}
    Nothing = Nothing
    Ttl = 2  MaxTries = 3  MaxDuration = 1  LastTick = 3
INVARIANT AnswersAreTrue
PROPERTIES KeepsPromise RequestsEnd
CHECK_DEADLOCK FALSE
