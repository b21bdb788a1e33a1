SPECIFICATION Spec
CONSTANTS
    r1 = r1  r2 = r2
    Users = {"u"}
    Requests = {r1, r2}
    Tokens = {1, 2, 3}  NoToken = 0
    TokenTtl = 1  FamilyTtl = 2
    MaxEpoch = 2  LastTick = 2
PROPERTY LoginRechecks
CHECK_DEADLOCK FALSE
