SPECIFICATION LabSpec
CONSTANTS
    w1 = w1  w2 = w2
    Writers = {w1, w2}
    MaxRuns = 3
PROPERTIES OnlyItsOwn SuccessIsTrue
CHECK_DEADLOCK FALSE
