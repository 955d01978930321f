SPECIFICATION Spec
CONSTANTS
    Caller = {"c1", "c2"}
    Name <- MCName
    Blank = Blank
    Descriptors = 2
    MaxStarts = 4
INVARIANTS StateDescribesNodes NamesFindNodes LeaksAreFailedStarts
CHECK_DEADLOCK FALSE
