CONSTANTS
    Kinds = {"SmallInt", "TimestampTZ"}
    MaxColumns = 2
    MaxColumnLength = 2
    Values <- MCValues
    Offsets = {0, 1}
    NumColumnsSet = {1, 2}
    SubCommitDeltas = {0}
SPECIFICATION Spec
INVARIANT TimestampOffsetPlaneUnused
CHECK_DEADLOCK FALSE
