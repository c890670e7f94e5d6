CONSTANTS
    Kinds = {"SmallInt", "Int128", "Scalar", "Boolean", "TimestampTZ"}
    MaxColumns = 2
    MaxColumnLength = 2
    Values <- MCValues
    Offsets = {0, 1}
    NumColumnsSet = {1, 2}
    SubCommitDeltas <- MCDeltasAny
SPECIFICATION Spec
INVARIANT PanicOnlyOnMismatch
CHECK_DEADLOCK FALSE
