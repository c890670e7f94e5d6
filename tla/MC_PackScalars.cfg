CONSTANTS
    Kinds = {"SmallInt", "Int", "BigInt", "Int128", "Decimal75", "Scalar", "VarChar", "Boolean", "TimestampTZ"}
    MaxColumns = 2
    MaxColumnLength = 2
    Values <- MCValues
    Offsets = {0, 1}
    NumColumnsSet = {1, 2}
    SubCommitDeltas = {0}
SPECIFICATION TestedSpec
INVARIANT WriteOnce
INVARIANT SignCorrectionRecoversValue
INVARIANT AgreesWithUnitTests
PROPERTY PackerRefinementSafety
CHECK_DEADLOCK FALSE
