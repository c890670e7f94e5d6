CONSTANTS
    Shapes <- MCShapesNoSilentWrap
    Offsets = {0, 1}
    NumColumnsSet = {0, 1, 2}
    Builds = {"debug", "release"}
SPECIFICATION Spec
INVARIANT LengthMatchesBitTable
\* Every call ends: it returns or it panics.
CHECK_DEADLOCK FALSE
