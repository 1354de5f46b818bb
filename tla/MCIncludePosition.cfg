CONSTANTS
    Names <- MCNames
    Contents <- MCContents
    MaxPasses = 1
SPECIFICATION Spec
CHECK_DEADLOCK FALSE
INVARIANT IncludeAtSpecPosition
